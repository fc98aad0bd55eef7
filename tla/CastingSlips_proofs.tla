------------------------- MODULE CastingSlips_proofs -------------------------
(***************************************************************************)
(* What a step of the office may do to an order row, for any number of     *)
(* orders and concurrent requests, and the type correctness of             *)
(* IntakeOrders; then the safety of the casting slips, for any number of   *)
(* orders, slips, workers and requests and any weighings, and that they    *)
(* implement the promise of CastingBatch (SlipsImplementBatches).          *)
(***************************************************************************)
EXTENDS CastingSlips, SumLemmas, TLAPS

-----------------------------------------------------------------------------
(* The office.                                                             *)

(* The statuses a request of the office may write.                         *)
DeskWrites == IntakeStatuses \cup Manual \cup {"CASTING", "DELETED"}

DeskStep(c) == Asks(c) \/ Saves(c) \/ Deletes(c) \/ Fail(c)

(* A read remembers a well-formed request and leaves the rows alone.       *)
LEMMA AskType ==
    ASSUME TypeOK, NEW c \in Clients, NEW op, NEW os, NEW arg,
           [op |-> op, orders |-> os, arg |-> arg] \in Requests, Ask(c, op, os, arg)
    PROVE  TypeOK' /\ UNCHANGED row
  BY DEF TypeOK, Ask, row

(* The reply to a request keeps the request table well formed.             *)
LEMMA ReplyType ==
    ASSUME TypeOK, NEW c \in Clients, Reply(c) \/ req' = req
    PROVE  req' \in [Clients -> Requests]
<1>1. Idle \in Requests
  BY DEF Requests
<1> QED
  BY <1>1 DEF TypeOK, Reply

(* Every read step.                                                        *)
LEMMA AsksType ==
    ASSUME TypeOK, NEW c \in Clients, Asks(c)
    PROVE  TypeOK' /\ UNCHANGED row
<1> USE DEF AllOps, Manual, Requests
<1>1. ASSUME NEW o \in Orders, ApproveAsk(c, o) PROVE TypeOK' /\ UNCHANGED row
  BY <1>1, AskType DEF ApproveAsk
<1>2. ASSUME NEW o \in Orders, RejectAsk(c, o) PROVE TypeOK' /\ UNCHANGED row
  BY <1>2, AskType DEF RejectAsk
<1>3. ASSUME NEW o \in Orders, RemoveAsk(c, o) PROVE TypeOK' /\ UNCHANGED row
  BY <1>3, AskType DEF RemoveAsk
<1>4. ASSUME NEW o \in Orders, AttachModel3dAsk(c, o) PROVE TypeOK' /\ UNCHANGED row
  BY <1>4, AskType DEF AttachModel3dAsk
<1>5. ASSUME NEW o \in Orders, SubmitProductSpecsAsk(c, o) PROVE TypeOK' /\ UNCHANGED row
  BY <1>5, AskType DEF SubmitProductSpecsAsk
<1>6. ASSUME NEW o \in Orders, SubmitCastingTreeSpecsAsk(c, o) PROVE TypeOK' /\ UNCHANGED row
  BY <1>6, AskType DEF SubmitCastingTreeSpecsAsk
<1>7. ASSUME NEW o \in Orders, ConfirmWarehouseSpecsAsk(c, o) PROVE TypeOK' /\ UNCHANGED row
  BY <1>7, AskType DEF ConfirmWarehouseSpecsAsk
<1>8. ASSUME NEW o \in Orders, ChangeStatusAsk(c, o) PROVE TypeOK' /\ UNCHANGED row
  BY <1>8, AskType, ManualTargetsAssumption DEF ChangeStatusAsk
<1>9. ASSUME NEW o \in Orders, UpdateCastingAsk(c, o) PROVE TypeOK' /\ UNCHANGED row
  BY <1>9, AskType DEF UpdateCastingAsk
<1>10. ASSUME NEW o \in Orders, RemoveProductionAsk(c, o) PROVE TypeOK' /\ UNCHANGED row
  BY <1>10, AskType DEF RemoveProductionAsk
<1>11. ASSUME WaxPrintBatchAsk(c) PROVE TypeOK' /\ UNCHANGED row
  BY <1>11, AskType DEF WaxPrintBatchAsk
<1> QED
  BY <1>1, <1>2, <1>3, <1>4, <1>5, <1>6, <1>7, <1>8, <1>9, <1>10, <1>11 DEF Asks

(* A write of status s on some rows.                                       *)
LEMMA SetStatusType ==
    ASSUME TypeOK, NEW os, NEW s \in DeskWrites, SetStatus(os, s)
    PROVE  /\ status' \in [Orders -> Statuses]
           /\ \A o \in Orders : status'[o] \in {status[o]} \cup DeskWrites
<1>1. DeskWrites \subseteq Statuses
  BY DEF DeskWrites, Statuses, CastStatuses
<1> QED
  BY <1>1 DEF TypeOK, SetStatus

(* Whatever the office writes, the row stays well formed, cut_at is not its *)
(* to write and the only casting status it can write is CASTING.            *)
LEMMA DeskStepType ==
    ASSUME TypeOK, NEW c \in Clients, DeskStep(c)
    PROVE  /\ TypeOK'
           /\ cutAt' = cutAt
           /\ \A o \in Orders : status'[o] \in {status[o]} \cup DeskWrites
<1> DEFINE Goal == /\ TypeOK'
                   /\ cutAt' = cutAt
                   /\ \A o \in Orders : status'[o] \in {status[o]} \cup DeskWrites
<1> USE DEF DeskWrites, IntakeStatuses, Manual
<1>0. req[c] \in Requests
  BY DEF TypeOK
<1>1. CASE Asks(c)
  BY <1>1, AsksType DEF row
<1>2. CASE ApproveSave(c)
  <2>1. req[c].arg \in {"mold", "noMold"}
    BY <1>0, <1>2 DEF Requests, Idle, ApproveSave, Serve
  <2>2. hasMold' \in [Orders -> Molds]
    BY <1>2, <2>1 DEF ApproveSave, TypeOK, Molds
  <2> QED
    BY <1>2, <2>2, SetStatusType, ReplyType DEF ApproveSave, CommitOrRetry, TypeOK
<1>3. CASE RejectSave(c)
  <2>1. hasMold' \in [Orders -> Molds] /\ rejected' \in [Orders -> BOOLEAN]
    BY <1>3 DEF RejectSave, TypeOK, Molds
  <2> QED
    BY <1>3, <2>1, SetStatusType, ReplyType DEF RejectSave, CommitOrRetry, TypeOK
<1>4. CASE AttachModel3dSave(c)
  BY <1>4, SetStatusType, ReplyType DEF AttachModel3dSave, CommitOrRetry, TypeOK
<1>5. CASE SubmitProductSpecsSave(c)
  <2>1. req[c].arg \in DeskWrites
    BY <1>0, <1>5 DEF Requests, Idle, SubmitProductSpecsSave, Serve
  <2> QED
    BY <1>5, <2>1, SetStatusType, ReplyType DEF SubmitProductSpecsSave, CommitOrRetry, TypeOK
<1>6. CASE WaxPrintBatchSave(c)
  BY <1>6, SetStatusType, ReplyType DEF WaxPrintBatchSave, CommitOrRetry, TypeOK
<1>7. CASE SubmitCastingTreeSpecsSave(c)
  BY <1>7, SetStatusType, ReplyType DEF SubmitCastingTreeSpecsSave, CommitOrRetry, TypeOK
<1>8. CASE ConfirmWarehouseSpecsSave(c)
  BY <1>8, SetStatusType, ReplyType DEF ConfirmWarehouseSpecsSave, CommitOrRetry, TypeOK
<1>9. CASE ChangeStatusSave(c)
  <2>1. req[c].arg \in DeskWrites
    BY <1>0, <1>9 DEF Requests, Idle, ChangeStatusSave, Serve
  <2> QED
    BY <1>9, <2>1, SetStatusType, ReplyType DEF ChangeStatusSave, TypeOK
<1>10. CASE UpdateCastingSave(c)
  BY <1>10, SetStatusType, ReplyType DEF UpdateCastingSave, TypeOK
<1>11. CASE RemoveSave(c)
  BY <1>11, SetStatusType, ReplyType DEF RemoveSave, TypeOK
<1>12. CASE RemoveProductionSave(c)
  BY <1>12, SetStatusType, ReplyType DEF RemoveProductionSave, CommitOrRetry, TypeOK
<1>13. CASE Fail(c)
  BY <1>13, ReplyType DEF Fail, row, TypeOK
<1> QED
  BY <1>1, <1>2, <1>3, <1>4, <1>5, <1>6, <1>7, <1>8, <1>9, <1>10, <1>11, <1>12, <1>13
     DEF DeskStep, Saves, Deletes

(* The order form's insert.                                                *)
LEMMA CreateType ==
    ASSUME TypeOK, NEW o \in Orders, Create(o)
    PROVE  /\ TypeOK'
           /\ cutAt' = cutAt
           /\ \A p \in Orders : status'[p] \in {status[p]} \cup DeskWrites
  BY SetStatusType DEF Create, TypeOK, DeskWrites, IntakeStatuses

LEMMA InitType == Init => TypeOK
<1>1. Idle \in Requests
  BY DEF Requests
<1> QED
  BY <1>1 DEF Init, TypeOK, Statuses, Molds

(* Type correctness of the office half on its own.                         *)
THEOREM IntakeTypeCorrect == Spec => []TypeOK
<1>1. TypeOK /\ [Next]_desk => TypeOK'
  <2> SUFFICES ASSUME TypeOK, [Next]_desk PROVE TypeOK'
    OBVIOUS
  <2>1. CASE UNCHANGED desk
    BY <2>1 DEF desk, TypeOK
  <2>2. ASSUME NEW o \in Orders, Create(o) PROVE TypeOK'
    BY <2>2, CreateType
  <2>3. ASSUME NEW c \in Clients, DeskStep(c) PROVE TypeOK'
    BY <2>3, DeskStepType
  <2> QED
    BY <2>1, <2>2, <2>3 DEF Next, DeskStep
<1> QED
  BY <1>1, InitType, PTL DEF Spec

-----------------------------------------------------------------------------
(* The two safety properties need that no other request comes between the  *)
(* read and the write of one.  With a single request at a time a request   *)
(* in hand still knows the truth about its orders when it writes.          *)
OneDesk == \A c, d \in Clients : c = d

Forward == {"approve", "attachModel3d", "submitProductSpecs", "waxPrintBatch",
            "submitCastingTreeSpecs", "confirmWarehouseSpecs"}

InHand(c) ==
    /\ req[c].op \in Forward => \A o \in req[c].orders : ~rejected[o]
    /\ \/ req[c].op \in {"attachModel3d", "waxPrintBatch"}
       \/ req[c].op = "submitProductSpecs" /\ req[c].arg = "WAX_PRINTED"
       => \A o \in req[c].orders : hasMold[o] = "noMold"

DeskInv == TypeOK /\ RejectionStands /\ MoldDecidesWaxPath /\ \A c \in Clients : InHand(c)

(* The read of a request finds what it needs in the row.                   *)
LEMMA AsksInHand == ASSUME DeskInv, NEW c \in Clients, Asks(c) PROVE InHand(c)'
<1> USE DEF DeskInv, InHand, Forward, Ask, row, TypeOK
<1>1. ASSUME NEW o \in Orders,
             ApproveAsk(c, o) \/ SubmitCastingTreeSpecsAsk(c, o) \/ ConfirmWarehouseSpecsAsk(c, o)
      PROVE  InHand(c)'
  BY <1>1 DEF ApproveAsk, SubmitCastingTreeSpecsAsk, ConfirmWarehouseSpecsAsk, RejectionStands, Manual
<1>2. ASSUME NEW o \in Orders, AttachModel3dAsk(c, o) \/ SubmitProductSpecsAsk(c, o) PROVE InHand(c)'
  BY <1>2 DEF AttachModel3dAsk, SubmitProductSpecsAsk, RejectionStands, MoldDecidesWaxPath, Molds, Manual
<1>3. ASSUME WaxPrintBatchAsk(c) PROVE InHand(c)'
  BY <1>3 DEF WaxPrintBatchAsk, RejectionStands, MoldDecidesWaxPath, Molds, Manual
<1>4. ASSUME NEW o \in Orders,
             RejectAsk(c, o) \/ RemoveAsk(c, o) \/ ChangeStatusAsk(c, o) \/ UpdateCastingAsk(c, o)
                 \/ RemoveProductionAsk(c, o)
      PROVE  InHand(c)'
  BY <1>4 DEF RejectAsk, RemoveAsk, ChangeStatusAsk, UpdateCastingAsk, RemoveProductionAsk
<1> QED
  BY <1>1, <1>2, <1>3, <1>4 DEF Asks

(* After the reply nothing is in hand; a retried request holds what it held. *)
LEMMA ReplyInHand ==
    ASSUME TypeOK, NEW c \in Clients, InHand(c), Reply(c) \/ req' = req,
           \/ UNCHANGED <<hasMold, rejected>>
           \/ req[c].op = "reject"
           \/ req[c].op = "approve" /\ UNCHANGED rejected
    PROVE  InHand(c)'
<1>1. CASE Reply(c)
  BY <1>1 DEF TypeOK, Reply, Idle, InHand, Forward
<1>2. CASE req' = req
  BY <1>2 DEF TypeOK, InHand, Forward
<1> QED
  BY <1>1, <1>2

(* The writes.                                                             *)
LEMMA WritesKeepRow ==
    ASSUME DeskInv, NEW c \in Clients, Saves(c) \/ Deletes(c) \/ Fail(c)
    PROVE  /\ RejectionStands' /\ MoldDecidesWaxPath'
           /\ InHand(c)'
<1>0. TypeOK /\ InHand(c) /\ RejectionStands /\ MoldDecidesWaxPath /\ req[c] \in Requests
  BY DEF DeskInv, TypeOK
<1> USE DEF TypeOK, RejectionStands, MoldDecidesWaxPath, Manual, Serve, SetStatus, CommitOrRetry
<1>1. CASE ApproveSave(c)
  <2>1. req[c].arg \in {"mold", "noMold"} /\ req[c].op = "approve"
    BY <1>0, <1>1 DEF Requests, Idle, ApproveSave
  <2>2. \A o \in req[c].orders : ~rejected[o]
    BY <1>0, <2>1 DEF InHand, Forward
  <2>3. RejectionStands' /\ MoldDecidesWaxPath'
    BY <1>0, <1>1, <2>1, <2>2 DEF ApproveSave
  <2> QED
    BY <1>0, <1>1, <2>1, <2>3, ReplyInHand DEF ApproveSave
<1>2. CASE RejectSave(c)
  <2>1. RejectionStands' /\ MoldDecidesWaxPath'
    BY <1>0, <1>2 DEF RejectSave
  <2> QED
    BY <1>0, <1>2, <2>1, ReplyInHand DEF RejectSave
<1>3. CASE AttachModel3dSave(c)
  <2>1. \A o \in req[c].orders : ~rejected[o] /\ hasMold[o] = "noMold"
    BY <1>0, <1>3 DEF InHand, Forward, AttachModel3dSave
  <2>2. RejectionStands' /\ MoldDecidesWaxPath'
    BY <1>0, <1>3, <2>1 DEF AttachModel3dSave
  <2> QED
    BY <1>0, <1>3, <2>2, ReplyInHand DEF AttachModel3dSave
<1>4. CASE SubmitProductSpecsSave(c)
  <2>1. /\ \A o \in req[c].orders : ~rejected[o]
        /\ req[c].arg = "WAX_PRINTED" => \A o \in req[c].orders : hasMold[o] = "noMold"
        /\ req[c].arg \in {"WAX_PRINTED", "PENDING_WAREHOUSE_CONFIRMATION"}
    BY <1>0, <1>4 DEF InHand, Forward, SubmitProductSpecsSave, Requests, Idle
  <2>2. RejectionStands' /\ MoldDecidesWaxPath'
    BY <1>0, <1>4, <2>1 DEF SubmitProductSpecsSave
  <2> QED
    BY <1>0, <1>4, <2>2, ReplyInHand DEF SubmitProductSpecsSave
<1>5. CASE WaxPrintBatchSave(c)
  <2>1. \A o \in req[c].orders : ~rejected[o] /\ hasMold[o] = "noMold"
    BY <1>0, <1>5 DEF InHand, Forward, WaxPrintBatchSave
  <2>2. RejectionStands' /\ MoldDecidesWaxPath'
    BY <1>0, <1>5, <2>1 DEF WaxPrintBatchSave
  <2> QED
    BY <1>0, <1>5, <2>2, ReplyInHand DEF WaxPrintBatchSave
<1>6. CASE SubmitCastingTreeSpecsSave(c) \/ ConfirmWarehouseSpecsSave(c)
  <2>1. \A o \in req[c].orders : ~rejected[o]
    BY <1>0, <1>6 DEF InHand, Forward, SubmitCastingTreeSpecsSave, ConfirmWarehouseSpecsSave
  <2>2. RejectionStands' /\ MoldDecidesWaxPath'
    BY <1>0, <1>6, <2>1 DEF SubmitCastingTreeSpecsSave, ConfirmWarehouseSpecsSave
  <2> QED
    BY <1>0, <1>6, <2>2, ReplyInHand DEF SubmitCastingTreeSpecsSave, ConfirmWarehouseSpecsSave
<1>7. CASE ChangeStatusSave(c)
  <2>1. req[c].arg \in Manual
    BY <1>0, <1>7 DEF Requests, Idle, ChangeStatusSave
  <2>2. RejectionStands' /\ MoldDecidesWaxPath'
    BY <1>0, <1>7, <2>1 DEF ChangeStatusSave
  <2> QED
    BY <1>0, <1>7, <2>2, ReplyInHand DEF ChangeStatusSave
<1>8. CASE UpdateCastingSave(c)
  <2>1. RejectionStands' /\ MoldDecidesWaxPath'
    BY <1>0, <1>8 DEF UpdateCastingSave
  <2> QED
    BY <1>0, <1>8, <2>1, ReplyInHand DEF UpdateCastingSave
<1>9. CASE Deletes(c)
  <2>1. RejectionStands' /\ MoldDecidesWaxPath'
    BY <1>0, <1>9 DEF Deletes, RemoveSave, RemoveProductionSave
  <2> QED
    BY <1>0, <1>9, <2>1, ReplyInHand DEF Deletes, RemoveSave, RemoveProductionSave
<1>10. CASE Fail(c)
  BY <1>0, <1>10, ReplyInHand DEF Fail, row
<1> QED
  BY <1>1, <1>2, <1>3, <1>4, <1>5, <1>6, <1>7, <1>8, <1>9, <1>10 DEF Saves

LEMMA OneDeskStep == ASSUME OneDesk, DeskInv, [Next]_desk PROVE DeskInv'
<1>1. CASE UNCHANGED desk
  BY <1>1 DEF desk, DeskInv, TypeOK, RejectionStands, MoldDecidesWaxPath, InHand, Forward
<1>2. ASSUME NEW o \in Orders, Create(o) PROVE DeskInv'
  <2>1. TypeOK'
    BY <1>2, CreateType DEF DeskInv
  <2>2. RejectionStands' /\ MoldDecidesWaxPath'
    BY <1>2 DEF DeskInv, Create, SetStatus, RejectionStands, MoldDecidesWaxPath, TypeOK, Manual
  <2>3. ASSUME NEW c \in Clients PROVE InHand(c)'
    BY <1>2 DEF DeskInv, Create, InHand
  <2> QED
    BY <2>1, <2>2, <2>3 DEF DeskInv
<1>3. ASSUME NEW c \in Clients, DeskStep(c) PROVE DeskInv'
  <2>1. TypeOK'
    BY <1>3, DeskStepType DEF DeskInv
  <2>2. CASE Asks(c)
    <3>1. RejectionStands' /\ MoldDecidesWaxPath'
      BY <2>2, AsksType DEF DeskInv, RejectionStands, MoldDecidesWaxPath, row
    <3>2. InHand(c)'
      BY <2>2, AsksInHand
    <3> QED
      BY <2>1, <3>1, <3>2 DEF DeskInv, OneDesk
  <2>3. CASE Saves(c) \/ Deletes(c) \/ Fail(c)
    <3>1. RejectionStands' /\ MoldDecidesWaxPath' /\ InHand(c)'
      BY <2>3, WritesKeepRow
    <3> QED
      BY <2>1, <3>1 DEF DeskInv, OneDesk
  <2> QED
    BY <1>3, <2>2, <2>3 DEF DeskStep
<1> QED
  BY <1>1, <1>2, <1>3 DEF Next, DeskStep

LEMMA OneDeskInvariant == ASSUME OneDesk PROVE Spec => []DeskInv
<1>1. Init => DeskInv
  <2> SUFFICES ASSUME Init PROVE DeskInv
    OBVIOUS
  <2> QED
    BY InitType DEF DeskInv, Init, RejectionStands, MoldDecidesWaxPath, InHand, Forward, Idle
<1>2. DeskInv /\ [Next]_desk => DeskInv'
  BY OneDeskStep
<1> QED
  BY <1>1, <1>2, PTL DEF Spec

(* With one office request at a time a rejected order is never produced,   *)
(* whatever the number of orders and however often a commit is retried.    *)
THEOREM OneDeskRejectionStands == ASSUME OneDesk PROVE Spec => []RejectionStands
<1>1. DeskInv => RejectionStands
  BY DEF DeskInv
<1> QED
  BY <1>1, OneDeskInvariant, PTL

(* Under the same condition has_mold decides the wax path of every order.  *)
THEOREM OneDeskMoldDecides == ASSUME OneDesk PROVE Spec => []MoldDecidesWaxPath
<1>1. DeskInv => MoldDecidesWaxPath
  BY DEF DeskInv
<1> QED
  BY <1>1, OneDeskInvariant, PTL

-----------------------------------------------------------------------------
(* The casting slips.                                                      *)

(* What the named invariants need to be inductive: which columns a slip    *)
(* can have set at which status.                                           *)
SlipShape ==
    \A s \in Slips :
        /\ slip[s].cut => slip[s].status = "DONE"
        /\ slip[s].status \in {"ABSENT", "PENDING_ISSUE"} => slip[s].redoOf = NoSlip
        /\ slip[s].status # "ABSENT" => (slip[s].service <=> slip[s].worker = NoWorker)

IInv == /\ CastingTypeOK
        /\ SlipShape
        /\ OneSlipPerOrder
        /\ CastingStatusBacked
        /\ CutTogetherOnce
        /\ MetalDrawnOnce
        /\ RedoFamily

LEMMA CastingInitInv == CastingInit => IInv
<1> SUFFICES ASSUME CastingInit PROVE IInv
  OBVIOUS
<1>1. NoRow \in SlipRow
  BY DEF NoRow, SlipRow, SlipStatuses
<1>2. CastingTypeOK
  BY <1>1, InitType DEF CastingInit, CastingTypeOK, Jobs
<1> QED
  BY <1>2 DEF CastingInit, Init, IInv, SlipShape, OneSlipPerOrder, CastingStatusBacked, BackedBySlip,
     CutTogetherOnce, OrdersOn, MetalDrawnOnce, RedoFamily, NoRow

-----------------------------------------------------------------------------
(* The office never disturbs what the slips rely on.                       *)
LEMMA IntakeStepInv == ASSUME IInv, IntakeStep PROVE IInv'
<1>1. /\ TypeOK'
      /\ cutAt' = cutAt
      /\ \A o \in Orders : status'[o] \in {status[o]} \cup DeskWrites
  <2>1. ASSUME NEW o \in Orders, Create(o)
        PROVE  /\ TypeOK'
               /\ cutAt' = cutAt
               /\ \A p \in Orders : status'[p] \in {status[p]} \cup DeskWrites
    BY <2>1, CreateType DEF IInv, CastingTypeOK
  <2>2. ASSUME NEW c \in Clients, DeskStep(c)
        PROVE  /\ TypeOK'
               /\ cutAt' = cutAt
               /\ \A p \in Orders : status'[p] \in {status[p]} \cup DeskWrites
    BY <2>2, DeskStepType DEF IInv, CastingTypeOK
  <2> QED
    BY <2>1, <2>2 DEF IntakeStep, FreeDeletes, DeskStep
<1>2. UNCHANGED casting
  BY DEF IntakeStep
<1>3. CastingTypeOK'
  BY <1>1, <1>2 DEF IInv, CastingTypeOK, casting
<1>4. CastingStatusBacked'
  BY <1>1, <1>2 DEF IInv, CastingStatusBacked, BackedBySlip, OrdersOn, casting, DeskWrites, IntakeStatuses, Manual
<1>5. (SlipShape /\ OneSlipPerOrder /\ MetalDrawnOnce /\ RedoFamily)'
  BY <1>2 DEF IInv, SlipShape, OneSlipPerOrder, MetalDrawnOnce, RedoFamily, OrdersOn, casting
<1>6. CutTogetherOnce'
  BY <1>1, <1>2 DEF IInv, CutTogetherOnce, OnSlip, OrdersOn, casting
<1> QED
  BY <1>3, <1>4, <1>5, <1>6 DEF IInv

-----------------------------------------------------------------------------
(* A statement that moves orders from some casting statuses to another     *)
(* keeps the statuses well formed.                                         *)
LEMMA MoveType ==
    ASSUME CastingTypeOK, NEW os, NEW from, NEW to \in Statuses, Move(os, from, to)
    PROVE  status' \in [Orders -> Statuses]
  BY DEF CastingTypeOK, TypeOK, Move

LEMMA JobDoneType ==
    ASSUME CastingTypeOK, NEW k \in Keepers, JobDone(k) \/ job' = job
    PROVE  job' \in [Keepers -> Jobs]
  BY DEF CastingTypeOK, JobDone, Jobs

(* The casting reads only remember a request.                              *)
LEMMA JobStepInv ==
    ASSUME IInv, NEW k \in Keepers, CreateSlipAsk(k) \/ SubmitResultAsk(k) \/ JobFail(k)
    PROVE  IInv'
<1>1. job' \in [Keepers -> Jobs]
  <2>1. CASE CreateSlipAsk(k)
    BY <2>1 DEF CreateSlipAsk, IInv, CastingTypeOK, Jobs, CreateJobs
  <2>2. CASE SubmitResultAsk(k)
    BY <2>2, GramsAssumption DEF SubmitResultAsk, IInv, CastingTypeOK, Jobs, ResultJobs
  <2>3. CASE JobFail(k)
    BY <2>3, JobDoneType DEF JobFail, IInv
  <2> QED
    BY <2>1, <2>2, <2>3
<1>2. UNCHANGED <<status, hasMold, rejected, cutAt, req, slip, lines, draws, blanks, blankGram>>
  BY DEF CreateSlipAsk, SubmitResultAsk, JobFail
<1>3. CastingTypeOK'
  BY <1>1, <1>2 DEF IInv, CastingTypeOK, TypeOK
<1>4. SlipShape' /\ MetalDrawnOnce' /\ RedoFamily'
  BY <1>2 DEF IInv, SlipShape, MetalDrawnOnce, RedoFamily
<1>5. OneSlipPerOrder'
  BY <1>2 DEF IInv, OneSlipPerOrder, OrdersOn
<1>6. CastingStatusBacked'
  BY <1>2 DEF IInv, CastingStatusBacked, BackedBySlip, OrdersOn
<1>7. CutTogetherOnce'
  BY <1>2 DEF IInv, CutTogetherOnce, OnSlip, OrdersOn
<1> QED
  BY <1>3, <1>4, <1>5, <1>6, <1>7 DEF IInv

(* A new slip: the unique index keeps its orders off every other slip, so   *)
(* none of them has been cut.                                               *)
LEMMA CreateSlipInv == ASSUME IInv, NEW k \in Keepers, CreateSlipSave(k) PROVE IInv'
<1>1. PICK s \in Slips :
        /\ slip[s].status = "ABSENT"
        /\ slip' = [slip EXCEPT ![s] = [NoRow EXCEPT !.status = "PENDING_ISSUE",
                        !.service = (job[k].worker = NoWorker), !.worker = job[k].worker]]
        /\ lines' = lines \cup ({s} \X job[k].orders)
  BY DEF CreateSlipSave
<1>2. /\ job[k] \in CreateJobs
      /\ \A o \in job[k].orders : ~OnSlip(o)
      /\ UNCHANGED <<status, hasMold, rejected, cutAt, req, draws, blanks, blankGram>>
  BY DEF CreateSlipSave, IInv, CastingTypeOK, Jobs, IdleJob, ResultJobs, CreateJobs, DeskIdle, UniqueOrders
<1> DEFINE n == [NoRow EXCEPT !.status = "PENDING_ISSUE",
                     !.service = (job[k].worker = NoWorker), !.worker = job[k].worker]
<1>3. /\ n \in SlipRow /\ n.status = "PENDING_ISSUE" /\ ~n.cut /\ n.redoOf = NoSlip
      /\ n.service <=> n.worker = NoWorker
  BY <1>2 DEF NoRow, SlipRow, SlipStatuses, CreateJobs
<1>4. slip' = [slip EXCEPT ![s] = n]
  BY <1>1
<1> HIDE DEF n
<1>5. CastingTypeOK'
  <2>1. job' \in [Keepers -> Jobs]
    BY JobDoneType DEF CreateSlipSave, IInv
  <2> QED
    BY <1>1, <1>2, <1>3, <1>4, <2>1 DEF IInv, CastingTypeOK, TypeOK, CreateJobs
<1>6. SlipShape'
  BY <1>3, <1>4 DEF IInv, SlipShape, CastingTypeOK
<1>7. \A t \in Slips : OrdersOn(t)' = IF t = s THEN OrdersOn(t) \cup job[k].orders ELSE OrdersOn(t)
  BY <1>1, <1>2 DEF OrdersOn, CreateJobs
<1>8. /\ OrdersOn(s) = {}
      /\ \A t \in Slips : OrdersOn(t) \cap job[k].orders = {}
      /\ \A o \in job[k].orders : ~cutAt[o]
  BY <1>1, <1>2 DEF IInv, OneSlipPerOrder, CutTogetherOnce, OnSlip, CreateJobs
<1> HIDE DEF OrdersOn
<1>9. OneSlipPerOrder'
  BY <1>3, <1>4, <1>7, <1>8 DEF IInv, OneSlipPerOrder, CastingTypeOK
<1>12. CastingStatusBacked'
  BY <1>1, <1>2, <1>3, <1>4, <1>7, <1>8 DEF IInv, CastingStatusBacked, BackedBySlip, CastingTypeOK
<1>13. CutTogetherOnce'
  <2>1. ASSUME NEW t \in Slips, NEW o \in OrdersOn(t)' PROVE cutAt'[o] = slip'[t].cut
    <3>1. o \in Orders
      BY DEF OrdersOn
    <3>2. CASE t = s
      BY <1>2, <1>3, <1>4, <1>7, <1>8, <2>1, <3>1, <3>2 DEF IInv, CastingTypeOK, TypeOK
    <3>3. CASE t # s
      BY <1>2, <1>4, <1>7, <2>1, <3>3 DEF IInv, CutTogetherOnce, CastingTypeOK
    <3> QED
      BY <3>2, <3>3
  <2>2. ASSUME NEW o \in Orders, cutAt'[o] PROVE OnSlip(o)'
    BY <1>2, <1>7, <2>2 DEF IInv, CutTogetherOnce, OnSlip
  <2>3. ASSUME NEW o \in Orders PROVE blanks'[o] = IF cutAt'[o] THEN 1 ELSE 0
    BY <1>2 DEF IInv, CutTogetherOnce
  <2> QED
    BY <2>1, <2>2, <2>3 DEF CutTogetherOnce
<1>10. MetalDrawnOnce'
  BY <1>1, <1>2, <1>3, <1>4 DEF IInv, MetalDrawnOnce, CastingTypeOK
<1>11. RedoFamily'
  <2> SUFFICES ASSUME NEW t \in Slips, NEW u \in Slips, slip'[t].redoOf # NoSlip
               PROVE  LET r == slip'[t].redoOf
                      IN  /\ slip'[r].redoOf = NoSlip
                          /\ slip'[r].status = "CAST_FAILED"
                          /\ slip'[t].worker = slip'[r].worker
                          /\ slip'[t].issued = slip'[r].issued
                          /\ (slip'[u].redoOf = r /\ u # t) =>
                                 "CAST_FAILED" \in {slip'[t].status, slip'[u].status}
    BY DEF RedoFamily
  <2>1. t # s /\ slip'[t] = slip[t]
    BY <1>3, <1>4 DEF IInv, CastingTypeOK
  <2> DEFINE r == slip[t].redoOf
  <2>2. r \in Slips
    BY <2>1 DEF IInv, CastingTypeOK, SlipRow
  <2>3. r # s /\ slip'[r] = slip[r]
    BY <1>1, <1>4, <2>1, <2>2 DEF IInv, RedoFamily, CastingTypeOK
  <2>4. slip'[u].redoOf = r => u # s /\ slip'[u] = slip[u]
    BY <1>3, <1>4, <2>1 DEF IInv, CastingTypeOK
  <2> QED
    BY <2>1, <2>2, <2>3, <2>4 DEF IInv, RedoFamily
<1> QED
  BY <1>5, <1>6, <1>9, <1>10, <1>11, <1>12, <1>13 DEF IInv

-----------------------------------------------------------------------------
(* An order on a slip that has a casting status has the one of its slip.    *)
LEMMA StatusOfSlip ==
    ASSUME IInv, NEW s \in Slips, NEW o \in OrdersOn(s)
    PROVE  /\ status[o] = "WAIT_CASTING" => slip[s].status = "WAIT_CASTING"
           /\ status[o] = "CAST_PENDING_CONFIRMATION" => slip[s].status = "PENDING_CONFIRMATION"
           /\ status[o] = "CAST_DONE" => slip[s].status = "DONE"
<1>1. o \in Orders
  BY DEF OrdersOn
<1> QED
  BY <1>1 DEF IInv, OneSlipPerOrder, CastingStatusBacked, BackedBySlip

(* The members of a family, as RedoFamily says of one pair.                 *)
Kin(s, t) ==
    slip[s].redoOf # NoSlip =>
        LET r == slip[s].redoOf
        IN  /\ slip[r].redoOf = NoSlip
            /\ slip[r].status = "CAST_FAILED"
            /\ slip[s].worker = slip[r].worker
            /\ slip[s].issued = slip[r].issued
            /\ (slip[t].redoOf = r /\ t # s) =>
                   "CAST_FAILED" \in {slip[s].status, slip[t].status}

(* A slip in hand goes one step on: its row becomes n, the orders it holds  *)
(* follow, nothing moves between slips.                                     *)
SlipStep(s, n, from, to) ==
    /\ slip' = [slip EXCEPT ![s] = n]
    /\ slip[s].status \in {"PENDING_ISSUE", "WAIT_CASTING", "CASTING", "PENDING_CONFIRMATION"}
    /\ n.status \in {"WAIT_CASTING", "CASTING", "PENDING_CONFIRMATION", "DONE"}
    /\ n.service = slip[s].service /\ n.worker = slip[s].worker
    /\ n.redoOf = slip[s].redoOf /\ n.cut = slip[s].cut
    /\ n.issued = slip[s].issued \/ slip[s].status = "PENDING_ISSUE"
    /\ Move(OrdersOn(s), from, to)
    /\ \A o \in OrdersOn(s) :
        /\ status'[o] = "WAIT_CASTING" => n.status = "WAIT_CASTING"
        /\ status'[o] = "CAST_PENDING_CONFIRMATION" => n.status = "PENDING_CONFIRMATION"
        /\ status'[o] = "CAST_DONE" => n.status = "DONE"
    /\ draws' = [draws EXCEPT ![s] = IF n.redoOf = NoSlip THEN 1 ELSE 0]
    /\ UNCHANGED <<hasMold, rejected, cutAt, req, lines, blanks, blankGram>>
    /\ job' \in [Keepers -> Jobs]

LEMMA SlipStepInv ==
    ASSUME IInv, NEW s \in Slips, NEW n \in SlipRow, NEW from, NEW to \in Statuses,
           SlipStep(s, n, from, to)
    PROVE  IInv'
<1> USE DEF SlipStep
<1>1. CastingTypeOK'
  <2>1. status' \in [Orders -> Statuses]
    BY MoveType DEF IInv
  <2> QED
    BY <2>1 DEF IInv, CastingTypeOK, TypeOK
<1>2. SlipShape'
  BY DEF IInv, SlipShape, CastingTypeOK
<1>3. \A t \in Slips : OrdersOn(t)' = OrdersOn(t)
  BY DEF OrdersOn
<1>4. \A t \in Slips \ {s} : \A o \in OrdersOn(t) : o \notin OrdersOn(s)
  BY DEF IInv, OneSlipPerOrder
<1>5. \A o \in Orders : o \notin OrdersOn(s) => status'[o] = status[o]
  BY DEF Move
<1>6. \A t \in Slips : slip'[t] = IF t = s THEN n ELSE slip[t]
  BY DEF IInv, CastingTypeOK
<1>7. \A t \in Slips : OrdersOn(t) \subseteq Orders
  BY DEF OrdersOn
<1> HIDE DEF OrdersOn
<1>8. OneSlipPerOrder'
  BY <1>3, <1>6 DEF IInv, OneSlipPerOrder
<1>9. CastingStatusBacked'
  <2> SUFFICES ASSUME NEW o \in Orders
               PROVE  /\ BackedBySlip(o, "WAIT_CASTING", "WAIT_CASTING")'
                      /\ BackedBySlip(o, "CAST_PENDING_CONFIRMATION", "PENDING_CONFIRMATION")'
                      /\ BackedBySlip(o, "CAST_DONE", "DONE")'
    BY DEF CastingStatusBacked
  <2>1. CASE o \in OrdersOn(s)
    BY <1>3, <1>6, <2>1 DEF BackedBySlip
  <2>2. CASE o \notin OrdersOn(s)
    BY <1>3, <1>5, <1>6, <2>2 DEF IInv, CastingStatusBacked, BackedBySlip
  <2> QED
    BY <2>1, <2>2
<1>10. CutTogetherOnce'
  BY <1>3, <1>6, <1>7 DEF IInv, CutTogetherOnce, OnSlip
<1>11. MetalDrawnOnce'
  BY <1>6 DEF IInv, MetalDrawnOnce, CastingTypeOK
<1>12. RedoFamily'
  <2> SUFFICES ASSUME NEW t \in Slips, NEW u \in Slips PROVE Kin(t, u)'
    BY DEF RedoFamily, Kin
  <2> SUFFICES ASSUME slip[t].redoOf # NoSlip PROVE Kin(t, u)'
    BY <1>6 DEF Kin
  <2>1. Kin(t, u) /\ slip[t].redoOf \in Slips
    BY DEF IInv, RedoFamily, Kin, CastingTypeOK, SlipRow
  <2>2. slip[t].redoOf # s
    BY <2>1 DEF Kin
  <2>3. slip[s].status = "PENDING_ISSUE" => t # s
    BY DEF IInv, SlipShape
  <2>4. slip'[slip[t].redoOf] = slip[slip[t].redoOf]
    BY <1>6, <2>1, <2>2
  <2>5. /\ slip'[t].redoOf = slip[t].redoOf /\ slip'[t].worker = slip[t].worker
        /\ slip'[t].issued = slip[t].issued
        /\ slip'[u].redoOf = slip[u].redoOf
        /\ slip[t].status = "CAST_FAILED" => slip'[t].status = "CAST_FAILED"
        /\ slip[u].status = "CAST_FAILED" => slip'[u].status = "CAST_FAILED"
    BY <1>6, <2>3
  <2> QED
    BY <2>1, <2>4, <2>5 DEF Kin
<1> QED
  BY <1>1, <1>2, <1>8, <1>9, <1>10, <1>11, <1>12 DEF IInv

(* Drawing the metal of a slip makes its count 1: only a first slip waits   *)
(* for its issue.                                                           *)
LEMMA IssueInv == ASSUME IInv, NEW s \in Slips, Issue(s) PROVE IInv'
<1> DEFINE st == IF slip[s].service THEN "CASTING" ELSE "WAIT_CASTING"
<1>1. PICK g \in Issued :
        /\ slip[s].status = "PENDING_ISSUE"
        /\ \A o \in OrdersOn(s) : status[o] = "WAX_CONFIRMED"
        /\ slip' = [slip EXCEPT ![s].status = st, ![s].issued = g]
        /\ draws' = [draws EXCEPT ![s] = @ + 1]
        /\ Move(OrdersOn(s), {"WAX_CONFIRMED"}, st)
        /\ UNCHANGED <<hasMold, rejected, req, cutAt, lines, blanks, blankGram, job>>
  BY DEF Issue, Claims, AllAt, DeskIdle
<1> DEFINE n == [slip[s] EXCEPT !.status = st, !.issued = g]
<1>2. slip[s] \in SlipRow /\ st \in {"WAIT_CASTING", "CASTING"} /\ g \in Nat
  BY GramsAssumption DEF IInv, CastingTypeOK
<1> HIDE DEF st
<1>3. /\ n \in SlipRow /\ slip' = [slip EXCEPT ![s] = n] /\ n.status = st
      /\ n.service = slip[s].service /\ n.worker = slip[s].worker
      /\ n.redoOf = slip[s].redoOf /\ n.cut = slip[s].cut
  BY <1>1, <1>2 DEF SlipRow, SlipStatuses, IInv, CastingTypeOK
<1> HIDE DEF n
<1>4. draws' = [draws EXCEPT ![s] = IF n.redoOf = NoSlip THEN 1 ELSE 0]
  <2>1. slip[s].redoOf = NoSlip
    BY <1>1 DEF IInv, SlipShape
  <2>2. draws[s] = 0
    BY <1>1 DEF IInv, MetalDrawnOnce
  <2> QED
    BY <1>1, <1>3, <2>1, <2>2
<1>5. \A o \in OrdersOn(s) : status'[o] = st
  BY <1>1 DEF Move, OrdersOn
<1>6. job' \in [Keepers -> Jobs]
  BY <1>1 DEF IInv, CastingTypeOK
<1>7. st \in Statuses
  BY <1>2 DEF Statuses, CastStatuses
<1>9. SlipStep(s, n, {"WAX_CONFIRMED"}, st)
  BY <1>1, <1>2, <1>3, <1>4, <1>5, <1>6 DEF SlipStep
<1> QED
  BY <1>2, <1>3, <1>7, <1>9, SlipStepInv

(* The slips drawn once stay so when their row moves on.                    *)
LEMMA DrawsKept ==
    ASSUME IInv, NEW s \in Slips, slip[s].status \notin {"ABSENT", "PENDING_ISSUE"}
    PROVE  draws = [draws EXCEPT ![s] = IF slip[s].redoOf = NoSlip THEN 1 ELSE 0]
  BY DEF IInv, MetalDrawnOnce, CastingTypeOK

LEMMA StartInv == ASSUME IInv, NEW s \in Slips, Start(s) PROVE IInv'
<1> DEFINE n == [slip[s] EXCEPT !.status = "CASTING"]
<1>1. /\ slip[s].status = "WAIT_CASTING"
      /\ slip' = [slip EXCEPT ![s].status = "CASTING"]
      /\ Move(OrdersOn(s), {"WAIT_CASTING"}, "CASTING")
      /\ UNCHANGED <<hasMold, rejected, req, cutAt, lines, draws, blanks, blankGram, job>>
  BY DEF Start, Claims, DeskIdle
<1>2. /\ n \in SlipRow /\ slip' = [slip EXCEPT ![s] = n] /\ n.status = "CASTING"
      /\ n.service = slip[s].service /\ n.worker = slip[s].worker
      /\ n.redoOf = slip[s].redoOf /\ n.cut = slip[s].cut /\ n.issued = slip[s].issued
  BY <1>1 DEF SlipRow, SlipStatuses, IInv, CastingTypeOK
<1> HIDE DEF n
<1>3. \A o \in OrdersOn(s) : status'[o] \notin {"WAIT_CASTING", "CAST_PENDING_CONFIRMATION", "CAST_DONE"}
  BY <1>1, StatusOfSlip DEF Move, OrdersOn
<1>4. draws' = [draws EXCEPT ![s] = IF n.redoOf = NoSlip THEN 1 ELSE 0]
  BY <1>1, <1>2, DrawsKept
<1>5. job' \in [Keepers -> Jobs] /\ "CASTING" \in Statuses
  BY <1>1 DEF IInv, CastingTypeOK, Statuses, CastStatuses
<1>9. SlipStep(s, n, {"WAIT_CASTING"}, "CASTING")
  BY <1>1, <1>2, <1>3, <1>4, <1>5 DEF SlipStep
<1> QED
  BY <1>2, <1>5, <1>9, SlipStepInv

LEMMA SubmitResultInv == ASSUME IInv, NEW k \in Keepers, SubmitResultSave(k) PROVE IInv'
<1> DEFINE s == job[k].slip
           n == [slip[s] EXCEPT !.status = "PENDING_CONFIRMATION",
                                !.used = job[k].used, !.tree = job[k].tree]
<1>1. job[k] \in ResultJobs
  BY DEF SubmitResultSave, IInv, CastingTypeOK, Jobs, IdleJob, CreateJobs
<1>2. s \in Slips /\ job[k].used \in Nat /\ job[k].tree \in Nat
  BY <1>1 DEF ResultJobs
<1>3. /\ slip[s].status = "CASTING"
      /\ slip' = [slip EXCEPT ![s].status = "PENDING_CONFIRMATION",
                              ![s].used = job[k].used, ![s].tree = job[k].tree]
      /\ Move(OrdersOn(s), {"CASTING"}, "CAST_PENDING_CONFIRMATION")
      /\ UNCHANGED <<hasMold, rejected, req, cutAt, lines, draws, blanks, blankGram>>
  BY DEF SubmitResultSave, Claims, DeskIdle
<1>4. job' \in [Keepers -> Jobs]
  BY JobDoneType DEF SubmitResultSave, IInv
<1> HIDE DEF s
<1>5. /\ n \in SlipRow /\ slip' = [slip EXCEPT ![s] = n] /\ n.status = "PENDING_CONFIRMATION"
      /\ n.service = slip[s].service /\ n.worker = slip[s].worker
      /\ n.redoOf = slip[s].redoOf /\ n.cut = slip[s].cut /\ n.issued = slip[s].issued
  BY <1>2, <1>3 DEF SlipRow, SlipStatuses, IInv, CastingTypeOK
<1> HIDE DEF n
<1>6. \A o \in OrdersOn(s) : status'[o] \notin {"WAIT_CASTING", "CAST_DONE"}
  BY <1>2, <1>3, StatusOfSlip DEF Move, OrdersOn
<1>7. draws' = [draws EXCEPT ![s] = IF n.redoOf = NoSlip THEN 1 ELSE 0]
  BY <1>2, <1>3, <1>5, DrawsKept
<1>8. "CAST_PENDING_CONFIRMATION" \in Statuses
  BY DEF Statuses, CastStatuses
<1>9. SlipStep(s, n, {"CASTING"}, "CAST_PENDING_CONFIRMATION")
  BY <1>2, <1>3, <1>4, <1>5, <1>6, <1>7 DEF SlipStep
<1> QED
  BY <1>2, <1>5, <1>8, <1>9, SlipStepInv

LEMMA ApproveResultInv == ASSUME IInv, NEW s \in Slips, ApproveResult(s) PROVE IInv'
<1> DEFINE n == [slip[s] EXCEPT !.status = "DONE"]
<1>1. /\ slip[s].status = "PENDING_CONFIRMATION"
      /\ slip' = [slip EXCEPT ![s].status = "DONE"]
      /\ Move(OrdersOn(s), {"CAST_PENDING_CONFIRMATION", "CASTING"}, "CAST_DONE")
      /\ UNCHANGED <<hasMold, rejected, req, cutAt, lines, draws, blanks, blankGram, job>>
  BY DEF ApproveResult, Claims, DeskIdle
<1>2. /\ n \in SlipRow /\ slip' = [slip EXCEPT ![s] = n] /\ n.status = "DONE"
      /\ n.service = slip[s].service /\ n.worker = slip[s].worker
      /\ n.redoOf = slip[s].redoOf /\ n.cut = slip[s].cut /\ n.issued = slip[s].issued
  BY <1>1 DEF SlipRow, SlipStatuses, IInv, CastingTypeOK
<1> HIDE DEF n
<1>3. \A o \in OrdersOn(s) : status'[o] \notin {"WAIT_CASTING", "CAST_PENDING_CONFIRMATION"}
  BY <1>1, StatusOfSlip DEF Move, OrdersOn
<1>4. draws' = [draws EXCEPT ![s] = IF n.redoOf = NoSlip THEN 1 ELSE 0]
  BY <1>1, <1>2, DrawsKept
<1>5. job' \in [Keepers -> Jobs] /\ "CAST_DONE" \in Statuses
  BY <1>1 DEF IInv, CastingTypeOK, Statuses, CastStatuses
<1>9. SlipStep(s, n, {"CAST_PENDING_CONFIRMATION", "CASTING"}, "CAST_DONE")
  BY <1>1, <1>2, <1>3, <1>4, <1>5 DEF SlipStep
<1> QED
  BY <1>2, <1>5, <1>9, SlipStepInv

-----------------------------------------------------------------------------
(* A removed slip never drew metal and was never cut, and its orders are    *)
(* free again.                                                              *)
LEMMA RemoveSlipInv == ASSUME IInv, NEW s \in Slips, RemoveSlip(s) PROVE IInv'
<1>1. /\ slip[s].status = "PENDING_ISSUE"
      /\ slip' = [slip EXCEPT ![s] = NoRow]
      /\ lines' = {l \in lines : l[1] # s}
      /\ UNCHANGED <<status, hasMold, rejected, cutAt, req, draws, blanks, blankGram, job>>
  BY DEF RemoveSlip, Claims, DeskIdle
<1>2. /\ NoRow \in SlipRow /\ NoRow.status = "ABSENT" /\ ~NoRow.cut /\ NoRow.redoOf = NoSlip
  BY DEF NoRow, SlipRow, SlipStatuses
<1>3. CastingTypeOK'
  BY <1>1, <1>2 DEF IInv, CastingTypeOK, TypeOK
<1>4. \A t \in Slips : OrdersOn(t)' = IF t = s THEN {} ELSE OrdersOn(t)
  BY <1>1 DEF OrdersOn
<1>5. \A t \in Slips : slip'[t] = IF t = s THEN NoRow ELSE slip[t]
  BY <1>1 DEF IInv, CastingTypeOK
<1>6. \A t \in Slips : OrdersOn(t) \subseteq Orders
  BY DEF OrdersOn
<1>7. slip[s].redoOf = NoSlip /\ ~slip[s].cut /\ draws[s] = 0
  BY <1>1 DEF IInv, SlipShape, MetalDrawnOnce
<1> HIDE DEF OrdersOn
<1>8. SlipShape'
  BY <1>2, <1>5 DEF IInv, SlipShape
<1>9. OneSlipPerOrder'
  BY <1>4, <1>5 DEF IInv, OneSlipPerOrder
<1>10. CastingStatusBacked'
  BY <1>1, <1>4, <1>5 DEF IInv, CastingStatusBacked, BackedBySlip
<1>11. CutTogetherOnce'
  <2>1. ASSUME NEW t \in Slips, NEW o \in OrdersOn(t)' PROVE cutAt'[o] = slip'[t].cut
    BY <1>1, <1>4, <1>5, <2>1 DEF IInv, CutTogetherOnce
  <2>2. ASSUME NEW o \in Orders, cutAt'[o] PROVE OnSlip(o)'
    <3>1. PICK t \in Slips : o \in OrdersOn(t)
      BY <1>1, <2>2 DEF IInv, CutTogetherOnce, OnSlip
    <3>2. t # s
      BY <1>1, <1>7, <2>2, <3>1 DEF IInv, CutTogetherOnce
    <3> QED
      BY <1>4, <3>1, <3>2 DEF OnSlip
  <2>3. ASSUME NEW o \in Orders PROVE blanks'[o] = IF cutAt'[o] THEN 1 ELSE 0
    BY <1>1 DEF IInv, CutTogetherOnce
  <2> QED
    BY <2>1, <2>2, <2>3 DEF CutTogetherOnce
<1>12. MetalDrawnOnce'
  BY <1>1, <1>2, <1>5, <1>7 DEF IInv, MetalDrawnOnce
<1>13. RedoFamily'
  <2> SUFFICES ASSUME NEW t \in Slips, NEW u \in Slips PROVE Kin(t, u)'
    BY DEF RedoFamily, Kin
  <2> SUFFICES ASSUME t # s, slip[t].redoOf # NoSlip PROVE Kin(t, u)'
    BY <1>2, <1>5 DEF Kin
  <2>1. Kin(t, u) /\ slip[t].redoOf \in Slips
    BY DEF IInv, RedoFamily, Kin, CastingTypeOK, SlipRow
  <2>2. slip[t].redoOf # s
    BY <1>1, <2>1 DEF Kin
  <2> QED
    BY <1>2, <1>5, <2>1, <2>2 DEF Kin
<1> QED
  BY <1>3, <1>8, <1>9, <1>10, <1>11, <1>12, <1>13 DEF IInv

(* A rejected cast: its orders pass to the redo, which hangs under the root *)
(* of the family and is its only live slip.                                 *)
LEMMA RejectCastResultInv == ASSUME IInv, NEW s \in Slips, RejectCastResult(s) PROVE IInv'
<1> DEFINE root == slip[RootOf(s)]
           service == root.service \/ slip[s].service
           back == IF service THEN "CASTING" ELSE "WAIT_CASTING"
<1>1. PICK n \in Slips :
        /\ slip[n].status = "ABSENT"
        /\ slip' = [slip EXCEPT ![s].status = "CAST_FAILED",
                        ![n] = [NoRow EXCEPT !.status = back, !.service = service,
                            !.worker = IF service THEN NoWorker ELSE root.worker,
                            !.redoOf = RootOf(s), !.issued = root.issued]]
        /\ lines' = LinesMoved(s, n)
        /\ Move(OrdersOn(s), {"CAST_PENDING_CONFIRMATION"}, back)
  BY DEF RejectCastResult
<1>2. /\ slip[s].status = "PENDING_CONFIRMATION"
      /\ UNCHANGED <<hasMold, rejected, cutAt, req, draws, blanks, blankGram, job>>
  BY DEF RejectCastResult, Claims, DeskIdle
<1>3. n # s
  BY <1>1, <1>2
<1>4. RootOf(s) \in Slips
  BY DEF RootOf, IInv, CastingTypeOK, SlipRow
(* The worker of the root is the worker of the slip, so they agree on being *)
(* a service.                                                               *)
<1>5. /\ slip[s].worker = root.worker /\ slip[s].issued = root.issued
      /\ root.status # "ABSENT" /\ root.redoOf = NoSlip
      /\ root.service <=> root.worker = NoWorker
      /\ slip[s].service <=> slip[s].worker = NoWorker
  BY <1>2, <1>4 DEF RootOf, IInv, RedoFamily, SlipShape
<1> DEFINE f == [slip[s] EXCEPT !.status = "CAST_FAILED"]
           m == [NoRow EXCEPT !.status = back, !.service = service,
                    !.worker = IF service THEN NoWorker ELSE root.worker,
                    !.redoOf = RootOf(s), !.issued = root.issued]
<1>6. /\ f \in SlipRow /\ f.status = "CAST_FAILED" /\ f.redoOf = slip[s].redoOf
      /\ f.worker = slip[s].worker /\ f.issued = slip[s].issued /\ f.cut = slip[s].cut
      /\ f.service = slip[s].service
  BY DEF IInv, CastingTypeOK, SlipRow, SlipStatuses
<1>7. /\ m \in SlipRow /\ m.status = back /\ m.redoOf = RootOf(s) /\ ~m.cut
      /\ m.worker = slip[s].worker /\ m.issued = slip[s].issued
      /\ m.service <=> m.worker = NoWorker
      /\ back \in {"WAIT_CASTING", "CASTING"}
  <2>1. root \in SlipRow
    BY <1>4 DEF IInv, CastingTypeOK
  <2>2. slip[s].service \in BOOLEAN
    BY DEF IInv, CastingTypeOK, SlipRow
  <2>3. (IF service THEN NoWorker ELSE root.worker) = slip[s].worker
    BY <1>5
  <2> HIDE DEF root
  <2>4. m \in SlipRow
    BY <1>4, <2>1, <2>2 DEF SlipRow, SlipStatuses, NoRow
  <2>5. m.status = back /\ m.redoOf = RootOf(s) /\ ~m.cut /\ m.service = service
        /\ m.worker = (IF service THEN NoWorker ELSE root.worker) /\ m.issued = root.issued
    BY DEF NoRow
  <2> QED
    BY <1>5, <2>3, <2>4, <2>5 DEF root
<1>8. \A t \in Slips : slip'[t] = IF t = s THEN f ELSE IF t = n THEN m ELSE slip[t]
  BY <1>1, <1>3 DEF IInv, CastingTypeOK
<1> HIDE DEF f, m, root, service, back
<1>9. \A t \in Slips : OrdersOn(t)' = IF t = s THEN {} ELSE IF t = n THEN OrdersOn(s) ELSE OrdersOn(t)
  <2>1. OrdersOn(n) = {}
    BY <1>1 DEF IInv, OneSlipPerOrder
  <2> QED
    BY <1>1, <1>3, <2>1 DEF OrdersOn, LinesMoved
<1>10. OrdersOn(s) \subseteq Orders
  BY DEF OrdersOn
<1>11. ~slip[s].cut /\ slip[s].redoOf # s
  BY <1>2, NoSlipAssumption DEF IInv, SlipShape, RedoFamily
<1>12. CastingTypeOK'
  <2>1. back \in Statuses
    BY <1>7 DEF Statuses, CastStatuses
  <2>2. status' \in [Orders -> Statuses]
    BY <1>1, <2>1, MoveType DEF IInv
  <2>3. slip' \in [Slips -> SlipRow]
    BY <1>1, <1>3, <1>6, <1>7, <1>8 DEF IInv, CastingTypeOK
  <2>4. lines' \subseteq Slips \X Orders
    BY <1>1, <1>10 DEF LinesMoved, IInv, CastingTypeOK
  <2> QED
    BY <1>2, <2>2, <2>3, <2>4 DEF IInv, CastingTypeOK, TypeOK
<1>13. SlipShape'
  BY <1>2, <1>5, <1>6, <1>7, <1>8, <1>11 DEF IInv, SlipShape
<1>14. \A o \in Orders : o \notin OrdersOn(s) => status'[o] = status[o]
  BY <1>1 DEF Move
<1>15. \A o \in OrdersOn(s) :
          /\ status'[o] = "WAIT_CASTING" => back = "WAIT_CASTING"
          /\ status'[o] \notin {"CAST_PENDING_CONFIRMATION", "CAST_DONE"}
  BY <1>1, <1>2, <1>7, <1>10, StatusOfSlip DEF Move
<1>16. OrdersOn(n) = {}
  BY <1>1 DEF IInv, OneSlipPerOrder
<1> HIDE DEF OrdersOn
<1>17. OneSlipPerOrder'
  BY <1>3, <1>7, <1>8, <1>9 DEF IInv, OneSlipPerOrder
<1>18. CastingStatusBacked'
  <2> SUFFICES ASSUME NEW o \in Orders
               PROVE  /\ BackedBySlip(o, "WAIT_CASTING", "WAIT_CASTING")'
                      /\ BackedBySlip(o, "CAST_PENDING_CONFIRMATION", "PENDING_CONFIRMATION")'
                      /\ BackedBySlip(o, "CAST_DONE", "DONE")'
    BY DEF CastingStatusBacked
  <2>1. CASE o \in OrdersOn(s)
    BY <1>3, <1>7, <1>8, <1>9, <1>15, <2>1 DEF BackedBySlip
  <2>2. CASE o \notin OrdersOn(s)
    BY <1>8, <1>9, <1>14, <1>16, <2>2 DEF IInv, CastingStatusBacked, BackedBySlip
  <2> QED
    BY <2>1, <2>2
<1>19. CutTogetherOnce'
  <2>1. ASSUME NEW t \in Slips, NEW o \in OrdersOn(t)' PROVE cutAt'[o] = slip'[t].cut
    <3>1. \A p \in OrdersOn(s) : ~cutAt[p]
      BY <1>11, <1>10 DEF IInv, CutTogetherOnce, CastingTypeOK, TypeOK
    <3>2. CASE t = n
      BY <1>2, <1>3, <1>7, <1>8, <1>9, <1>10, <2>1, <3>1, <3>2 DEF IInv, CastingTypeOK, TypeOK, SlipRow
    <3>3. CASE t # n
      BY <1>2, <1>8, <1>9, <2>1, <3>3 DEF IInv, CutTogetherOnce
    <3> QED
      BY <3>2, <3>3
  <2>2. ASSUME NEW o \in Orders, cutAt'[o] PROVE OnSlip(o)'
    <3>1. PICK t \in Slips : o \in OrdersOn(t)
      BY <1>2, <2>2 DEF IInv, CutTogetherOnce, OnSlip
    <3>2. t # s
      BY <1>2, <1>11, <2>2, <3>1 DEF IInv, CutTogetherOnce
    <3> QED
      BY <1>9, <1>16, <3>1, <3>2 DEF OnSlip
  <2>3. ASSUME NEW o \in Orders PROVE blanks'[o] = IF cutAt'[o] THEN 1 ELSE 0
    BY <1>2 DEF IInv, CutTogetherOnce
  <2> QED
    BY <2>1, <2>2, <2>3 DEF CutTogetherOnce
<1>20. MetalDrawnOnce'
  <2>1. ASSUME NEW t \in Slips
        PROVE  draws'[t] = IF slip'[t].redoOf = NoSlip
                              /\ slip'[t].status \notin {"ABSENT", "PENDING_ISSUE"} THEN 1 ELSE 0
    <3>1. CASE t = n
      <4>1. draws[n] = 0
        BY <1>1 DEF IInv, MetalDrawnOnce
      <4>2. slip'[n].redoOf # NoSlip
        BY <1>3, <1>4, <1>7, <1>8, NoSlipAssumption
      <4> QED
        BY <1>2, <3>1, <4>1, <4>2
    <3>2. CASE t # n
      BY <1>2, <1>6, <1>8, <3>2 DEF IInv, MetalDrawnOnce
    <3> QED
      BY <3>1, <3>2
  <2> QED
    BY <2>1 DEF MetalDrawnOnce
<1>21. RedoFamily'
  <2> SUFFICES ASSUME NEW t \in Slips, NEW u \in Slips, slip'[t].redoOf # NoSlip
               PROVE  Kin(t, u)'
    BY DEF RedoFamily, Kin
  <2>1. \A v, w \in Slips : Kin(v, w) /\ (slip[v].redoOf # NoSlip => slip[v].redoOf \in Slips)
    BY DEF IInv, RedoFamily, Kin, CastingTypeOK, SlipRow
  <2>2. \A v \in Slips : slip[v].redoOf \notin {s, n}
    BY <1>1, <1>2, <1>3, <2>1, NoSlipAssumption DEF Kin
  <2>3. CASE t = s
    BY <1>3, <1>6, <1>8, <2>1, <2>2, <2>3 DEF Kin
  <2>4. CASE t = n /\ slip[s].redoOf = NoSlip
    BY <1>3, <1>6, <1>7, <1>8, <2>2, <2>4, NoSlipAssumption DEF Kin, RootOf
  <2>5. CASE t = n /\ slip[s].redoOf # NoSlip
    BY <1>2, <1>3, <1>6, <1>7, <1>8, <2>1, <2>2, <2>5 DEF Kin, RootOf
  <2>6. CASE t \notin {s, n}
    BY <1>2, <1>3, <1>6, <1>7, <1>8, <2>1, <2>2, <2>6 DEF Kin, RootOf
  <2> QED
    BY <2>3, <2>4, <2>5, <2>6
<1> QED
  BY <1>12, <1>13, <1>17, <1>18, <1>19, <1>20, <1>21 DEF IInv

-----------------------------------------------------------------------------
(* A cut marks a slip and all its orders in one step; none of them was cut  *)
(* before, so each gives its first lot of blanks.                           *)
LEMMA CutManyInv == ASSUME IInv, NEW ss \in SUBSET Slips, CutMany(ss) PROVE IInv'
<1> DEFINE os == UNION {OrdersOn(s) : s \in ss}
<1>1. PICK rest \in [ss -> Rests], blank \in [os -> Blanks] :
        /\ \A s \in ss : Claims(s, "DONE") /\ ~slip[s].cut
        /\ AllAt(os, "CAST_DONE")
        /\ \A o \in os : ~cutAt[o]
        /\ slip' = [s \in Slips |-> IF s \in ss
                        THEN [slip[s] EXCEPT !.cut = TRUE, !.rest = rest[s]]
                        ELSE slip[s]]
        /\ blankGram' = [o \in Orders |-> IF o \in os THEN blank[o] ELSE blankGram[o]]
  BY Zenon DEF CutMany
<1>2. /\ Move(os, {"CAST_DONE"}, "WAIT_FILING")
      /\ cutAt' = [o \in Orders |-> cutAt[o] \/ o \in os]
      /\ blanks' = [o \in Orders |-> IF o \in os THEN blanks[o] + 1 ELSE blanks[o]]
      /\ UNCHANGED <<hasMold, rejected, req, lines, draws, job>>
  BY DEF CutMany, DeskIdle
<1>3. \A t \in Slips : OrdersOn(t)' = OrdersOn(t) /\ OrdersOn(t) \subseteq Orders
  BY <1>2 DEF OrdersOn
<1>4. os \subseteq Orders
  BY <1>3
<1>5. \A t \in Slips : \A o \in OrdersOn(t) : o \in os <=> t \in ss
  BY DEF IInv, OneSlipPerOrder
<1> HIDE DEF os
<1>6. \A t \in Slips :
        /\ slip'[t].cut = (slip[t].cut \/ t \in ss)
        /\ slip'[t].status = slip[t].status /\ slip'[t].redoOf = slip[t].redoOf
        /\ slip'[t].worker = slip[t].worker /\ slip'[t].service = slip[t].service
        /\ slip'[t].issued = slip[t].issued
        /\ slip'[t] \in SlipRow
  <2> SUFFICES ASSUME NEW t \in Slips
               PROVE  /\ slip'[t].cut = (slip[t].cut \/ t \in ss)
                      /\ slip'[t].status = slip[t].status /\ slip'[t].redoOf = slip[t].redoOf
                      /\ slip'[t].worker = slip[t].worker /\ slip'[t].service = slip[t].service
                      /\ slip'[t].issued = slip[t].issued
                      /\ slip'[t] \in SlipRow
    OBVIOUS
  <2>1. slip[t] \in SlipRow
    BY DEF IInv, CastingTypeOK
  <2>2. CASE t \in ss
    <3>1. rest[t] \in Nat
      BY <2>2, GramsAssumption
    <3>2. slip'[t] = [slip[t] EXCEPT !.cut = TRUE, !.rest = rest[t]]
      BY <1>1, <2>2
    <3> QED
      BY <2>1, <2>2, <3>1, <3>2 DEF SlipRow
  <2>3. CASE t \notin ss
    BY <1>1, <2>1, <2>3 DEF SlipRow
  <2> QED
    BY <2>2, <2>3
<1>7. CastingTypeOK'
  <2>1. "WAIT_FILING" \in Statuses
    BY DEF Statuses
  <2>2. status' \in [Orders -> Statuses]
    BY <1>2, <2>1, MoveType DEF IInv
  <2>3. slip' \in [Slips -> SlipRow]
    BY <1>1, <1>6
  <2>4. blankGram' \in [Orders -> Nat]
    BY <1>1, GramsAssumption DEF IInv, CastingTypeOK
  <2>5. blanks' \in [Orders -> Nat] /\ cutAt' \in [Orders -> BOOLEAN]
    BY <1>2 DEF IInv, CastingTypeOK, TypeOK
  <2> QED
    BY <1>2, <2>2, <2>3, <2>4, <2>5 DEF IInv, CastingTypeOK, TypeOK
<1> HIDE DEF OrdersOn
<1>8. SlipShape'
  BY <1>1, <1>6 DEF IInv, SlipShape, Claims
<1>9. OneSlipPerOrder'
  BY <1>3, <1>6 DEF IInv, OneSlipPerOrder
<1>10. CastingStatusBacked'
  <2> SUFFICES ASSUME NEW o \in Orders
               PROVE  /\ BackedBySlip(o, "WAIT_CASTING", "WAIT_CASTING")'
                      /\ BackedBySlip(o, "CAST_PENDING_CONFIRMATION", "PENDING_CONFIRMATION")'
                      /\ BackedBySlip(o, "CAST_DONE", "DONE")'
    BY DEF CastingStatusBacked
  <2>1. status'[o] = status[o] \/ status'[o] = "WAIT_FILING"
    BY <1>2 DEF Move
  <2> QED
    BY <1>3, <1>6, <2>1 DEF IInv, CastingStatusBacked, BackedBySlip
<1>11. CutTogetherOnce'
  <2>1. ASSUME NEW t \in Slips, NEW o \in OrdersOn(t)' PROVE cutAt'[o] = slip'[t].cut
    BY <1>2, <1>3, <1>5, <1>6, <2>1 DEF IInv, CutTogetherOnce
  <2>2. ASSUME NEW o \in Orders, cutAt'[o] PROVE OnSlip(o)'
    <3>1. CASE o \in os
      BY <1>3, <3>1 DEF OnSlip, os
    <3>2. CASE o \notin os
      BY <1>2, <1>3, <2>2, <3>2 DEF IInv, CutTogetherOnce, OnSlip
    <3> QED
      BY <3>1, <3>2
  <2>3. ASSUME NEW o \in Orders PROVE blanks'[o] = IF cutAt'[o] THEN 1 ELSE 0
    <3>1. CASE o \in os
      <4>1. ~cutAt[o] /\ blanks[o] = 0
        BY <1>1, <3>1 DEF IInv, CutTogetherOnce
      <4>2. blanks'[o] = blanks[o] + 1
        BY <1>2, <3>1
      <4>3. cutAt'[o]
        BY <1>2, <3>1
      <4> QED
        BY <4>1, <4>2, <4>3
    <3>2. CASE o \notin os
      <4>1. blanks'[o] = blanks[o]
        BY <1>2, <3>2
      <4>2. cutAt'[o] = (cutAt[o] \/ o \in os)
        BY <1>2
      <4>3. blanks[o] = IF cutAt[o] THEN 1 ELSE 0
        BY DEF IInv, CutTogetherOnce
      <4> QED
        BY <3>2, <4>1, <4>2, <4>3
    <3> QED
      BY <3>1, <3>2
  <2> QED
    BY <2>1, <2>2, <2>3 DEF CutTogetherOnce
<1>12. MetalDrawnOnce'
  BY <1>2, <1>6 DEF IInv, MetalDrawnOnce
<1>13. RedoFamily'
  <2> SUFFICES ASSUME NEW t \in Slips, NEW u \in Slips PROVE Kin(t, u)'
    BY DEF RedoFamily, Kin
  <2>1. Kin(t, u) /\ (slip[t].redoOf # NoSlip => slip[t].redoOf \in Slips)
    BY DEF IInv, RedoFamily, Kin, CastingTypeOK, SlipRow
  <2> QED
    BY <1>6, <2>1 DEF Kin
<1> QED
  BY <1>7, <1>8, <1>9, <1>10, <1>11, <1>12, <1>13 DEF IInv

-----------------------------------------------------------------------------
LEMMA CastingStutterInv == ASSUME IInv, UNCHANGED vars PROVE IInv'
<1>1. CastingTypeOK'
  BY DEF IInv, CastingTypeOK, TypeOK, vars
<1>2. SlipShape' /\ MetalDrawnOnce' /\ RedoFamily'
  BY DEF IInv, SlipShape, MetalDrawnOnce, RedoFamily, vars
<1>3. OneSlipPerOrder'
  BY DEF IInv, OneSlipPerOrder, OrdersOn, vars
<1>4. CastingStatusBacked'
  BY DEF IInv, CastingStatusBacked, BackedBySlip, OrdersOn, vars
<1>5. CutTogetherOnce'
  BY DEF IInv, CutTogetherOnce, OnSlip, OrdersOn, vars
<1> QED
  BY <1>1, <1>2, <1>3, <1>4, <1>5 DEF IInv

LEMMA CastingStepInv == ASSUME IInv, [CastingNext]_vars PROVE IInv'
<1>1. CASE IntakeStep
  BY <1>1, IntakeStepInv
<1>2. ASSUME NEW k \in Keepers,
             CreateSlipAsk(k) \/ CreateSlipSave(k) \/ SubmitResultAsk(k)
                 \/ SubmitResultSave(k) \/ JobFail(k)
      PROVE  IInv'
  BY <1>2, JobStepInv, CreateSlipInv, SubmitResultInv
<1>3. ASSUME NEW s \in Slips,
             RemoveSlip(s) \/ Issue(s) \/ Start(s) \/ ApproveResult(s) \/ RejectCastResult(s)
      PROVE  IInv'
  BY <1>3, RemoveSlipInv, IssueInv, StartInv, ApproveResultInv, RejectCastResultInv
<1>4. ASSUME NEW ss \in SUBSET Slips, CutMany(ss) PROVE IInv'
  BY <1>4, CutManyInv
<1>5. CASE UNCHANGED vars
  BY <1>5, CastingStutterInv
<1> QED
  BY <1>1, <1>2, <1>3, <1>4, <1>5 DEF CastingNext, CastingStep

(* The inductive invariant holds of every run of the two services.          *)
LEMMA CastingInvariant == CastingSpec => []IInv
<1>1. CastingInit => IInv
  BY CastingInitInv
<1>2. IInv /\ [CastingNext]_vars => IInv'
  BY CastingStepInv
<1> QED
  BY <1>1, <1>2, PTL DEF CastingSpec

(* Every row the two services write is well formed.                         *)
THEOREM CastingTypeCorrect == CastingSpec => []CastingTypeOK
<1>1. IInv => CastingTypeOK
  BY DEF IInv
<1> QED
  BY <1>1, CastingInvariant, PTL

(* No order is ever reserved by two slips, however create, remove and       *)
(* rejectCastResult interleave.                                             *)
THEOREM OneSlipPerOrderHolds == CastingSpec => []OneSlipPerOrder
<1>1. IInv => OneSlipPerOrder
  BY DEF IInv
<1> QED
  BY <1>1, CastingInvariant, PTL

(* An order that says it waits for casting, waits for the keeper or is cast *)
(* is on a slip that says the same.                                         *)
THEOREM CastingStatusIsBacked == CastingSpec => []CastingStatusBacked
<1>1. IInv => CastingStatusBacked
  BY DEF IInv
<1> QED
  BY <1>1, CastingInvariant, PTL

(* cutMany cuts the orders of a slip together, each once, and each puts one *)
(* lot of blanks into stock.                                                *)
THEOREM OrdersAreCutTogetherOnce == CastingSpec => []CutTogetherOnce
<1>1. IInv => CutTogetherOnce
  BY DEF IInv
<1> QED
  BY <1>1, CastingInvariant, PTL

(* The metal of a batch leaves the stock with the issue of its first slip   *)
(* and never again.                                                         *)
THEOREM MetalIsDrawnOnce == CastingSpec => []MetalDrawnOnce
<1>1. IInv => MetalDrawnOnce
  BY DEF IInv
<1> QED
  BY <1>1, CastingInvariant, PTL

(* Redos hang under the first slip, keep its worker and grams, and at most  *)
(* one slip of a family is alive.                                           *)
THEOREM RedosFormFamilies == CastingSpec => []RedoFamily
<1>1. IInv => RedoFamily
  BY DEF IInv
<1> QED
  BY <1>1, CastingInvariant, PTL

-----------------------------------------------------------------------------
(* One slip goes on, and none back.                                         *)
GoesOn(s) ==
    /\ Rank(slip'[s].status) >= Rank(slip[s].status)
    /\ slip[s].status \in {"DONE", "CAST_FAILED"} => slip'[s].status = slip[s].status
    /\ slip[s].cut => slip'[s] = slip[s]

LEMMA Ranks ==
    /\ Rank("ABSENT") = 0 /\ Rank("PENDING_ISSUE") = 0 /\ Rank("WAIT_CASTING") = 1
    /\ Rank("CASTING") = 2 /\ Rank("PENDING_CONFIRMATION") = 3
    /\ Rank("DONE") = 4 /\ Rank("CAST_FAILED") = 4
  BY DEF Rank

LEMMA SameRowGoesOn ==
    ASSUME IInv, NEW s \in Slips, slip'[s] = slip[s]
    PROVE  GoesOn(s)
<1>1. slip[s].status \in SlipStatuses
  BY DEF IInv, CastingTypeOK, SlipRow
<1> QED
  BY <1>1, Ranks DEF GoesOn, SlipStatuses

(* A claimed slip that is not yet final takes a later status.               *)
LEMMA LaterRowGoesOn ==
    ASSUME IInv, NEW s \in Slips, NEW from, NEW to,
           slip[s].status = from, slip'[s].status = to,
           \/ from \in {"ABSENT", "PENDING_ISSUE"} /\ to \in SlipStatuses
           \/ from = "WAIT_CASTING" /\ to = "CASTING"
           \/ from = "CASTING" /\ to = "PENDING_CONFIRMATION"
           \/ from = "PENDING_CONFIRMATION" /\ to \in {"DONE", "CAST_FAILED"}
    PROVE  GoesOn(s)
<1>1. ~slip[s].cut
  BY DEF IInv, SlipShape
<1> QED
  BY <1>1, Ranks DEF GoesOn, SlipStatuses

LEMMA SlipsGoOn ==
    ASSUME IInv, [CastingNext]_vars
    PROVE  \A s \in Slips : GoesOn(s)
<1>1. CASE UNCHANGED slip
  BY <1>1, SameRowGoesOn
<1>2. ASSUME NEW k \in Keepers, CreateSlipSave(k) PROVE \A s \in Slips : GoesOn(s)
  <2>1. PICK n \in Slips :
          /\ slip[n].status = "ABSENT"
          /\ slip' = [slip EXCEPT ![n] = [NoRow EXCEPT !.status = "PENDING_ISSUE",
                          !.service = (job[k].worker = NoWorker), !.worker = job[k].worker]]
    BY <1>2 DEF CreateSlipSave
  <2>2. slip'[n].status = "PENDING_ISSUE" /\ \A s \in Slips \ {n} : slip'[s] = slip[s]
    BY <2>1 DEF IInv, CastingTypeOK, NoRow
  <2> QED
    BY <2>1, <2>2, SameRowGoesOn, LaterRowGoesOn DEF SlipStatuses
<1>3. ASSUME NEW n \in Slips, RemoveSlip(n) \/ Issue(n) PROVE \A s \in Slips : GoesOn(s)
  <2>1. /\ slip[n].status = "PENDING_ISSUE" /\ slip'[n].status \in SlipStatuses
        /\ \A s \in Slips \ {n} : slip'[s] = slip[s]
    BY <1>3 DEF RemoveSlip, Issue, Claims, IInv, CastingTypeOK, NoRow, SlipRow, SlipStatuses
  <2> QED
    BY <2>1, SameRowGoesOn, LaterRowGoesOn
<1>4. ASSUME NEW n \in Slips, Start(n) \/ ApproveResult(n) PROVE \A s \in Slips : GoesOn(s)
  <2>1. /\ \/ slip[n].status = "WAIT_CASTING" /\ slip'[n].status = "CASTING"
           \/ slip[n].status = "PENDING_CONFIRMATION" /\ slip'[n].status = "DONE"
        /\ \A s \in Slips \ {n} : slip'[s] = slip[s]
    BY <1>4 DEF Start, ApproveResult, Claims, IInv, CastingTypeOK, SlipRow
  <2> QED
    BY <2>1, SameRowGoesOn, LaterRowGoesOn
<1>5. ASSUME NEW k \in Keepers, SubmitResultSave(k) PROVE \A s \in Slips : GoesOn(s)
  <2> DEFINE n == job[k].slip
  <2>1. /\ slip[n].status = "CASTING"
        /\ slip' = [slip EXCEPT ![n].status = "PENDING_CONFIRMATION",
                                ![n].used = job[k].used, ![n].tree = job[k].tree]
    BY <1>5 DEF SubmitResultSave, Claims
  <2> HIDE DEF n
  <2>2. \A s \in Slips : slip[s] \in SlipRow
    BY DEF IInv, CastingTypeOK
  <2>3. /\ n \in Slips => slip'[n].status = "PENDING_CONFIRMATION"
        /\ \A s \in Slips \ {n} : slip'[s] = slip[s]
    BY <2>1, <2>2 DEF IInv, CastingTypeOK, SlipRow
  <2> QED
    BY <2>1, <2>3, SameRowGoesOn, LaterRowGoesOn
<1>6. ASSUME NEW f \in Slips, RejectCastResult(f) PROVE \A s \in Slips : GoesOn(s)
  <2> DEFINE root == slip[RootOf(f)]
             service == root.service \/ slip[f].service
             m == [NoRow EXCEPT !.status = IF service THEN "CASTING" ELSE "WAIT_CASTING",
                      !.service = service,
                      !.worker = IF service THEN NoWorker ELSE root.worker,
                      !.redoOf = RootOf(f), !.issued = root.issued]
  <2>1. PICK n \in Slips :
          /\ slip[n].status = "ABSENT"
          /\ slip' = [slip EXCEPT ![f].status = "CAST_FAILED", ![n] = m]
    BY <1>6 DEF RejectCastResult
  <2>2. slip[f].status = "PENDING_CONFIRMATION"
    BY <1>6 DEF RejectCastResult, Claims
  <2>3. m.status \in SlipStatuses
    BY DEF NoRow, SlipStatuses
  <2> HIDE DEF m
  <2>4. /\ slip'[n].status \in SlipStatuses /\ slip'[f].status = "CAST_FAILED"
        /\ \A s \in Slips \ {n, f} : slip'[s] = slip[s]
    BY <2>1, <2>2, <2>3 DEF IInv, CastingTypeOK, SlipRow
  <2> QED
    BY <2>1, <2>2, <2>4, SameRowGoesOn, LaterRowGoesOn
<1>7. ASSUME NEW ss \in SUBSET Slips, CutMany(ss) PROVE \A s \in Slips : GoesOn(s)
  <2> DEFINE os == UNION {OrdersOn(s) : s \in ss}
  <2>1. PICK rest \in [ss -> Rests], blank \in [os -> Blanks] :
          /\ \A s \in ss : ~slip[s].cut
          /\ slip' = [s \in Slips |-> IF s \in ss
                          THEN [slip[s] EXCEPT !.cut = TRUE, !.rest = rest[s]]
                          ELSE slip[s]]
    BY <1>7, Zenon DEF CutMany
  <2>2. ASSUME NEW s \in ss PROVE GoesOn(s)
    <3>1. slip[s] \in SlipRow
      BY <2>2 DEF IInv, CastingTypeOK
    <3>2. slip'[s].status = slip[s].status
      BY <2>1, <2>2, <3>1 DEF SlipRow
    <3>3. Rank(slip'[s].status) >= Rank(slip[s].status)
      BY <3>1, <3>2, Ranks DEF SlipRow, SlipStatuses
    <3> QED
      BY <2>1, <2>2, <3>2, <3>3 DEF GoesOn
  <2>3. \A s \in Slips \ ss : slip'[s] = slip[s]
    BY <2>1
  <2> QED
    BY <2>2, <2>3, SameRowGoesOn
<1> QED
  BY <1>1, <1>2, <1>3, <1>4, <1>5, <1>6, <1>7
  DEF CastingNext, CastingStep, IntakeStep, casting, vars, CreateSlipAsk, SubmitResultAsk, JobFail

(* No request, retried or late, ever takes a slip back: what was issued,    *)
(* approved, rejected or cut stays so.                                      *)
THEOREM SlipsAreNeverTakenBack == CastingSpec => SlipNeverTakenBack
<1>1. IInv /\ [CastingNext]_vars =>
        [\A s \in Slips :
            /\ Rank(slip'[s].status) >= Rank(slip[s].status)
            /\ slip[s].status \in {"DONE", "CAST_FAILED"} => slip'[s].status = slip[s].status
            /\ slip[s].cut => slip'[s] = slip[s]]_vars
  BY SlipsGoOn DEF GoesOn
<1> QED
  BY <1>1, CastingInvariant, PTL DEF CastingSpec, SlipNeverTakenBack

-----------------------------------------------------------------------------
(* What has been cut is weighed once and for all: the slip, its orders and  *)
(* the grams of their blanks stay.                                          *)
LEMMA CutStays ==
    ASSUME IInv, [CastingNext]_vars, NEW s \in Slips, slip[s].cut
    PROVE  /\ slip'[s] = slip[s]
           /\ OrdersOn(s)' = OrdersOn(s)
           /\ \A o \in OrdersOn(s) : blankGram'[o] = blankGram[o]
<1>1. slip'[s] = slip[s]
  BY SlipsGoOn DEF GoesOn
<1>2. slip[s].status = "DONE" /\ OrdersOn(s) \subseteq Orders /\ \A o \in OrdersOn(s) : cutAt[o]
  BY DEF IInv, SlipShape, CutTogetherOnce, OrdersOn
<1>3. CASE UNCHANGED <<lines, blankGram>>
  BY <1>1, <1>3 DEF OrdersOn
<1>4. ASSUME NEW k \in Keepers, CreateSlipSave(k) PROVE OrdersOn(s)' = OrdersOn(s) /\ blankGram' = blankGram
  BY <1>2, <1>4 DEF CreateSlipSave, OrdersOn
<1>5. ASSUME NEW n \in Slips, RemoveSlip(n) PROVE OrdersOn(s)' = OrdersOn(s) /\ blankGram' = blankGram
  BY <1>2, <1>5 DEF RemoveSlip, Claims, OrdersOn
<1>6. ASSUME NEW f \in Slips, RejectCastResult(f) PROVE OrdersOn(s)' = OrdersOn(s) /\ blankGram' = blankGram
  BY <1>2, <1>6 DEF RejectCastResult, LinesMoved, Claims, OrdersOn
<1>7. ASSUME NEW ss \in SUBSET Slips, CutMany(ss)
      PROVE  OrdersOn(s)' = OrdersOn(s) /\ \A o \in OrdersOn(s) : blankGram'[o] = blankGram[o]
  <2> DEFINE os == UNION {OrdersOn(t) : t \in ss}
  <2>1. /\ \A o \in os : ~cutAt[o] /\ lines' = lines
        /\ \A o \in Orders : o \notin os => blankGram'[o] = blankGram[o]
    BY <1>7 DEF CutMany
  <2>2. lines' = lines
    BY <1>7 DEF CutMany
  <2>3. OrdersOn(s)' = OrdersOn(s)
    BY <2>2 DEF OrdersOn
  <2>4. ASSUME NEW o \in OrdersOn(s) PROVE blankGram'[o] = blankGram[o]
    <3>1. o \in Orders /\ cutAt[o]
      BY <1>2
    <3> HIDE DEF os
    <3> QED
      BY <2>1, <3>1
  <2> QED
    BY <2>3, <2>4
<1> QED
  BY <1>1, <1>3, <1>4, <1>5, <1>6, <1>7
  DEF CastingNext, CastingStep, IntakeStep, casting, vars, CreateSlipAsk, SubmitResultAsk,
      SubmitResultSave, JobFail, Issue, Start, ApproveResult

(* A result in hand was compared with what was drawn.                       *)
ResultsWeigh ==
    \A k \in Keepers : job[k].op = "result" => job[k].tree <= job[k].used

LEMMA ResultsWeighStep ==
    ASSUME IInv, ResultsWeigh, [CastingNext]_vars
    PROVE  ResultsWeigh'
<1>1. ASSUME NEW k \in Keepers, NEW l \in Keepers,
             CreateSlipAsk(k) \/ SubmitResultAsk(k) \/ CreateSlipSave(k) \/ SubmitResultSave(k) \/ JobFail(k)
      PROVE  job'[l].op = "result" => job'[l].tree <= job'[l].used
  <2>1. \/ job'[l] = job[l] \/ job'[l] = IdleJob
        \/ job'[l].op = "create"
        \/ \E s \in Slips, u \in Used, t \in Trees :
               t <= u /\ job'[l] = [op |-> "result", slip |-> s, used |-> u, tree |-> t]
    <3>1. job \in [Keepers -> Jobs]
      BY DEF IInv, CastingTypeOK
    <3>2. CASE CreateSlipAsk(k)
      BY <3>1, <3>2 DEF CreateSlipAsk
    <3>3. CASE SubmitResultAsk(k)
      BY <3>1, <3>3 DEF SubmitResultAsk
    <3>4. CASE CreateSlipSave(k) \/ SubmitResultSave(k) \/ JobFail(k)
      BY <3>1, <3>4 DEF CreateSlipSave, SubmitResultSave, JobFail, JobDone
    <3> QED
      BY <1>1, <3>2, <3>3, <3>4
  <2>2. CASE job'[l] = job[l]
    BY <2>2 DEF ResultsWeigh
  <2>3. CASE job'[l] = IdleJob
    BY <2>3 DEF IdleJob
  <2>4. ASSUME NEW s \in Slips, NEW u \in Used, NEW t \in Trees, t <= u,
               job'[l] = [op |-> "result", slip |-> s, used |-> u, tree |-> t]
        PROVE  job'[l].tree <= job'[l].used
    BY <2>4
  <2> QED
    BY <2>1, <2>2, <2>3, <2>4
<1>2. job' = job \/ \E k \in Keepers :
          CreateSlipAsk(k) \/ SubmitResultAsk(k) \/ CreateSlipSave(k) \/ SubmitResultSave(k) \/ JobFail(k)
  BY DEF CastingNext, CastingStep, IntakeStep, casting, vars, RemoveSlip, Issue, Start, ApproveResult,
         RejectCastResult, CutMany
<1> QED
  BY <1>1, <1>2 DEF ResultsWeigh

(* The tree of a slip only changes with its result.                         *)
LEMMA TreesStep ==
    ASSUME IInv, ResultsWeigh, [CastingNext]_vars, NEW s \in Slips
    PROVE  \/ slip'[s].tree = slip[s].tree /\ slip'[s].used = slip[s].used
           \/ slip'[s].tree <= slip'[s].used
<1>1. slip[s] \in SlipRow /\ slip \in [Slips -> SlipRow]
  BY DEF IInv, CastingTypeOK
<1>2. NoRow.tree = 0 /\ NoRow.used = 0
  BY DEF NoRow
<1>3. CASE UNCHANGED slip
  BY <1>3
<1>4. ASSUME NEW k \in Keepers, CreateSlipSave(k)
      PROVE  \/ slip'[s].tree = slip[s].tree /\ slip'[s].used = slip[s].used
             \/ slip'[s].tree <= slip'[s].used
  BY <1>1, <1>4 DEF CreateSlipSave, NoRow
<1>5. ASSUME NEW n \in Slips, RemoveSlip(n) \/ Issue(n) \/ Start(n) \/ ApproveResult(n)
      PROVE  \/ slip'[s].tree = slip[s].tree /\ slip'[s].used = slip[s].used
             \/ slip'[s].tree <= slip'[s].used
  BY <1>1, <1>2, <1>5 DEF RemoveSlip, Issue, Start, ApproveResult, SlipRow
<1>6. ASSUME NEW k \in Keepers, SubmitResultSave(k)
      PROVE  \/ slip'[s].tree = slip[s].tree /\ slip'[s].used = slip[s].used
             \/ slip'[s].tree <= slip'[s].used
  <2>1. /\ job[k].tree <= job[k].used
        /\ slip' = [slip EXCEPT ![job[k].slip].status = "PENDING_CONFIRMATION",
                        ![job[k].slip].used = job[k].used, ![job[k].slip].tree = job[k].tree]
    BY <1>6 DEF SubmitResultSave, ResultsWeigh
  <2> QED
    BY <1>1, <2>1 DEF SlipRow
<1>7. ASSUME NEW f \in Slips, RejectCastResult(f)
      PROVE  \/ slip'[s].tree = slip[s].tree /\ slip'[s].used = slip[s].used
             \/ slip'[s].tree <= slip'[s].used
  <2>1. PICK n \in Slips : \E m :
            /\ m.tree = 0 /\ m.used = 0
            /\ slip' = [slip EXCEPT ![f].status = "CAST_FAILED", ![n] = m]
    BY <1>7 DEF RejectCastResult, NoRow
  <2>2. PICK m :
            /\ m.tree = 0 /\ m.used = 0
            /\ slip' = [slip EXCEPT ![f].status = "CAST_FAILED", ![n] = m]
    BY <2>1
  <2> QED
    BY <1>1, <2>2 DEF SlipRow
<1>8. ASSUME NEW ss \in SUBSET Slips, CutMany(ss)
      PROVE  slip'[s].tree = slip[s].tree /\ slip'[s].used = slip[s].used
  <2>1. PICK rest : slip' = [t \in Slips |-> IF t \in ss
                                 THEN [slip[t] EXCEPT !.cut = TRUE, !.rest = rest[t]]
                                 ELSE slip[t]]
    BY <1>8 DEF CutMany
  <2> QED
    BY <1>1, <2>1 DEF SlipRow
<1> QED
  BY <1>3, <1>4, <1>5, <1>6, <1>7, <1>8
  DEF CastingNext, CastingStep, IntakeStep, casting, vars, CreateSlipAsk, SubmitResultAsk, JobFail

(* Only a cut that fits the tree cuts a slip.                               *)
LEMMA CutFits ==
    ASSUME IInv, [CastingNext]_vars, NEW s \in Slips, ~slip[s].cut, slip'[s].cut
    PROVE  /\ slip'[s].tree = slip[s].tree
           /\ slip'[s].rest + SumFunctionOnSet(blankGram', OrdersOn(s)') <= slip'[s].tree
<1>1. slip[s] \in SlipRow /\ slip \in [Slips -> SlipRow] /\ NoRow \in SlipRow /\ ~NoRow.cut
  BY DEF IInv, CastingTypeOK, NoRow, SlipRow, SlipStatuses
<1>2. \E ss \in SUBSET Slips : CutMany(ss)
  <2>1. ASSUME NEW k \in Keepers, CreateSlipSave(k) \/ SubmitResultSave(k) PROVE ~slip'[s].cut
    <3>1. CASE CreateSlipSave(k)
      BY <1>1, <3>1 DEF CreateSlipSave, NoRow
    <3>2. CASE SubmitResultSave(k)
      <4> DEFINE n == job[k].slip
      <4>1. slip' = [slip EXCEPT ![n].status = "PENDING_CONFIRMATION",
                          ![n].used = job[k].used, ![n].tree = job[k].tree]
        BY <3>2 DEF SubmitResultSave
      <4> QED
        BY <1>1, <4>1 DEF SlipRow
    <3> QED
      BY <2>1, <3>1, <3>2
  <2>2. ASSUME NEW n \in Slips, RemoveSlip(n) \/ Issue(n) \/ Start(n) \/ ApproveResult(n)
        PROVE  ~slip'[s].cut
    BY <1>1, <2>2 DEF RemoveSlip, Issue, Start, ApproveResult, SlipRow
  <2>3. ASSUME NEW f \in Slips, RejectCastResult(f) PROVE ~slip'[s].cut
    <3>1. PICK n \in Slips : \E m :
              ~m.cut /\ slip' = [slip EXCEPT ![f].status = "CAST_FAILED", ![n] = m]
      BY <2>3 DEF RejectCastResult, NoRow
    <3>2. PICK m : ~m.cut /\ slip' = [slip EXCEPT ![f].status = "CAST_FAILED", ![n] = m]
      BY <3>1
    <3> QED
      BY <1>1, <3>2 DEF SlipRow
  <2> QED
    BY <2>1, <2>2, <2>3
    DEF CastingNext, CastingStep, IntakeStep, casting, vars, CreateSlipAsk, SubmitResultAsk, JobFail
<1>3. PICK ss \in SUBSET Slips : CutMany(ss)
  BY <1>2
<1> DEFINE os == UNION {OrdersOn(t) : t \in ss}
<1>4. PICK rest \in [ss -> Rests], blank \in [os -> Blanks] :
        /\ \A t \in ss : FitsTree(t, rest[t], blank)
        /\ slip' = [t \in Slips |-> IF t \in ss
                        THEN [slip[t] EXCEPT !.cut = TRUE, !.rest = rest[t]]
                        ELSE slip[t]]
        /\ blankGram' = [o \in Orders |-> IF o \in os THEN blank[o] ELSE blankGram[o]]
        /\ lines' = lines
  BY <1>3 DEF CutMany
<1>5. s \in ss
  BY <1>4
<1>6. slip'[s].rest = rest[s] /\ slip'[s].tree = slip[s].tree
  BY <1>1, <1>4, <1>5 DEF SlipRow
<1>7. OrdersOn(s)' = OrdersOn(s) /\ OrdersOn(s) \subseteq Orders /\ OrdersOn(s) \subseteq os
  BY <1>4, <1>5 DEF OrdersOn
<1>8. SumFunctionOnSet(blankGram', OrdersOn(s)) = SumFunctionOnSet(blank, OrdersOn(s))
  <2>1. IsFiniteSet(OrdersOn(s))
    BY <1>7, FiniteAssumption, FS_Subset
  <2>2. \A o \in OrdersOn(s) : blankGram'[o] = blank[o]
    BY <1>4, <1>7
  <2> HIDE DEF OrdersOn
  <2> QED
    BY <2>1, <2>2, SumSame
<1> HIDE DEF OrdersOn
<1> QED
  BY <1>4, <1>5, <1>6, <1>7, <1>8 DEF FitsTree

(* Metal is only ever lost: the tree is not more than what was melted, and  *)
(* what is cut off it, with the rest, not more than the tree (submitResult, *)
(* cutMany), for any number of orders on a slip.                            *)
THEOREM MetalIsNeverGained == CastingSpec => []NoMetalGained
<1> DEFINE MInv == IInv /\ ResultsWeigh /\ NoMetalGained
<1>1. CastingInit => MInv
  <2> SUFFICES ASSUME CastingInit PROVE MInv
    OBVIOUS
  <2>1. IInv
    BY CastingInitInv
  <2>2. ResultsWeigh
    BY DEF CastingInit, ResultsWeigh, IdleJob
  <2>3. NoMetalGained
    BY DEF CastingInit, NoMetalGained, NoRow
  <2> QED
    BY <2>1, <2>2, <2>3
<1>2. MInv /\ [CastingNext]_vars => MInv'
  <2> SUFFICES ASSUME MInv, [CastingNext]_vars PROVE MInv'
    OBVIOUS
  <2>1. IInv'
    BY CastingStepInv
  <2>2. ResultsWeigh'
    BY ResultsWeighStep
  <2>3. ASSUME NEW s \in Slips PROVE slip'[s].tree <= slip'[s].used
    BY TreesStep DEF NoMetalGained
  <2>4. ASSUME NEW s \in Slips, slip'[s].cut
        PROVE  slip'[s].rest + SumFunctionOnSet(blankGram', OrdersOn(s)') <= slip'[s].tree
    <3>1. CASE slip[s].cut
      <4>1. /\ slip'[s] = slip[s] /\ OrdersOn(s)' = OrdersOn(s)
            /\ \A o \in OrdersOn(s) : blankGram'[o] = blankGram[o]
        BY <3>1, CutStays
      <4>2. IsFiniteSet(OrdersOn(s))
        <5>1. OrdersOn(s) \in SUBSET Orders
          BY DEF OrdersOn
        <5> QED
          BY <5>1, FiniteAssumption, FS_Subset
      <4>3. SumFunctionOnSet(blankGram', OrdersOn(s)) = SumFunctionOnSet(blankGram, OrdersOn(s))
        BY <4>1, <4>2, SumSame
      <4> QED
        BY <3>1, <4>1, <4>3 DEF NoMetalGained
    <3>2. CASE ~slip[s].cut
      BY <2>4, <3>2, CutFits
    <3> QED
      BY <3>1, <3>2
  <2> QED
    BY <2>1, <2>2, <2>3, <2>4 DEF NoMetalGained
<1>3. MInv => NoMetalGained
  OBVIOUS
<1> HIDE DEF MInv
<1> QED
  BY <1>1, <1>2, <1>3, PTL DEF CastingSpec

-----------------------------------------------------------------------------
(* The casting slips implement the promise of CastingBatch, for any number  *)
(* of orders, slips, workers and concurrent requests: a request on a slip   *)
(* is a step of its batch, or changes nothing the batch tells.              *)

(* All a batch tells of a slip stays as it is.                              *)
Stays(t) ==
    /\ slip'[t].redoOf = slip[t].redoOf
    /\ slip'[t].cut = slip[t].cut
    /\ \A st \in {"ABSENT", "PENDING_ISSUE", "DONE", "CAST_FAILED"} :
        slip'[t].status = st <=> slip[t].status = st
    /\ OrdersOn(t)' = OrdersOn(t)

(* A batch none of whose slips moves stays as it is.                        *)
LEMMA BatchStays ==
    ASSUME NEW r \in Slips,
           \A t \in Slips : t \in Family(r) \/ t \in Family(r)' => Stays(t)
    PROVE  BatchPhase(r)' = BatchPhase(r) /\ BatchMembers(r)' = BatchMembers(r)
<1>1. Family(r)' = Family(r)
  BY DEF Family, Stays
<1>2. Stays(r)
  BY DEF Family
<1>3. Alive(r)' = Alive(r) /\ \A t \in Alive(r) : Stays(t)
  BY <1>1 DEF Alive, Stays, Family
<1> HIDE DEF OrdersOn, Alive
<1>4. BatchMembers(r)' = BatchMembers(r)
  <2>1. (UNION {OrdersOn(s) : s \in Alive(r)})' = UNION {OrdersOn(s) : s \in Alive(r)}
    BY <1>3 DEF Stays
  <2> QED
    BY <1>2, <2>1 DEF BatchMembers, Stays
<1>5. BatchPhase(r)' = BatchPhase(r)
  BY <1>2, <1>3 DEF BatchPhase, Stays
<1> QED
  BY <1>4, <1>5

(* The slip of a family that has not failed speaks for the whole batch.     *)
Speaks(s, r) ==
    /\ slip[r].redoOf = NoSlip
    /\ Alive(r) = {s}
    /\ BatchMembers(r) = OrdersOn(s)
    /\ BatchPhase(r) =
          IF slip[s].status \in {"ABSENT", "PENDING_ISSUE"}
          THEN IF slip[s].status = "ABSENT" THEN "none" ELSE "planned"
          ELSE IF slip[s].cut THEN "cut"
          ELSE IF slip[s].status = "DONE" THEN "cast" ELSE "issued"

(* A redo has no batch of its own.                                          *)
Silent(s) ==
    slip[s].redoOf # NoSlip => BatchPhase(s) = "none" /\ BatchMembers(s) = {}

Spoken ==
    \A s \in Slips :
        /\ Silent(s)
        /\ slip[s].status # "CAST_FAILED" => \E r \in Slips : r = RootOf(s) /\ Speaks(s, r)

LEMMA LiveSlipSpeaks == IInv => Spoken
<1> SUFFICES ASSUME IInv, NEW s \in Slips
             PROVE  /\ Silent(s)
                    /\ slip[s].status # "CAST_FAILED" =>
                          \E r \in Slips : r = RootOf(s) /\ Speaks(s, r)
  BY DEF Spoken
<1>1. Silent(s)
  <2> SUFFICES ASSUME slip[s].redoOf # NoSlip PROVE BatchPhase(s) = "none" /\ BatchMembers(s) = {}
    BY DEF Silent
  <2>1. BatchPhase(s) = "none"
    BY DEF BatchPhase
  <2>2. BatchMembers(s) = {}
    BY DEF BatchMembers
  <2> QED
    BY <2>1, <2>2
<1>2. ASSUME slip[s].status # "CAST_FAILED"
      PROVE  \E r \in Slips : r = RootOf(s) /\ Speaks(s, r)
  <2> DEFINE r == RootOf(s)
  <2>1. r \in Slips /\ slip[r].redoOf = NoSlip
    BY DEF RootOf, IInv, RedoFamily, CastingTypeOK, SlipRow
  <2>2. /\ slip[s].redoOf # NoSlip => slip[r].status = "CAST_FAILED"
        /\ r # s => slip[s].redoOf = r
    BY DEF RootOf, IInv, RedoFamily
  <2>3. Alive(r) = {s}
    <3>1. s \in Alive(r)
      BY <1>2, <2>2 DEF Alive, Family
    <3>2. ASSUME NEW t \in Alive(r), t # s PROVE FALSE
      <4>1. t \in Slips /\ slip[t].status # "CAST_FAILED" /\ (t = r \/ slip[t].redoOf = r)
        BY <3>2 DEF Alive, Family
      <4>2. CASE t = r
        BY <2>2, <3>2, <4>1, <4>2, NoSlipAssumption, <2>1 DEF RootOf
      <4>3. CASE slip[t].redoOf = r
        <5>1. slip[r].status = "CAST_FAILED"
          BY <2>1, <4>1, <4>3, NoSlipAssumption DEF IInv, RedoFamily
        <5>2. r # s
          BY <1>2, <5>1
        <5>3. slip[s].redoOf = r /\ r # NoSlip
          BY <2>1, <2>2, <5>2, NoSlipAssumption
        <5> QED
          BY <1>2, <3>2, <4>1, <4>3, <5>3 DEF IInv, RedoFamily
      <4> QED
        BY <4>1, <4>2, <4>3
    <3> QED
      BY <3>1, <3>2
  <2>4. BatchMembers(r) = OrdersOn(s)
    BY <2>1, <2>3 DEF BatchMembers
  <2>5. \/ r = s
        \/ slip[r].status = "CAST_FAILED" /\ slip[s].status \notin {"ABSENT", "PENDING_ISSUE"}
    BY <2>2, <2>1, NoSlipAssumption DEF IInv, SlipShape
  <2>6. slip[s].cut => slip[s].status = "DONE"
    BY DEF IInv, SlipShape
  <2>7. BatchPhase(r) =
          IF slip[s].status \in {"ABSENT", "PENDING_ISSUE"}
          THEN IF slip[s].status = "ABSENT" THEN "none" ELSE "planned"
          ELSE IF slip[s].cut THEN "cut"
          ELSE IF slip[s].status = "DONE" THEN "cast" ELSE "issued"
    BY <2>1, <2>3, <2>5, <2>6 DEF BatchPhase
  <2> QED
    BY <2>1, <2>3, <2>4, <2>7 DEF Speaks
<1> QED
  BY <1>1, <1>2

LEMMA LiveSlipSpeaksNext == IInv' => Spoken'
  BY LiveSlipSpeaks, PTL

-----------------------------------------------------------------------------
(* The batches as the abstract specification sees them, one by one.         *)
Quiet == \A r \in Slips : BatchPhase(r)' = BatchPhase(r) /\ BatchMembers(r)' = BatchMembers(r)

LEMMA QuietStutters ==
    ASSUME Quiet, UNCHANGED <<draws, blanks>>
    PROVE  UNCHANGED Batch!vars
  BY DEF Quiet, Batch!vars

(* Nothing a batch tells of any slip moves: the office, a request that only *)
(* reads, the start of a cast and the result sent for confirmation.         *)
LEMMA StaysQuiet ==
    ASSUME \A t \in Slips : Stays(t)
    PROVE  Quiet
  BY BatchStays DEF Quiet

LEMMA StartQuiet ==
    ASSUME IInv, NEW s \in Slips, Start(s)
    PROVE  Quiet /\ UNCHANGED <<draws, blanks>>
<1>1. /\ slip[s].status = "WAIT_CASTING"
      /\ slip' = [slip EXCEPT ![s].status = "CASTING"]
      /\ UNCHANGED <<lines, draws, blanks>>
  BY DEF Start, Claims
<1>2. \A t \in Slips : Stays(t)
  BY <1>1 DEF Stays, OrdersOn, IInv, CastingTypeOK, SlipRow
<1> QED
  BY <1>1, <1>2, StaysQuiet

LEMMA SubmitResultQuiet ==
    ASSUME IInv, NEW k \in Keepers, SubmitResultSave(k)
    PROVE  Quiet /\ UNCHANGED <<draws, blanks>>
<1> DEFINE s == job[k].slip
<1>1. /\ slip[s].status = "CASTING"
      /\ slip' = [slip EXCEPT ![s].status = "PENDING_CONFIRMATION",
                              ![s].used = job[k].used, ![s].tree = job[k].tree]
      /\ UNCHANGED <<lines, draws, blanks>>
  BY DEF SubmitResultSave, Claims
<1> HIDE DEF s
<1>2. \A t \in Slips : slip[t] \in SlipRow
  BY DEF IInv, CastingTypeOK
<1>3. \A t \in Slips : Stays(t)
  BY <1>1, <1>2 DEF Stays, OrdersOn, IInv, CastingTypeOK, SlipRow
<1> QED
  BY <1>1, <1>3, StaysQuiet

LEMMA ReadsQuiet ==
    ASSUME UNCHANGED <<slip, lines, draws, blanks>>
    PROVE  Quiet /\ UNCHANGED <<draws, blanks>>
<1>1. \A t \in Slips : Stays(t)
  BY DEF Stays, OrdersOn
<1> QED
  BY <1>1, StaysQuiet

(* A redo takes the place of the slip that failed: the batch has the same   *)
(* orders, and its metal stays issued.                                      *)
LEMMA RejectQuiet ==
    ASSUME IInv, Spoken, Spoken', NEW s \in Slips, RejectCastResult(s)
    PROVE  Quiet /\ UNCHANGED <<draws, blanks>>
<1> DEFINE root == slip[RootOf(s)]
           service == root.service \/ slip[s].service
           back == IF service THEN "CASTING" ELSE "WAIT_CASTING"
           f == [slip[s] EXCEPT !.status = "CAST_FAILED"]
           m == [NoRow EXCEPT !.status = back, !.service = service,
                    !.worker = IF service THEN NoWorker ELSE root.worker,
                    !.redoOf = RootOf(s), !.issued = root.issued]
<1>1. PICK n \in Slips :
        /\ slip[n].status = "ABSENT"
        /\ slip' = [slip EXCEPT ![s] = f, ![n] = m]
        /\ lines' = LinesMoved(s, n)
  BY DEF RejectCastResult
<1>2. slip[s].status = "PENDING_CONFIRMATION" /\ UNCHANGED <<draws, blanks>>
  BY DEF RejectCastResult, Claims
<1>3. n # s
  BY <1>1, <1>2
<1>4. /\ f.status = "CAST_FAILED" /\ f.redoOf = slip[s].redoOf
      /\ m.status \in {"CASTING", "WAIT_CASTING"} /\ m.redoOf = RootOf(s) /\ ~m.cut
  BY DEF NoRow, IInv, CastingTypeOK, SlipRow
<1>5. \A t \in Slips : slip'[t] = IF t = s THEN f ELSE IF t = n THEN m ELSE slip[t]
  BY <1>1, <1>3 DEF IInv, CastingTypeOK
<1> HIDE DEF f, m, root, service, back
<1>6. \A t \in Slips : OrdersOn(t)' = IF t = s THEN {} ELSE IF t = n THEN OrdersOn(s) ELSE OrdersOn(t)
  <2>1. OrdersOn(n) = {}
    BY <1>1 DEF IInv, OneSlipPerOrder
  <2> QED
    BY <1>1, <1>3, <2>1 DEF OrdersOn, LinesMoved
<1> HIDE DEF OrdersOn
<1>7. PICK r \in Slips : r = RootOf(s) /\ Speaks(s, r)
  BY <1>2 DEF Spoken
<1>8. RootOf(n)' = r /\ r # NoSlip /\ r # n /\ slip'[n].status # "CAST_FAILED"
  <2>1. r # NoSlip
    BY NoSlipAssumption
  <2>2. slip'[n].redoOf = r
    BY <1>3, <1>4, <1>5, <1>7
  <2>3. r # n
    BY <1>1, <1>2, <1>7, <1>3 DEF RootOf, IInv, RedoFamily
  <2> QED
    BY <1>3, <1>4, <1>5, <2>1, <2>2, <2>3 DEF RootOf
<1>9. Speaks(n, r)'
  BY <1>8 DEF Spoken
<1>10. BatchPhase(r)' = BatchPhase(r) /\ BatchMembers(r)' = BatchMembers(r)
  <2>1. ~slip[s].cut
    BY <1>2 DEF IInv, SlipShape
  <2>2. BatchPhase(r) = "issued" /\ BatchMembers(r) = OrdersOn(s)
    BY <1>2, <1>7, <2>1 DEF Speaks
  <2>3. BatchPhase(r)' = "issued" /\ BatchMembers(r)' = OrdersOn(n)'
    BY <1>3, <1>4, <1>5, <1>9 DEF Speaks
  <2> QED
    BY <1>3, <1>6, <2>2, <2>3
<1>11. ASSUME NEW q \in Slips, q # r
       PROVE  BatchPhase(q)' = BatchPhase(q) /\ BatchMembers(q)' = BatchMembers(q)
  <2>1. CASE q = n
    <3>1. BatchPhase(n) = "none" /\ BatchMembers(n) = {}
      <4>1. RootOf(n) = n
        BY <1>1 DEF RootOf, IInv, SlipShape
      <4>2. Speaks(n, n)
        BY <1>1, <4>1 DEF Spoken
      <4> QED
        BY <1>1, <4>2 DEF Speaks, IInv, OneSlipPerOrder
    <3>2. BatchPhase(n)' = "none" /\ BatchMembers(n)' = {}
      BY <1>3, <1>4, <1>5, <1>7, <1>8 DEF Spoken, Silent
    <3> QED
      BY <2>1, <3>1, <3>2
  <2>2. CASE q = s
    <3>1. slip[s].redoOf # NoSlip /\ slip'[s].redoOf # NoSlip
      BY <1>4, <1>5, <1>7, <1>11, <2>2 DEF RootOf
    <3> QED
      BY <2>2, <3>1 DEF Spoken, Silent
  <2>3. CASE q \notin {s, n}
    <3>1. \A t \in Slips : t \in Family(q) \/ t \in Family(q)' => t \notin {s, n}
      BY <1>1, <1>3, <1>4, <1>5, <1>7, <1>8, <1>11, <2>3, NoSlipAssumption
      DEF Family, RootOf, IInv, SlipShape
    <3>2. \A t \in Slips : t \notin {s, n} => Stays(t)
      BY <1>5, <1>6 DEF Stays
    <3> QED
      BY <3>1, <3>2, BatchStays
  <2> QED
    BY <2>1, <2>2, <2>3
<1> QED
  BY <1>2, <1>10, <1>11 DEF Quiet

-----------------------------------------------------------------------------
(* The batch of a first slip that has no metal yet is that slip alone.      *)
LEMMA FirstSlip ==
    ASSUME IInv, Spoken, NEW s \in Slips, slip[s].status \in {"ABSENT", "PENDING_ISSUE"}
    PROVE  /\ slip[s].redoOf = NoSlip /\ Speaks(s, s) /\ Family(s) = {s}
           /\ draws[s] = 0
<1>1. slip[s].redoOf = NoSlip
  BY DEF IInv, SlipShape
<1>2. Speaks(s, s)
  BY <1>1 DEF Spoken, RootOf
<1>3. Family(s) = {s}
  BY NoSlipAssumption DEF Family, IInv, RedoFamily
<1>4. draws[s] = 0
  BY DEF IInv, MetalDrawnOnce
<1> QED
  BY <1>1, <1>2, <1>3, <1>4

(* A change to one such slip, which stays a first slip, is a change to its  *)
(* batch and to no other.                                                   *)
LEMMA OnlyItsBatch ==
    ASSUME IInv, Spoken, NEW s \in Slips, slip[s].redoOf = NoSlip, slip'[s].redoOf = NoSlip,
           \A t \in Slips \ {s} : Stays(t)
    PROVE  \A r \in Slips \ {s} :
              BatchPhase(r)' = BatchPhase(r) /\ BatchMembers(r)' = BatchMembers(r)
<1> SUFFICES ASSUME NEW r \in Slips, r # s
             PROVE  BatchPhase(r)' = BatchPhase(r) /\ BatchMembers(r)' = BatchMembers(r)
  OBVIOUS
<1>1. s \notin Family(r) /\ s \notin Family(r)'
  BY NoSlipAssumption DEF Family
<1>2. \A t \in Slips : t # s => Stays(t)
  OBVIOUS
<1> QED
  BY <1>1, <1>2, BatchStays

(* create plans a batch of orders no other batch has.                       *)
LEMMA CreatePlans ==
    ASSUME IInv, IInv', Spoken, Spoken', NEW k \in Keepers, CreateSlipSave(k)
    PROVE  \E s \in Slips, os \in SUBSET Orders : Batch!Plan(s, os)
<1> DEFINE os == job[k].orders
           n == [NoRow EXCEPT !.status = "PENDING_ISSUE",
                     !.service = (job[k].worker = NoWorker), !.worker = job[k].worker]
<1>1. PICK s \in Slips :
        /\ slip[s].status = "ABSENT"
        /\ slip' = [slip EXCEPT ![s] = n]
        /\ lines' = lines \cup ({s} \X os)
  BY DEF CreateSlipSave
<1>2. /\ os \subseteq Orders /\ os # {}
      /\ \A t \in Slips : OrdersOn(t) \cap os = {}
      /\ UNCHANGED <<draws, blanks>>
  <2>1. job[k] \in CreateJobs
    BY DEF CreateSlipSave, IInv, CastingTypeOK, Jobs, IdleJob, ResultJobs, CreateJobs
  <2> QED
    BY <2>1 DEF CreateSlipSave, UniqueOrders, OnSlip, CreateJobs
<1>3. n.status = "PENDING_ISSUE" /\ n.redoOf = NoSlip
  BY DEF NoRow
<1>4. \A t \in Slips : slip'[t] = IF t = s THEN n ELSE slip[t]
  BY <1>1 DEF IInv, CastingTypeOK
<1>5. OrdersOn(s) = {}
  BY <1>1 DEF IInv, OneSlipPerOrder
<1>6. \A t \in Slips : OrdersOn(t)' = IF t = s THEN os ELSE OrdersOn(t)
  BY <1>1, <1>2, <1>5 DEF OrdersOn
<1> HIDE DEF OrdersOn, n, os
<1>7. /\ slip[s].redoOf = NoSlip /\ slip'[s].redoOf = NoSlip
      /\ Speaks(s, s) /\ Speaks(s, s)'
  <2>1. slip[s].redoOf = NoSlip /\ Speaks(s, s)
    BY <1>1, FirstSlip
  <2>2. slip'[s].redoOf = NoSlip /\ slip'[s].status # "CAST_FAILED"
    BY <1>3, <1>4
  <2> QED
    BY <2>1, <2>2 DEF Spoken, RootOf
<1>8. BatchPhase(s) = "none" /\ BatchPhase(s)' = "planned" /\ BatchMembers(s)' = os
  BY <1>1, <1>3, <1>4, <1>6, <1>7 DEF Speaks
<1>9. \A r \in Slips \ {s} : BatchPhase(r)' = BatchPhase(r) /\ BatchMembers(r)' = BatchMembers(r)
  <2>1. \A t \in Slips \ {s} : Stays(t)
    BY <1>4, <1>6 DEF Stays
  <2> QED
    BY <1>7, <2>1, OnlyItsBatch
<1>10. \A r \in Slips : BatchMembers(r) \cap os = {}
  BY <1>2 DEF BatchMembers, Alive, Family
<1>11. Batch!Plan(s, os)
  BY <1>2, <1>8, <1>9, <1>10 DEF Batch!Plan
<1> QED
  BY <1>2, <1>11

(* remove drops it again.                                                   *)
LEMMA RemoveDrops ==
    ASSUME IInv, IInv', Spoken, Spoken', NEW s \in Slips, RemoveSlip(s)
    PROVE  Batch!Drop(s)
<1>1. /\ slip[s].status = "PENDING_ISSUE"
      /\ slip' = [slip EXCEPT ![s] = NoRow]
      /\ lines' = {l \in lines : l[1] # s}
      /\ UNCHANGED <<draws, blanks>>
  BY DEF RemoveSlip, Claims
<1>2. \A t \in Slips : OrdersOn(t)' = IF t = s THEN {} ELSE OrdersOn(t)
  BY <1>1 DEF OrdersOn
<1>3. \A t \in Slips : slip'[t] = IF t = s THEN NoRow ELSE slip[t]
  BY <1>1 DEF IInv, CastingTypeOK
<1>4. NoRow.status = "ABSENT" /\ NoRow.redoOf = NoSlip
  BY DEF NoRow
<1> HIDE DEF OrdersOn
<1>5. Speaks(s, s) /\ slip[s].redoOf = NoSlip /\ slip'[s].redoOf = NoSlip
  BY <1>1, <1>3, <1>4, FirstSlip
<1>6. Speaks(s, s)'
  BY <1>3, <1>4 DEF Spoken, RootOf
<1>7. BatchPhase(s) = "planned" /\ BatchPhase(s)' = "none" /\ BatchMembers(s)' = {}
  BY <1>1, <1>2, <1>3, <1>4, <1>5, <1>6 DEF Speaks
<1>8. \A r \in Slips \ {s} : BatchPhase(r)' = BatchPhase(r) /\ BatchMembers(r)' = BatchMembers(r)
  <2>1. \A t \in Slips \ {s} : Stays(t)
    BY <1>2, <1>3 DEF Stays
  <2> QED
    BY <1>5, <2>1, OnlyItsBatch
<1> QED
  BY <1>1, <1>7, <1>8 DEF Batch!Drop

(* issue draws the metal of the batch, for the first time.                  *)
LEMMA IssueIssues ==
    ASSUME IInv, IInv', Spoken, Spoken', NEW s \in Slips, Issue(s)
    PROVE  Batch!Issue(s)
<1> DEFINE st == IF slip[s].service THEN "CASTING" ELSE "WAIT_CASTING"
<1>1. PICK g \in Issued :
        /\ slip[s].status = "PENDING_ISSUE"
        /\ slip' = [slip EXCEPT ![s].status = st, ![s].issued = g]
        /\ draws' = [draws EXCEPT ![s] = @ + 1]
        /\ UNCHANGED <<lines, blanks>>
  BY DEF Issue, Claims
<1>2. slip[s] \in SlipRow /\ ~slip[s].cut
  BY <1>1 DEF IInv, CastingTypeOK, SlipShape
<1>3. /\ slip'[s].status = st /\ slip'[s].redoOf = slip[s].redoOf /\ ~slip'[s].cut
      /\ \A t \in Slips : t # s => slip'[t] = slip[t]
  BY <1>1, <1>2 DEF IInv, CastingTypeOK, SlipRow
<1>4. \A t \in Slips : OrdersOn(t)' = OrdersOn(t)
  BY <1>1 DEF OrdersOn
<1> HIDE DEF OrdersOn
<1>5. Speaks(s, s) /\ slip[s].redoOf = NoSlip /\ slip'[s].redoOf = NoSlip /\ draws[s] = 0
  BY <1>1, <1>3, FirstSlip
<1>6. Speaks(s, s)'
  BY <1>3, <1>5 DEF Spoken, RootOf
<1>7. /\ BatchPhase(s) = "planned" /\ BatchPhase(s)' = "issued"
      /\ BatchMembers(s)' = BatchMembers(s)
  BY <1>1, <1>3, <1>4, <1>5, <1>6 DEF Speaks
<1>8. \A r \in Slips \ {s} : BatchPhase(r)' = BatchPhase(r) /\ BatchMembers(r)' = BatchMembers(r)
  <2>1. \A t \in Slips \ {s} : Stays(t)
    BY <1>3, <1>4 DEF Stays
  <2> QED
    BY <1>5, <2>1, OnlyItsBatch
<1>9. s \notin {r \in Slips : draws[r] > 0}
      /\ {r \in Slips : draws'[r] > 0} = {r \in Slips : draws[r] > 0} \cup {s}
  BY <1>1, <1>5 DEF IInv, CastingTypeOK
<1> QED
  BY <1>1, <1>7, <1>8, <1>9 DEF Batch!Issue

(* approveResult of the live slip casts the batch, whichever attempt it is. *)
LEMMA ApproveCasts ==
    ASSUME IInv, IInv', Spoken, Spoken', NEW s \in Slips, ApproveResult(s)
    PROVE  \E r \in Slips : Batch!Cast(r)
<1>1. /\ slip[s].status = "PENDING_CONFIRMATION"
      /\ slip' = [slip EXCEPT ![s].status = "DONE"]
      /\ UNCHANGED <<lines, draws, blanks>>
  BY DEF ApproveResult, Claims
<1>2. slip[s] \in SlipRow /\ ~slip[s].cut
  BY <1>1 DEF IInv, CastingTypeOK, SlipShape
<1>3. /\ slip'[s].status = "DONE" /\ slip'[s].redoOf = slip[s].redoOf /\ ~slip'[s].cut
      /\ \A t \in Slips : t # s => slip'[t] = slip[t]
  BY <1>1, <1>2 DEF IInv, CastingTypeOK, SlipRow
<1>4. \A t \in Slips : OrdersOn(t)' = OrdersOn(t)
  BY <1>1 DEF OrdersOn
<1> HIDE DEF OrdersOn
<1>5. PICK r \in Slips : r = RootOf(s) /\ Speaks(s, r)
  BY <1>1 DEF Spoken
<1>6. Speaks(s, r)'
  BY <1>3, <1>5 DEF Spoken, RootOf
<1>7. /\ BatchPhase(r) = "issued" /\ BatchPhase(r)' = "cast"
      /\ BatchMembers(r)' = BatchMembers(r)
  BY <1>1, <1>2, <1>3, <1>4, <1>5, <1>6 DEF Speaks
<1>8. ASSUME NEW q \in Slips, q # r
      PROVE  BatchPhase(q)' = BatchPhase(q) /\ BatchMembers(q)' = BatchMembers(q)
  <2>1. CASE q = s
    <3>1. slip[s].redoOf # NoSlip
      BY <1>5, <1>8, <2>1 DEF RootOf
    <3> QED
      BY <1>3, <2>1, <3>1 DEF Spoken, Silent
  <2>2. CASE q # s
    <3>1. s \notin Family(q) /\ s \notin Family(q)'
      BY <1>3, <1>5, <1>8, <2>2, NoSlipAssumption DEF Family, RootOf
    <3>2. \A t \in Slips : t # s => Stays(t)
      BY <1>3, <1>4 DEF Stays
    <3> QED
      BY <3>1, <3>2, BatchStays
  <2> QED
    BY <2>1, <2>2
<1>9. Batch!Cast(r)
  BY <1>1, <1>7, <1>8 DEF Batch!Cast
<1> QED
  BY <1>9

(* cutMany cuts the batches of its slips, each with all its orders.         *)
LEMMA CutCuts ==
    ASSUME IInv, IInv', Spoken, Spoken', NEW ss \in (SUBSET Slips) \ {{}}, CutMany(ss)
    PROVE  \E bs \in SUBSET Slips : Batch!Cut(bs)
<1> DEFINE os == UNION {OrdersOn(s) : s \in ss}
           bs == {r \in Slips : \E s \in ss : r = RootOf(s)}
<1>1. PICK rest \in [ss -> Rests], blank \in [os -> Blanks] :
        /\ \A s \in ss : Claims(s, "DONE") /\ ~slip[s].cut
        /\ \A o \in os : ~cutAt[o]
        /\ slip' = [s \in Slips |-> IF s \in ss
                        THEN [slip[s] EXCEPT !.cut = TRUE, !.rest = rest[s]]
                        ELSE slip[s]]
  BY Zenon DEF CutMany
<1>2. /\ blanks' = [o \in Orders |-> IF o \in os THEN blanks[o] + 1 ELSE blanks[o]]
      /\ UNCHANGED <<lines, draws>>
  BY DEF CutMany
<1>3. \A t \in Slips : OrdersOn(t)' = OrdersOn(t) /\ OrdersOn(t) \subseteq Orders
  BY <1>2 DEF OrdersOn
<1>4. os \subseteq Orders
  BY <1>3
<1>5. \A t \in Slips :
        /\ slip'[t].status = slip[t].status /\ slip'[t].redoOf = slip[t].redoOf
        /\ t \in ss => slip'[t].cut
        /\ t \notin ss => slip'[t] = slip[t]
  <2> SUFFICES ASSUME NEW t \in Slips
               PROVE  /\ slip'[t].status = slip[t].status /\ slip'[t].redoOf = slip[t].redoOf
                      /\ t \in ss => slip'[t].cut
                      /\ t \notin ss => slip'[t] = slip[t]
    OBVIOUS
  <2>1. slip[t] \in SlipRow
    BY DEF IInv, CastingTypeOK
  <2>2. CASE t \in ss
    <3>1. slip'[t] = [slip[t] EXCEPT !.cut = TRUE, !.rest = rest[t]]
      BY <1>1, <2>2
    <3> QED
      BY <2>1, <2>2, <3>1 DEF SlipRow
  <2>3. CASE t \notin ss
    BY <1>1, <2>3
  <2> QED
    BY <2>2, <2>3
<1> HIDE DEF OrdersOn
<1>6. \A s \in ss : slip[s].status = "DONE" /\ ~slip[s].cut /\ slip'[s].status = "DONE" /\ slip'[s].cut
  BY <1>1, <1>5 DEF Claims
<1>7. ASSUME NEW s \in ss
      PROVE  \E r \in bs : /\ BatchPhase(r) = "cast" /\ BatchPhase(r)' = "cut"
                           /\ BatchMembers(r) = OrdersOn(s) /\ BatchMembers(r)' = OrdersOn(s)
                           /\ r = RootOf(s)
  <2>1. PICK r \in Slips : r = RootOf(s) /\ Speaks(s, r)
    BY <1>6 DEF Spoken
  <2>2. Speaks(s, r)'
    BY <1>5, <1>6, <2>1 DEF Spoken, RootOf
  <2> QED
    BY <1>3, <1>6, <2>1, <2>2 DEF Speaks
<1>8. ASSUME NEW r \in bs
      PROVE  /\ BatchPhase(r) = "cast" /\ BatchPhase(r)' = "cut"
             /\ BatchMembers(r)' = BatchMembers(r)
  <2>1. PICK s \in ss : r = RootOf(s)
    OBVIOUS
  <2> QED
    BY <1>7, <2>1
<1>9. ASSUME NEW r \in Slips, r \notin bs
      PROVE  BatchPhase(r)' = BatchPhase(r) /\ BatchMembers(r)' = BatchMembers(r)
  <2>1. CASE slip[r].redoOf # NoSlip
    BY <1>5, <2>1 DEF Spoken, Silent
  <2>2. CASE slip[r].redoOf = NoSlip
    <3>1. \A t \in Slips : t \in Family(r) \/ t \in Family(r)' => t \notin ss
      BY <1>5, <1>9, <2>2, NoSlipAssumption DEF Family, RootOf
    <3>2. \A t \in Slips : t \notin ss => Stays(t)
      BY <1>3, <1>5 DEF Stays
    <3> QED
      BY <3>1, <3>2, BatchStays
  <2> QED
    BY <2>1, <2>2
<1>10. UNION {BatchMembers(r) : r \in bs} = os
  <2>1. ASSUME NEW r \in bs PROVE \E s \in ss : BatchMembers(r) = OrdersOn(s)
    <3>1. PICK s \in ss : r = RootOf(s)
      OBVIOUS
    <3> QED
      BY <1>7, <3>1
  <2>2. ASSUME NEW s \in ss PROVE \E r \in bs : BatchMembers(r) = OrdersOn(s)
    BY <1>7
  <2> HIDE DEF bs
  <2> QED
    BY <2>1, <2>2
<1>11. bs # {} /\ bs \subseteq Slips
  BY <1>7
<1>12. \A o \in os : blanks[o] = 0
  BY <1>1, <1>4 DEF IInv, CutTogetherOnce
<1>13. {o \in Orders : blanks'[o] > 0} = {o \in Orders : blanks[o] > 0} \cup os
  BY <1>2, <1>4, <1>12 DEF IInv, CastingTypeOK
<1>14. os \cap {o \in Orders : blanks[o] > 0} = {}
  BY <1>12
<1> HIDE DEF bs, os
<1>15. UNION {[r \in Slips |-> BatchMembers(r)][b] : b \in bs} = os
  BY <1>10, <1>11
<1>16. PICK b \in SUBSET Slips : b = bs
  BY <1>11
<1>17. Batch!Cut(b)
  BY <1>2, <1>8, <1>9, <1>11, <1>13, <1>14, <1>15, <1>16 DEF Batch!Cut
<1> QED
  BY <1>17

-----------------------------------------------------------------------------
LEMMA BatchStarts ==
    ASSUME CastingInit, IInv, Spoken
    PROVE  Batch!Init
<1>1. ASSUME NEW s \in Slips
      PROVE  BatchPhase(s) = "none" /\ BatchMembers(s) = {} /\ draws[s] = 0
  <2>1. slip[s].status = "ABSENT" /\ OrdersOn(s) = {}
    BY DEF CastingInit, NoRow, OrdersOn
  <2> QED
    BY <2>1, FirstSlip DEF Speaks
<1>2. \A o \in Orders : blanks[o] = 0
  BY DEF CastingInit
<1> QED
  BY <1>1, <1>2 DEF Batch!Init

LEMMA StepIsBatchStep ==
    ASSUME IInv, IInv', Spoken, Spoken', [CastingNext]_vars
    PROVE  [Batch!Next]_(Batch!vars)
<1>1. CASE UNCHANGED casting \/ UNCHANGED vars
  BY <1>1, ReadsQuiet, QuietStutters DEF casting, vars
<1>2. ASSUME NEW k \in Keepers, CreateSlipAsk(k) \/ SubmitResultAsk(k) \/ JobFail(k)
      PROVE  UNCHANGED Batch!vars
  BY <1>2, ReadsQuiet, QuietStutters DEF CreateSlipAsk, SubmitResultAsk, JobFail
<1>3. ASSUME NEW k \in Keepers, CreateSlipSave(k) PROVE Batch!Next
  BY <1>3, CreatePlans DEF Batch!Next
<1>4. ASSUME NEW k \in Keepers, SubmitResultSave(k) PROVE UNCHANGED Batch!vars
  BY <1>4, SubmitResultQuiet, QuietStutters
<1>5. ASSUME NEW s \in Slips, RemoveSlip(s) \/ Issue(s) PROVE Batch!Next
  BY <1>5, RemoveDrops, IssueIssues DEF Batch!Next
<1>6. ASSUME NEW s \in Slips, Start(s) \/ RejectCastResult(s) PROVE UNCHANGED Batch!vars
  BY <1>6, StartQuiet, RejectQuiet, QuietStutters
<1>7. ASSUME NEW s \in Slips, ApproveResult(s) PROVE Batch!Next
  BY <1>7, ApproveCasts DEF Batch!Next
<1>8. ASSUME NEW ss \in (SUBSET Slips) \ {{}}, CutMany(ss) PROVE Batch!Next
  BY <1>8, CutCuts DEF Batch!Next
<1> QED
  BY <1>1, <1>2, <1>3, <1>4, <1>5, <1>6, <1>7, <1>8 DEF CastingNext, CastingStep, IntakeStep

(* However requests, retries and redos interleave, a batch is planned once, *)
(* its metal leaves the stock once, it is cast once and cut once, all its   *)
(* orders together: every run of the casting slips is a run of CastingBatch.*)
THEOREM SlipsImplementBatches == CastingSpec => ImplementsBatch
<1>1. CastingInit /\ IInv /\ Spoken => Batch!Init
  BY BatchStarts
<1>2. IInv /\ IInv' /\ Spoken /\ Spoken' /\ [CastingNext]_vars => [Batch!Next]_(Batch!vars)
  BY StepIsBatchStep
<1>3. IInv => Spoken
  BY LiveSlipSpeaks
<1> QED
  BY <1>1, <1>2, <1>3, CastingInvariant, PTL DEF CastingSpec, ImplementsBatch, Batch!Spec
=============================================================================
