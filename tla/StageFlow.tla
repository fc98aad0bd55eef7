------------------------------- MODULE StageFlow -------------------------------
(***************************************************************************)
(* One production order on its way through the five stages of the workshop, *)
(* on its own sheet (the parent) or divided into sub-tickets.               *)
(*                                                                         *)
(* The endpoints of SubTicketsService read and write under the lock of the  *)
(* order row: one step each.  Those of ProductionOrdersService read first   *)
(* and write later: Xxx"Ask" is the read with its checks, Xxx"Save" the     *)
(* transaction.  Only the one of returnStage looks whether the row changed  *)
(* in between; and returnStage and undoReturn write the status of the order *)
(* after their transaction, from what they saw in it (StatusSave).          *)
(*                                                                         *)
(* A stage is its number; a status within the stages is its rank in         *)
(* STATUS_RANK: 2s-1 waits for stage s, 2s is in it.                        *)
(***************************************************************************)
EXTENDS Integers, Sequences, FiniteSets, FiniteSetsExt

CONSTANTS
    Tickets,        \* ids of sub-tickets
    Parent,         \* the order's own sheet
    Clients,        \* requests that read before they write
    Opens,          \* stages the office opens
    OrderQty,       \* ordered pieces
    MaxEntries,     \* bound: hand-overs on one sheet
    Revisions,      \* MAX_KCS_REVISIONS
    Alone,          \* whether a request runs to its end undisturbed
    Corrections,    \* whether the administrator takes steps back
    Skips           \* bound: whether the office sets or clears "no stones"

Stages == 1..5
FILING == 1
STONE_SETTING == 2
ENGRAVING == 3
POLISHING == 4
PLATING == 5

ASSUME SizeAssumption == OrderQty \in Nat \ {0} /\ MaxEntries \in Nat /\ Revisions \in Nat
ASSUME TicketsAssumption == IsFiniteSet(Tickets)
ASSUME FlowAssumption ==
    /\ Opens \subseteq Stages /\ Alone \in BOOLEAN /\ Corrections \in BOOLEAN /\ Skips \in BOOLEAN
    /\ Parent \notin Tickets

VARIABLES
    order,      \* the order row with its tickets and stage entries
    blanks,     \* cut blanks of the order left in the store
    btp,        \* pieces of the order stored after each stage the keeper confirms
    req         \* requests in flight
flow == <<order, blanks, btp, req>>

Holders == Tickets \cup {Parent}
KEEPER_CONFIRM_STAGES == {FILING, STONE_SETTING}
SELF_TAKE_STAGES == {POLISHING, PLATING}
DEFECT_REPORT_STAGES == {FILING, STONE_SETTING, POLISHING}

Wait(s) == 2 * s - 1
At(s) == 2 * s
IN_STAGE_STATUSES == 1..10
PLATED == 11
FINISHING == 12
DEFECT == 0
FILING_DEFECT == -1
STONE_DEFECT == -2
CASTING == -3
NEW_ORDER == -4
FINISHED_STATUSES == {PLATED, FINISHING}
DEFECT_STATUSES == {DEFECT, FILING_DEFECT, STONE_DEFECT}

NotYet == -1
Outcomes == {"NONE", "FINISH", "DEFECT"}
Entry(s, n) == [stage |-> s, handed |-> n, done |-> FALSE, returned |-> NotYet, defect |-> 0,
                confirmed |-> FALSE, tries |-> 0, rework |-> FALSE]
Sheet(n) == [live |-> n > 0, qty |-> n, pending |-> 0, claimed |-> FALSE, give |-> 0,
             outcome |-> "NONE", good |-> 0]
NoReceipt == [qty |-> 0, stocked |-> 0]

Idle == [op |-> "idle"]
Amount == 0..OrderQty
EntryValues == [stage : Stages, handed : Amount, done : BOOLEAN, returned : Amount \cup {NotYet},
                defect : Amount, confirmed : BOOLEAN, tries : Nat, rework : BOOLEAN]
SheetValues == [live : BOOLEAN, qty : Amount, pending : Stages \cup {0}, claimed : BOOLEAN,
                give : Amount, outcome : Outcomes, good : Amount]

StageTypeOK ==
    /\ order.status \in NEW_ORDER..FINISHING /\ order.skip \in BOOLEAN
    /\ order.receipt \in [qty : Nat, stocked : Nat]
    /\ order.sheet \in [Holders -> SheetValues]
    /\ order.work \in [Holders -> Seq(EntryValues)]
    /\ blanks \in Amount /\ btp \in [KEEPER_CONFIRM_STAGES -> Nat]
    /\ DOMAIN req = Clients
    /\ \A c \in Clients : req[c].op \in
            {"idle", "return", "undo", "status", "change", "finish", "undoFinish"}

Init ==
    /\ order = [status |-> Wait(FILING), skip |-> FALSE, receipt |-> NoReceipt,
                sheet |-> [h \in Holders |-> IF h = Parent THEN Sheet(OrderQty) ELSE Sheet(0)],
                work |-> [h \in Holders |-> <<>>]]
    /\ blanks = OrderQty
    /\ btp = [s \in KEEPER_CONFIRM_STAGES |-> 0]
    /\ req = [c \in Clients |-> Idle]

-----------------------------------------------------------------------------
(* Where a sheet stands.                                                   *)
Live(o) == {t \in Tickets : o.sheet[t].live}
Running(o) == {t \in Live(o) : o.sheet[t].outcome = "NONE"}
Ended(o, end) == {t \in Live(o) : o.sheet[t].outcome = end}
LastOf(s) == s[Len(s)]
OpenAt(o, h) == {i \in DOMAIN o.work[h] : o.work[h][i].returned = NotYet}
Unconfirmed(o, h) == {i \in DOMAIN o.work[h] : o.work[h][i].returned # NotYet /\ ~o.work[h][i].confirmed}

AllDefect(entries) ==
    entries # <<>> /\ LastOf(entries).confirmed /\ LastOf(entries).returned = 0

(* orderTicketState closes the parent by the receipt or an all-defect end.  *)
OutcomeOf(o, h) ==
    IF h # Parent THEN o.sheet[h].outcome
    ELSE IF o.receipt.qty > 0 THEN "FINISH"
    ELSE IF o.sheet[h].pending = 0 /\ AllDefect(o.work[h]) THEN "DEFECT" ELSE "NONE"

(* subTicketState, without the wording of what keeps a sheet busy.         *)
BusyWorking(o, h) == OpenAt(o, h)           \* fault variant: not until the keeper confirms
Busy(o, h) == OpenAt(o, h) \cup Unconfirmed(o, h)

StateOf(o, h) ==
    IF OutcomeOf(o, h) # "NONE" THEN OutcomeOf(o, h)
    ELSE IF Busy(o, h) # {} THEN "BUSY"
    ELSE IF o.sheet[h].pending = 0 THEN "IDLE"
    ELSE IF o.sheet[h].claimed THEN "CLAIMED" ELSE "WAITING"

LastStage(entries) == IF entries = <<>> THEN 0 ELSE LastOf(entries).stage
LastStageDone(entries) == LastStage(entries) = PLATING /\ LastOf(entries).returned # NotYet

Available(o, h) ==
    IF o.work[h] = <<>> THEN o.sheet[h].qty
    ELSE IF LastOf(o.work[h]).returned = NotYet THEN LastOf(o.work[h]).handed
    ELSE LastOf(o.work[h]).returned

(* What the keeper has stored of the sheet's last stage.                   *)
Stored(entries, s) ==
    IF LastStage(entries) = s /\ s \in KEEPER_CONFIRM_STAGES /\ LastOf(entries).confirmed
    THEN LastOf(entries).returned ELSE 0

-----------------------------------------------------------------------------
(* The status of the order, from where its sheets stand.                   *)
NextWait(s, skip) ==
    CASE s = FILING -> IF skip THEN Wait(ENGRAVING) ELSE Wait(STONE_SETTING)
      [] s = PLATING -> At(PLATING)
      [] OTHER -> Wait(s + 1)

TicketStatus(o, h) ==
    LET busy == IF OpenAt(o, h) # {} THEN OpenAt(o, h) ELSE Unconfirmed(o, h)
        own == LastStage(o.work[h])
    IN  IF busy # {} THEN At(o.work[h][Min(busy)].stage)
        ELSE IF o.sheet[h].pending # 0 THEN Wait(o.sheet[h].pending)
        ELSE NextWait(IF own = 0 THEN LastStage(o.work[Parent]) ELSE own, o.skip)

Nearest(statuses) == Min(statuses)          \* fault variant
Furthest(statuses) == Max(statuses)

DeriveStatus(o) ==
    IF o.status \notin IN_STAGE_STATUSES THEN o.status
    ELSE IF Live(o) = {} THEN TicketStatus(o, Parent)
    ELSE IF Running(o) = {} THEN o.status
    ELSE Furthest({TicketStatus(o, t) : t \in Running(o)})

FinishedStatus(r) == IF r.qty > 0 /\ r.stocked >= r.qty THEN FINISHING ELSE PLATED

DefectOf(s) == CASE s = FILING -> FILING_DEFECT [] s = STONE_SETTING -> STONE_DEFECT [] OTHER -> DEFECT
DefectStatus(o) ==
    LET kinds == {DefectOf(LastStage(o.work[t])) : t \in Live(o)}
    IN  IF Cardinality(kinds) = 1 THEN Max(kinds) ELSE DEFECT

(* syncOrder: the receipt and the status from the outcomes of the tickets. *)
FinishedQty(o) == SumFunctionOnSet([t \in Tickets |-> o.sheet[t].good], Ended(o, "FINISH"))

NewReceipt(old, n) == [qty |-> n, stocked |-> Min({old.stocked, n})]

SyncOrder(o) ==
    LET total == FinishedQty(o)
        receipt == NewReceipt(o.receipt, total)
        status ==
            IF Running(o) = {} /\ Live(o) # {}
            THEN IF total > 0 THEN FinishedStatus(receipt) ELSE DefectStatus(o)
            ELSE IF o.status \notin FINISHED_STATUSES \cup DEFECT_STATUSES THEN o.status
            ELSE IF Running(o) = {} THEN CASTING
            ELSE Furthest({TicketStatus(o, t) : t \in Running(o)})
    IN  [o EXCEPT !.receipt = receipt, !.status = status]

SyncOrderAfterStage(o, closed) ==
    LET p == IF Live(o) # {} /\ (closed \/ o.status \in DEFECT_STATUSES \cup FINISHED_STATUSES)
             THEN SyncOrder(o) ELSE o
    IN  [p EXCEPT !.status = DeriveStatus(p)]

ClearPending(sheet) == [sheet EXCEPT !.pending = 0, !.claimed = FALSE, !.give = 0]
Close(o, t, end) ==
    [o EXCEPT !.sheet[t] = [ClearPending(o.sheet[t]) EXCEPT
        !.outcome = end, !.good = IF end = "FINISH" THEN Available(o, t) ELSE 0]]

-----------------------------------------------------------------------------
(* mutate: under the lock of the order row.  Requests that read the row      *)
(* before no longer have a fresh copy, unless only a ticket row changes.    *)
Quiet == Alone => \A c \in Clients : req[c] = Idle
Stale(r) == IF r.op = "return" THEN [r EXCEPT !.fresh = FALSE] ELSE r

Mutate(o) ==
    /\ Quiet
    /\ order' = o
    /\ req' = [c \in Clients |-> Stale(req[c])]

MutateTicket(o) == Quiet /\ order' = o /\ UNCHANGED <<req, blanks, btp>>
Keep == UNCHANGED <<blanks, btp>>

(* assertOrderActive                                                       *)
Active(o) == o.receipt.qty = 0 \/ Running(o) # {}

Defects(entries) == SumFunctionOnSet(
    [i \in DOMAIN entries |-> IF entries[i].confirmed THEN entries[i].defect ELSE 0],
    DOMAIN entries)
NetQty(o, t) ==
    IF o.sheet[t].outcome = "DEFECT" THEN 0
    ELSE Max({0, o.sheet[t].qty - Defects(o.work[t])})
TotalNet(o, ts) == SumFunctionOnSet([t \in Tickets |-> NetQty(o, t)], ts)

AnyTotal(o, n) == TRUE                      \* fault variant
WithinTotals(o, n) == TotalNet(o, Live(o)) + n <= OrderQty

-----------------------------------------------------------------------------
(* The order is divided.                                                   *)
Split ==
    /\ Live(order) = {} /\ Active(order)
    /\ order.sheet[Parent].pending = 0 /\ order.work[Parent] = <<>>
    /\ \E ts \in SUBSET Tickets : \E f \in [ts -> 1..OrderQty] :
        /\ Cardinality(ts) >= 2
        /\ SumFunctionOnSet(f, ts) <= OrderQty
        /\ Mutate([order EXCEPT !.sheet =
               [h \in Holders |-> IF h \in ts THEN Sheet(f[h]) ELSE @[h]]])
    /\ Keep

CreateTicket ==
    /\ Live(order) # {} /\ Active(order) /\ OpenAt(order, Parent) = {}
    /\ \E t \in Tickets \ Live(order), n \in 1..OrderQty :
        WithinTotals(order, n) /\ Mutate([order EXCEPT !.sheet[t] = Sheet(n)])
    /\ Keep

(* update: the others share what the ticket leaves, as evenly as it goes.   *)
UpdateTicket ==
    /\ Active(order)
    /\ \A t \in Live(order) : /\ order.work[t] = <<>> /\ order.sheet[t].outcome = "NONE"
                              /\ order.sheet[t].pending # STONE_SETTING
    /\ \E t \in Live(order), n \in 1..OrderQty :
        LET others == Live(order) \ {t}
            share == (OrderQty - n) \div Cardinality(others)
            extra == (OrderQty - n) % Cardinality(others)
        IN  /\ n # order.sheet[t].qty
            /\ others # {} /\ OrderQty - n >= Cardinality(others)
            /\ \E more \in kSubset(extra, others) :
                Mutate([order EXCEPT !.sheet = [h \in Holders |->
                    IF h = t THEN [@[h] EXCEPT !.qty = n]
                    ELSE IF h \in others
                         THEN [@[h] EXCEPT !.qty = share + (IF h \in more THEN 1 ELSE 0)]
                    ELSE @[h]]])
    /\ Keep

Started(t) == order.work[t] # <<>>

ClearSplit ==
    /\ Live(order) # {} /\ Active(order)
    /\ \A t \in Live(order) : ~Started(t) /\ StateOf(order, t) = "IDLE"
    /\ Mutate([order EXCEPT !.sheet = [h \in Holders |-> IF h = Parent THEN @[h] ELSE Sheet(0)]])
    /\ Keep

RemoveTicket ==
    /\ Cardinality(Live(order)) > 2
    /\ \E t \in Live(order) : ~Started(t) /\ Mutate([order EXCEPT !.sheet[t] = Sheet(0)])
    /\ Keep

-----------------------------------------------------------------------------
(* A stage is opened, assigned, taken back, and begun.                     *)
Sheets == IF Live(order) = {} THEN {Parent} ELSE Live(order)

LaterStage(h, s) ==
    LET own == LastStage(order.work[h])
        last == IF own = 0 THEN LastStage(order.work[Parent]) ELSE own
    IN  s > last \/ order.status \notin IN_STAGE_STATUSES

OpenOrderStage == \E s \in Opens \cap SELF_TAKE_STAGES :
    /\ Live(order) = {} /\ Active(order)
    /\ StateOf(order, Parent) = "IDLE" /\ LaterStage(Parent, s)
    /\ Mutate([order EXCEPT !.sheet[Parent].pending = s])
    /\ Keep

Given(s, n) ==
    /\ n <= Available(order, Parent)
    /\ IF s = FILING THEN n <= blanks
       ELSE Stored(order.work[Parent], LastStage(order.work[Parent])) = 0
            \/ n = Available(order, Parent)

AssignOrder == \E s \in Opens, n \in 1..OrderQty :
    /\ Live(order) = {} /\ Active(order)
    /\ StateOf(order, Parent) = "IDLE" /\ LaterStage(Parent, s)
    /\ ~(s = STONE_SETTING /\ order.skip)
    /\ Given(s, n)
    /\ Mutate([order EXCEPT !.sheet[Parent].pending = s, !.sheet[Parent].claimed = TRUE,
                            !.sheet[Parent].give = n])
    /\ Keep

Assign == \E t \in Live(order), s \in Opens :
    /\ Active(order) /\ StateOf(order, t) = "IDLE" /\ LaterStage(t, s)
    /\ MutateTicket([order EXCEPT !.sheet[t].pending = s, !.sheet[t].claimed = TRUE])

CancelOrderPending ==
    /\ StateOf(order, Parent) \in {"WAITING", "CLAIMED"}
    /\ Mutate([order EXCEPT !.sheet[Parent] = ClearPending(@)]) /\ Keep
CancelPending == \E t \in Live(order) :
    /\ StateOf(order, t) \in {"WAITING", "CLAIMED"}
    /\ MutateTicket([order EXCEPT !.sheet[t] = ClearPending(@)])

(* On the parent the hand-over prepared for the worker goes too.           *)
UnclaimOrder ==
    /\ StateOf(order, Parent) = "CLAIMED"
    /\ Mutate([order EXCEPT !.sheet[Parent] = ClearPending(@)]) /\ Keep
Unclaim == \E t \in Live(order) :
    /\ StateOf(order, t) = "CLAIMED"
    /\ MutateTicket([order EXCEPT !.sheet[t].claimed = FALSE])

NoCheck(h, s, n) ==                         \* fault variant: the store is not asked
    blanks' = (IF s = FILING THEN blanks - n ELSE blanks) /\ UNCHANGED btp
(* Sheet h begins stage s with n pieces, out of the store if they are there. *)
FromStore(h, s, n) ==
    LET last == LastStage(order.work[h])
    IN  IF s = FILING THEN n <= blanks /\ blanks' = blanks - n /\ UNCHANGED btp
        ELSE IF Stored(order.work[h], last) > 0
        THEN n <= btp[last] /\ btp' = [btp EXCEPT ![last] = @ - n] /\ UNCHANGED blanks
        ELSE UNCHANGED <<blanks, btp>>

Begin(h, s, n) ==
    LET o == [order EXCEPT !.sheet[h] = ClearPending(@), !.work[h] = Append(@, Entry(s, n))]
    IN  /\ Len(order.work[h]) < MaxEntries
        /\ FromStore(h, s, n)
        /\ Mutate([o EXCEPT !.status =
               IF h = Parent THEN At(s) ELSE DeriveStatus([o EXCEPT !.status = At(FILING)])])

(* accept, acceptOrder: the worker named takes over what was prepared.     *)
Accept == \E t \in Live(order) :
    LET s == order.sheet[t].pending
    IN  /\ Active(order) /\ StateOf(order, t) = "CLAIMED"
        /\ s # FILING => (Started(t) \/ s # STONE_SETTING) /\ Available(order, t) > 0
        /\ Begin(t, s, IF s = FILING THEN order.sheet[t].qty ELSE Available(order, t))

AcceptOrder ==
    /\ Live(order) = {} /\ Active(order) /\ StateOf(order, Parent) = "CLAIMED"
    /\ order.sheet[Parent].give <= Available(order, Parent)
    /\ Begin(Parent, order.sheet[Parent].pending, order.sheet[Parent].give)

(* take, takeOrder: any worker of the stage gets all that is there.        *)
Takeable(h) ==
    Active(order) /\ StateOf(order, h) = "WAITING" /\ order.sheet[h].pending \in SELF_TAKE_STAGES
Carried(h) == Available(order, h)

Take == \E t \in Live(order) :
    Takeable(t) /\ Begin(t, order.sheet[t].pending, Carried(t))
TakeOrder ==
    Live(order) = {} /\ Takeable(Parent) /\ Begin(Parent, order.sheet[Parent].pending, Carried(Parent))

(* The worker reports the stage done, or quality control reports a defect;  *)
(* both may be taken back until the goods are back.                         *)
FirstOpen(h) == Min(OpenAt(order, h))

ReportDone(h) ==
    /\ OpenAt(order, h) # {} /\ ~order.work[h][FirstOpen(h)].done
    /\ Mutate([order EXCEPT !.work[h][FirstOpen(h)].done = TRUE])
    /\ Keep

Submit == Active(order) /\ \E t \in Live(order) : ReportDone(t)
SubmitOrder == ReportDone(Parent)
ReportStageDefect == Active(order) /\ \E h \in Sheets :
    ReportDone(h) /\ order.work[h][FirstOpen(h)].stage \in DEFECT_REPORT_STAGES

TakeBackDone(h) ==
    /\ OpenAt(order, h) # {} /\ order.work[h][FirstOpen(h)].done
    /\ Mutate([order EXCEPT !.work[h][FirstOpen(h)].done = FALSE])
    /\ Keep

Unsubmit == \E t \in Live(order) : TakeBackDone(t)
UnsubmitOrder == TakeBackDone(Parent)
ClearStageDefect == \E h \in Sheets :
    TakeBackDone(h) /\ order.work[h][FirstOpen(h)].stage \in DEFECT_REPORT_STAGES

-----------------------------------------------------------------------------
(* Quality control takes the goods back.                                   *)
Ask(c, r) ==
    /\ req[c] = Idle /\ Quiet
    /\ req' = [req EXCEPT ![c] = r]
    /\ UNCHANGED <<order, blanks, btp>>

(* The transaction of a request, and then the status it still has to write. *)
Save(c, o, next) ==
    /\ order' = o
    /\ req' = [d \in Clients |-> IF d # c THEN Stale(req[d])
                                 ELSE IF next = o.status THEN Idle
                                 ELSE [op |-> "status", to |-> next]]
Refuse(c) == req' = [req EXCEPT ![c] = Idle] /\ UNCHANGED <<order, blanks, btp>>

GoodAndDefect(e) == {p \in Amount \X Amount :
    /\ p[1] + p[2] <= e.handed
    /\ e.stage \notin KEEPER_CONFIRM_STAGES => p[2] = 0
    /\ e.stage \in KEEPER_CONFIRM_STAGES => p[1] > 0 \/ p[2] > 0
    /\ e.stage \notin DEFECT_REPORT_STAGES => p[1] > 0}

ReturnAsk(c) == \E h \in Holders : \E i \in DOMAIN order.work[h] :
    LET e == order.work[h][i]
    IN  /\ e.done
        /\ \/ e.returned = NotYet
           \/ e.returned # NotYet /\ ~e.confirmed /\ e.tries < Revisions
        /\ \E p \in GoodAndDefect(e) :
            Ask(c, [op |-> "return", h |-> h, i |-> i, good |-> p[1], defect |-> p[2],
                    revise |-> e.returned # NotYet, fresh |-> TRUE])

(* advanceAfterQc: the stage after engraving and polishing opens by itself, *)
(* plating closes the sheet.                                               *)
AdvanceAfterQc(o, h, e) ==
    IF (h # Parent /\ o.sheet[h].outcome # "NONE") \/ (h = Parent /\ Live(o) # {}) THEN o
    ELSE IF e.stage \in {ENGRAVING, POLISHING}
    THEN IF o.sheet[h].pending # 0 THEN o
         ELSE [o EXCEPT !.sheet[h].pending = e.stage + 1, !.sheet[h].claimed = FALSE]
    ELSE IF h # Parent THEN SyncOrder(Close(o, h, "FINISH"))
    ELSE IF o.receipt.qty > 0 THEN o
    ELSE [o EXCEPT !.receipt = [qty |-> e.returned, stocked |-> 0], !.status = PLATED]

AnyCopy(r) == TRUE                          \* fault variant
Unchanged(r) == r.fresh

ReturnSave(c) ==
    LET r == req[c]
        old == order.work[r.h][r.i]
        keeper == old.stage \in KEEPER_CONFIRM_STAGES
        e == [old EXCEPT !.returned = r.good, !.defect = r.defect, !.confirmed = ~keeper,
                         !.tries = IF r.revise THEN @ + 1 ELSE @]
        saved == [order EXCEPT !.work[r.h][r.i] = e]
        nothing == ~keeper /\ r.good = 0
        o == IF keeper THEN saved
             ELSE IF ~nothing THEN AdvanceAfterQc(saved, r.h, e)
             ELSE IF r.h = Parent THEN saved
             ELSE SyncOrderAfterStage(Close(saved, r.h, "DEFECT"), TRUE)
    IN  /\ r.op = "return"
        /\ \/ /\ Unchanged(r)
              /\ Save(c, o, IF nothing /\ r.h = Parent THEN DefectOf(e.stage) ELSE DeriveStatus(o))
              /\ Keep
           \/ ~Unchanged(r) /\ Refuse(c)

StatusSave(c) ==
    /\ req[c].op = "status"
    /\ order' = [order EXCEPT !.status = req[c].to]
    /\ req' = [d \in Clients |-> IF d = c THEN Idle ELSE Stale(req[d])]
    /\ Keep

OtherStore(s) == IF s = FILING THEN STONE_SETTING ELSE FILING      \* fault variant
StoreOf(s) == s

(* The keeper confirms; what is good goes into the store.                  *)
ConfirmStage == \E h \in Sheets : \E i \in Unconfirmed(order, h) :
    LET e == order.work[h][i]
        o == [order EXCEPT !.work[h][i].confirmed = TRUE]
        nothing == e.returned = 0
    IN  /\ e.stage \in KEEPER_CONFIRM_STAGES
        /\ btp' = [btp EXCEPT ![StoreOf(e.stage)] = @ + e.returned] /\ UNCHANGED blanks
        /\ Mutate(SyncOrderAfterStage(
               IF ~nothing THEN o
               ELSE IF h # Parent THEN Close(o, h, "DEFECT")
               ELSE [o EXCEPT !.sheet[h] = ClearPending(@), !.status = DefectOf(e.stage)],
               nothing))

(* An order of its own makes up for what a confirmed return lost.          *)
CreateRework == \E h \in Holders : \E i \in DOMAIN order.work[h] :
    LET e == order.work[h][i]
    IN  /\ Active(order) /\ (h = Parent \/ order.sheet[h].live)
        /\ e.stage \in KEEPER_CONFIRM_STAGES /\ e.confirmed /\ e.defect > 0 /\ ~e.rework
        /\ Mutate([order EXCEPT !.work[h][i].rework = TRUE])
        /\ Keep

-----------------------------------------------------------------------------
(* The ends of tickets and order.                                          *)
SetOutcome == \E t \in Live(order), end \in {"FINISH", "DEFECT"} :
    /\ StateOf(order, t) = "IDLE"
    /\ end = "FINISH" => LastStageDone(order.work[t])
    /\ Mutate(SyncOrder(Close(order, t, end)))
    /\ Keep

ClearOutcome == \E t \in Ended(order, "FINISH") \cup Ended(order, "DEFECT") :
    /\ Corrections
    /\ Mutate(SyncOrder([order EXCEPT !.sheet[t].outcome = "NONE", !.sheet[t].good = 0]))
    /\ Keep

SetStoneSkipped ==
    LET touched(s) == \/ \E h \in Holders : order.sheet[h].pending = s
                      \/ \E h \in Holders : \E i \in DOMAIN order.work[h] : order.work[h][i].stage = s
        o == [order EXCEPT !.skip = ~@]
    IN  /\ Skips /\ Active(order) /\ order.status \in IN_STAGE_STATUSES
        /\ IF order.skip THEN \A s \in STONE_SETTING + 1..PLATING : ~touched(s)
           ELSE ~touched(STONE_SETTING)
        /\ Mutate([o EXCEPT !.status = DeriveStatus(o)])
        /\ Keep

FinishAsk(c) ==
    /\ order.receipt.qty = 0 /\ order.status # NEW_ORDER
    /\ Live(order) = {} /\ OpenAt(order, Parent) = {} /\ order.sheet[Parent].pending = 0
    /\ LastStageDone(order.work[Parent]) /\ Available(order, Parent) > 0
    /\ Ask(c, [op |-> "finish", qty |-> Available(order, Parent)])

FinishSave(c) ==
    /\ req[c].op = "finish"
    /\ \/ /\ order.receipt.qty = 0
          /\ Save(c, [order EXCEPT !.status = PLATED,
                                   !.receipt = [qty |-> req[c].qty, stocked |-> 0]], PLATED)
          /\ Keep
       \/ order.receipt.qty > 0 /\ Refuse(c)

UndoFinishAsk(c) ==
    LET last == LastStage(order.work[Parent])
    IN  /\ Corrections /\ order.receipt.qty > 0
        /\ Running(order) = Live(order)
        /\ Ask(c, [op |-> "undoFinish", to |-> IF last = 0 THEN CASTING ELSE At(last)])

UndoFinishSave(c) ==
    /\ req[c].op = "undoFinish"
    /\ \/ /\ order.receipt.qty > 0
          /\ Save(c, [order EXCEPT !.status = req[c].to, !.receipt = NoReceipt], req[c].to)
          /\ Keep
       \/ order.receipt.qty = 0 /\ Refuse(c)

(* undoReturn of the last stage, where no keeper confirms.                 *)
SelfTakeAfter(s) == IF s + 1 \in SELF_TAKE_STAGES THEN s + 1 ELSE 0
UndoAsk(c) == \E h \in Holders :
    LET i == Len(order.work[h])
        e == order.work[h][i]
        opened == order.sheet[h].pending
    IN  /\ Corrections /\ i > 0
        /\ e.returned # NotYet /\ e.stage \notin KEEPER_CONFIRM_STAGES
        /\ h = Parent => Live(order) = {}
        /\ order.sheet[h].outcome = "NONE" /\ order.receipt.qty = 0
        /\ opened # 0 => opened = SelfTakeAfter(e.stage) /\ ~order.sheet[h].claimed
        /\ Ask(c, [op |-> "undo", h |-> h, i |-> i, auto |-> opened # 0])

UndoSave(c) ==
    LET r == req[c]
        o == [order EXCEPT !.work[r.h][r.i].returned = NotYet,
                           !.sheet[r.h].pending = IF r.auto THEN 0 ELSE @]
    IN  /\ r.op = "undo"
        /\ Save(c, o, DeriveStatus(o))
        /\ Keep

-----------------------------------------------------------------------------
(* changeStatus: the office takes the order out of the stages.             *)
ChangeStatusAsk(c) == \E to \in {DEFECT, NEW_ORDER} :
    /\ to # order.status
    /\ to = NEW_ORDER => order.status \notin IN_STAGE_STATUSES /\ order.receipt.qty = 0
    /\ Ask(c, [op |-> "change", to |-> to, leave |-> order.receipt.qty > 0,
               cleared |-> {h \in Holders : order.sheet[h].pending # 0}])

ClearSeen(r) == r.cleared \cup (IF r.cleared \cap Tickets = {} THEN {} ELSE Tickets)

ChangeStatusSave(c) ==
    LET r == req[c]
    IN  /\ r.op = "change"
        /\ \/ /\ r.leave => order.receipt.qty > 0
              /\ Save(c, [order EXCEPT
                     !.status = r.to,
                     !.receipt = IF r.leave THEN NoReceipt ELSE @,
                     !.sheet = [h \in Holders |->
                         IF h \in ClearSeen(r) THEN ClearPending(@[h]) ELSE @[h]]], r.to)
              /\ Keep
           \/ r.leave /\ order.receipt.qty = 0 /\ Refuse(c)

(* The keeper of finished goods takes pieces of the receipt into the store. *)
StockReceipt == \E n \in order.receipt.stocked + 1..order.receipt.qty :
    LET receipt == [order.receipt EXCEPT !.stocked = n]
    IN  /\ Mutate([order EXCEPT !.receipt = receipt,
                       !.status = IF @ \in FINISHED_STATUSES THEN FinishedStatus(receipt) ELSE @])
        /\ Keep

-----------------------------------------------------------------------------
Office ==
    \/ Split \/ CreateTicket \/ UpdateTicket \/ ClearSplit \/ RemoveTicket
    \/ OpenOrderStage \/ AssignOrder \/ Assign
    \/ CancelPending \/ CancelOrderPending \/ Unclaim \/ UnclaimOrder
    \/ SetOutcome \/ ClearOutcome \/ SetStoneSkipped \/ CreateRework
Workshop ==
    \/ Accept \/ AcceptOrder \/ Take \/ TakeOrder
    \/ Submit \/ SubmitOrder \/ ReportStageDefect
    \/ Unsubmit \/ UnsubmitOrder \/ ClearStageDefect \/ ConfirmStage \/ StockReceipt
Request(c) ==
    \/ ReturnAsk(c) \/ ReturnSave(c) \/ StatusSave(c) \/ UndoAsk(c) \/ UndoSave(c)
    \/ FinishAsk(c) \/ FinishSave(c) \/ UndoFinishAsk(c) \/ UndoFinishSave(c)
    \/ ChangeStatusAsk(c) \/ ChangeStatusSave(c)

Next == Office \/ Workshop \/ \E c \in Clients : Request(c)

Spec == Init /\ [][Next]_flow

-----------------------------------------------------------------------------
(* Where people look for their work: first the order list, by status.      *)
OutcomeStatus(o, t) ==
    IF o.sheet[t].outcome = "FINISH" THEN IF o.status = FINISHING THEN FINISHING ELSE PLATED
    ELSE DefectOf(LastStage(o.work[t]))

OrderListStatuses(o) ==
    (IF Live(o) = {} \/ o.status \notin IN_STAGE_STATUSES THEN {o.status} ELSE {})
    \cup {IF t \in Running(o) THEN TicketStatus(o, t) ELSE OutcomeStatus(o, t) : t \in Live(o)}

(* orderPositions: what the overview of the workshop shows; a status it      *)
(* knows no place for shows nothing.                                        *)
Position(status, qty) ==
    [stage |-> (status + 1) \div 2, working |-> status % 2 = 0, qty |-> qty]
OrderPositions(o) ==
    IF o.status = PLATED
    THEN {[stage |-> PLATING + 1, working |-> FALSE, qty |-> o.receipt.qty - o.receipt.stocked]}
    ELSE IF o.status \notin IN_STAGE_STATUSES THEN {}
    ELSE IF Live(o) = {} THEN {Position(o.status, OrderQty)}
    ELSE {Position(TicketStatus(o, t), o.sheet[t].qty) : t \in Running(o)}

(* myTickets: the sheets offered to a worker, and those in his hands.       *)
ClaimedTickets(o) == {t \in Live(o) : o.sheet[t].claimed /\ o.sheet[t].pending # 0}
OpenTickets(o) ==
    {t \in Running(o) : ~o.sheet[t].claimed /\ o.sheet[t].pending \in SELF_TAKE_STAGES}
PendingOrder(o) == {h \in {Parent} : Live(o) = {} /\ o.sheet[h].pending # 0}
Offered(o) == ClaimedTickets(o) \cup OpenTickets(o) \cup PendingOrder(o)

WorkingTickets(o) == {t \in Tickets : OpenAt(o, t) # {}}
WorkingOrder(o) == {h \in {Parent} : Live(o) = {} /\ OpenAt(o, h) # {}}
InHand(o) == WorkingTickets(o) \cup WorkingOrder(o)

(* qcTickets: being made, to be taken back, with the keeper, to be closed.  *)
ByTicket(o, h) == h # Parent \/ Live(o) = {}
QcWorking(o) == {h \in Holders : ByTicket(o, h) /\ \E i \in OpenAt(o, h) : ~o.work[h][i].done}
AnyReturn(o) == {h \in Holders : ByTicket(o, h) /\ \E i \in DOMAIN o.work[h] : o.work[h][i].done}
QcPending(o) == {h \in Holders : ByTicket(o, h) /\ \E i \in OpenAt(o, h) : o.work[h][i].done}
QcConfirming(o) ==
    {h \in Holders : ByTicket(o, h) /\ \E i \in Unconfirmed(o, h) :
        o.work[h][i].stage \in KEEPER_CONFIRM_STAGES}
Finishable(o) ==
    {h \in Holders :
        /\ o.sheet[h].pending = 0 /\ OpenAt(o, h) = {} /\ LastStageDone(o.work[h])
        /\ IF h = Parent THEN Live(o) = {} /\ o.receipt.qty = 0 /\ o.status # NEW_ORDER
           ELSE o.sheet[h].live /\ o.sheet[h].outcome = "NONE"}

-----------------------------------------------------------------------------
(* A sheet is in one hand at a time: every hand-over but the last has come   *)
(* back and is confirmed, and nothing is opened while one is out.           *)
OneOpenStage == \A h \in Holders :
    /\ OpenAt(order, h) \cup Unconfirmed(order, h) \subseteq {Len(order.work[h])}
    /\ OpenAt(order, h) \cup Unconfirmed(order, h) # {} => order.sheet[h].pending = 0

(* A closed ticket has nothing going on, and one closed as good came back   *)
(* from plating with the pieces it is credited with.                        *)
ClosedIsDone == \A t \in Live(order) \ Running(order) :
    /\ order.sheet[t].pending = 0
    /\ OpenAt(order, t) \cup Unconfirmed(order, t) = {}
    /\ order.sheet[t].outcome = "FINISH" =>
           /\ LastStage(order.work[t]) = PLATING
           /\ order.sheet[t].good = LastOf(order.work[t]).returned

(* One stage after the other: nothing is opened beside what is out, and a    *)
(* ticket is closed only when nothing of it is out.                         *)
OneStageAtATime == OneOpenStage /\ ClosedIsDone

(* "The ticket that is furthest decides" (deriveOrderStatus): an order       *)
(* within the stages never shows less than a ticket somebody works on.      *)
WorkShows ==
    order.status \in IN_STAGE_STATUSES /\ (\A c \in Clients : req[c].op # "status") =>
        \A t \in Running(order) : \A i \in OpenAt(order, t) :
            order.status >= At(order.work[t][i].stage)

(* Whoever is to act next finds the sheet on his list, and on no other: a    *)
(* sheet in work is in the worker's hands and on one list of quality        *)
(* control, one opened is offered.  Without a list are only the sheets that  *)
(* wait for the office.                                                     *)
OnOneList == \A h \in Sheets :
    LET state == StateOf(order, h)
        on(list) == h \in list
    IN  /\ on(InHand(order)) <=> on(QcWorking(order)) \/ on(QcPending(order))
        /\ Cardinality({l \in {"offered", "working", "pending", "confirming", "finish"} :
               CASE l = "offered" -> on(Offered(order)) [] l = "working" -> on(QcWorking(order))
                 [] l = "pending" -> on(QcPending(order)) [] l = "confirming" -> on(QcConfirming(order))
                 [] l = "finish" -> on(Finishable(order))}) =
           (IF \/ state \in {"FINISH", "DEFECT"}
               \/ state = "IDLE" /\ ~on(Finishable(order))
               \/ state = "WAITING" /\ h # Parent /\ order.sheet[h].pending \notin SELF_TAKE_STAGES
            THEN 0 ELSE 1)

(* An order within the stages is listed and shown in the overview where its  *)
(* pieces are: "each ticket below is the right source" (orderListStatuses). *)
ShownWhereHeld ==
    order.status \in IN_STAGE_STATUSES /\ (\A c \in Clients : req[c].op # "status") =>
        \A h \in Sheets : \A i \in OpenAt(order, h) :
            LET s == order.work[h][i].stage
            IN  OutcomeOf(order, h) = "NONE" =>
                    /\ At(s) \in OrderListStatuses(order)
                    /\ \E p \in OrderPositions(order) : p.stage = s /\ p.working

(* What a worker holds shows in the status of the order, in the lists by     *)
(* status and in the overview.                                              *)
WorkIsVisible == WorkShows /\ ShownWhereHeld

(* What was prepared for the worker named is still there when he comes.     *)
OfferHolds ==
    order.sheet[Parent].claimed =>
        /\ order.sheet[Parent].give <= Available(order, Parent)
        /\ order.sheet[Parent].pending = FILING => order.sheet[Parent].give <= blanks

(* Every list tells the truth: one list for each sheet that waits for        *)
(* somebody, and what it offers is there.                                   *)
ListsTellTruth == OnOneList /\ OfferHolds

(* What waits for the finished-goods store is what the tickets finished; an *)
(* order that shows finished has such a receipt, and shows it as taken in   *)
(* exactly when nothing of it waits.                                        *)
ReceiptIsSum ==
    /\ order.receipt.stocked <= order.receipt.qty
    /\ order.receipt.qty > 0 /\ Live(order) # {} => order.receipt.qty = FinishedQty(order)
    /\ order.status \in FINISHED_STATUSES =>
           order.receipt.qty > 0 /\ order.status = FinishedStatus(order.receipt)

(* What quality control passed of the sheets that stand after filing or      *)
(* stone setting is in the store: nobody else took it, and the next stage   *)
(* finds its pieces.  (More may lie there: a ticket filed a second time     *)
(* draws a new blank and leaves the piece of the first time.)               *)
BtpCovers == \A s \in KEEPER_CONFIRM_STAGES :
    btp[s] >= SumFunctionOnSet([h \in Holders |-> Stored(order.work[h], s)], Holders)

(* No piece is credited to two stores or to none: what the tickets finished  *)
(* waits for the goods store, and what the keeper confirmed waits for the   *)
(* next stage.                                                              *)
PiecesAddUp == ReceiptIsSum /\ BtpCovers

(* "The tickets together do not exceed the order" (assertWithinTotals),     *)
(* counting what defects took away as free to be divided again.             *)
TicketsWithinOrder == TotalNet(order, Live(order)) <= OrderQty

(* What the keeper confirmed does not change any more, whoever was          *)
(* correcting the result meanwhile (returnStage with revise); so an order   *)
(* that makes up for its defects stays right (createRework).                *)
ConfirmedStays == [][\A h \in Holders : \A i \in DOMAIN order.work[h] :
    LET e == order.work[h][i]
        later == order'.work[h][i]
    IN  e.confirmed /\ e.stage \in KEEPER_CONFIRM_STAGES /\ i \in DOMAIN order'.work[h] =>
            later = [e EXCEPT !.rework = later.rework] /\ (e.rework => later.rework)]_flow
=============================================================================
