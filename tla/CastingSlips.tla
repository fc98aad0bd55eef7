---------------------------- MODULE CastingSlips ----------------------------
(***************************************************************************)
(* Casting slips (CastingSlipsService): a slip takes a batch of orders     *)
(* whose wax is confirmed, draws metal from the main material stock, is    *)
(* cast by a worker or an outside service, is approved or rejected by the  *)
(* keeper (a rejected cast leaves a redo slip with the same orders) and is *)
(* finally cut, which puts one lot of blanks per order into the            *)
(* semi-finished stock and sends the orders to filing.                     *)
(*                                                                         *)
(* The module extends IntakeOrders: both services write the same row of    *)
(* production_orders.  A transaction that claims its slip with an          *)
(* "UPDATE ... WHERE status = s" and acts only when one row was hit is one *)
(* atomic action; create and submitResult read before their transaction    *)
(* and are two actions, as in IntakeOrders.                                *)
(***************************************************************************)
EXTENDS IntakeOrders, FiniteSetsExt

CONSTANTS
    Slips,      \* casting slip ids
    NoSlip,
    Workers,    \* users that may be assigned a cast
    NoWorker,   \* an outside service
    Keepers,    \* concurrent requests of the casting department
    Issued, Used, Trees, Rests, Blanks      \* bounds: the weighings entered, in grams

ASSUME FiniteAssumption == IsFiniteSet(Orders)
ASSUME NoSlipAssumption == NoSlip \notin Slips
ASSUME NoWorkerAssumption == NoWorker \notin Workers
ASSUME GramsAssumption ==
    /\ Issued \subseteq Nat \ {0} /\ Used \subseteq Nat /\ Trees \subseteq Nat \ {0}
    /\ Rests \subseteq Nat /\ Blanks \subseteq Nat \ {0}

VARIABLES
    slip,       \* casting_slips rows
    lines,      \* casting_slip_orders rows: <<slip, order>>
    draws,      \* how often each slip's metal was issued from stock
    blanks,     \* how many lots of blanks each order put into stock
    blankGram,  \* production_orders.blank_weight
    job         \* the casting request each keeper has read for and not yet written

casting == <<slip, lines, draws, blanks, blankGram, job>>
vars == <<status, hasMold, rejected, cutAt, req, slip, lines, draws, blanks, blankGram, job>>

SlipStatuses == {"ABSENT", "PENDING_ISSUE", "WAIT_CASTING", "CASTING",
                 "PENDING_CONFIRMATION", "DONE", "CAST_FAILED"}

(* issued, used, tree, rest are 0 while their column is null; cut says     *)
(* that rest_weight_gram is no longer null.                                *)
SlipRow == [status : SlipStatuses, service : BOOLEAN,
            worker : Workers \cup {NoWorker}, redoOf : Slips \cup {NoSlip},
            issued : Nat, used : Nat, tree : Nat, rest : Nat, cut : BOOLEAN]

NoRow == [status |-> "ABSENT", service |-> FALSE, worker |-> NoWorker,
          redoOf |-> NoSlip, issued |-> 0, used |-> 0, tree |-> 0, rest |-> 0,
          cut |-> FALSE]

IdleJob == [op |-> "idle"]
CreateJobs == [op : {"create"}, orders : (SUBSET Orders) \ {{}}, worker : Workers \cup {NoWorker}]
ResultJobs == [op : {"result"}, slip : Slips, used : Nat, tree : Nat]
Jobs == {IdleJob} \cup CreateJobs \cup ResultJobs

CastingTypeOK ==
    /\ TypeOK
    /\ slip \in [Slips -> SlipRow]
    /\ lines \subseteq Slips \X Orders
    /\ draws \in [Slips -> Nat]
    /\ blanks \in [Orders -> Nat]
    /\ blankGram \in [Orders -> Nat]
    /\ job \in [Keepers -> Jobs]

OrdersOn(s) == {o \in Orders : <<s, o>> \in lines}
OnSlip(o) == \E s \in Slips : o \in OrdersOn(s)

CastingInit ==
    /\ Init
    /\ slip = [s \in Slips |-> NoRow]
    /\ lines = {}
    /\ draws = [s \in Slips |-> 0]
    /\ blanks = [o \in Orders |-> 0]
    /\ blankGram = [o \in Orders |-> 0]
    /\ job = [k \in Keepers |-> IdleJob]

(* updateMany on the orders of a slip that are still in a given status.    *)
Move(os, from, to) ==
    status' = [o \in Orders |-> IF o \in os /\ status[o] \in from THEN to ELSE status[o]]

(* "moved.count !== ids.length" rolls the transaction back.                *)
AllAt(os, st) == \A o \in os : status[o] = st

(* updateMany WHERE id = s AND status = st hit its one row.                *)
AnyRow(s, st) == slip[s].status # "ABSENT"  \* fault variant: the status is not in the WHERE
Claims(s, st) == slip[s].status = st

DeskIdle == UNCHANGED <<hasMold, rejected, req>>
JobDone(k) == job' = [job EXCEPT ![k] = IdleJob]

JobFail(k) ==
    /\ job[k] # IdleJob
    /\ JobDone(k)
    /\ UNCHANGED <<status, hasMold, rejected, cutAt, req, slip, lines, draws, blanks, blankGram>>

-----------------------------------------------------------------------------
(* create: the checks on the orders run before the transaction.            *)
CreateSlipAsk(k) ==
    \E os \in (SUBSET Orders) \ {{}}, w \in Workers \cup {NoWorker} :
        /\ job[k] = IdleJob
        /\ \A o \in os : status[o] = "WAX_CONFIRMED" /\ ~OnSlip(o)
        /\ job' = [job EXCEPT ![k] = [op |-> "create", orders |-> os, worker |-> w]]
        /\ UNCHANGED <<status, hasMold, rejected, cutAt, req, slip, lines, draws, blanks, blankGram>>

(* The unique index on casting_slip_orders.order_id.                       *)
NoIndex(os) == TRUE                         \* fault variant
UniqueOrders(os) == \A o \in os : ~OnSlip(o)

(* The transaction only meets the unique index on order_id and the foreign *)
(* key; the statuses of the orders are not read again.                     *)
CreateSlipSave(k) ==
    LET j == job[k]
    IN  \E s \in Slips :
        /\ j.op = "create"
        /\ \A o \in j.orders : Exists(o)
        /\ UniqueOrders(j.orders)
        /\ slip[s].status = "ABSENT"
        /\ slip' = [slip EXCEPT ![s] = [NoRow EXCEPT !.status = "PENDING_ISSUE",
                        !.service = (j.worker = NoWorker), !.worker = j.worker]]
        /\ lines' = lines \cup ({s} \X j.orders)
        /\ JobDone(k) \/ job' = job
        /\ DeskIdle
        /\ UNCHANGED <<status, cutAt, draws, blanks, blankGram>>

(* remove: a slip whose metal has not been issued; its lines go with it.   *)
RemoveSlip(s) ==
    /\ Claims(s, "PENDING_ISSUE")
    /\ slip' = [slip EXCEPT ![s] = NoRow]
    /\ lines' = {l \in lines : l[1] # s}
    /\ DeskIdle
    /\ UNCHANGED <<status, cutAt, draws, blanks, blankGram, job>>

(* issue: claims the slip, draws the metal and needs every order of the    *)
(* slip to be at WAX_CONFIRMED, else the whole transaction rolls back.     *)
Issue(s) ==
    LET service == slip[s].service
        os == OrdersOn(s)
    IN  \E g \in Issued :
        /\ Claims(s, "PENDING_ISSUE")
        /\ AllAt(os, "WAX_CONFIRMED")
        /\ slip' = [slip EXCEPT ![s].status = IF service THEN "CASTING" ELSE "WAIT_CASTING",
                                ![s].issued = g]
        /\ draws' = [draws EXCEPT ![s] = @ + 1]
        /\ Move(os, {"WAX_CONFIRMED"}, IF service THEN "CASTING" ELSE "WAIT_CASTING")
        /\ DeskIdle
        /\ UNCHANGED <<cutAt, lines, blanks, blankGram, job>>

(* start: the assigned worker (or an admin for him) begins; the slip keeps *)
(* the worker it was assigned to.                                          *)
Start(s) ==
    /\ Claims(s, "WAIT_CASTING")
    /\ ~slip[s].service
    /\ slip' = [slip EXCEPT ![s].status = "CASTING"]
    /\ Move(OrdersOn(s), {"WAIT_CASTING"}, "CASTING")
    /\ DeskIdle
    /\ UNCHANGED <<cutAt, lines, draws, blanks, blankGram, job>>

-----------------------------------------------------------------------------
(* submitResult: the weights are compared with the issued grams read before *)
(* the transaction; nothing issued yet reads as 0 and skips the comparison.  *)
SubmitResultAsk(k) ==
    \E s \in Slips, u \in Used, t \in Trees :
        /\ job[k] = IdleJob
        /\ slip[s].status # "ABSENT"
        /\ slip[s].issued > 0 => u <= slip[s].issued
        /\ t <= u
        /\ job' = [job EXCEPT ![k] = [op |-> "result", slip |-> s, used |-> u, tree |-> t]]
        /\ UNCHANGED <<status, hasMold, rejected, cutAt, req, slip, lines, draws, blanks, blankGram>>

SubmitResultSave(k) ==
    LET s == job[k].slip
    IN  /\ job[k].op = "result"
        /\ Claims(s, "CASTING")
        /\ slip' = [slip EXCEPT ![s].status = "PENDING_CONFIRMATION",
                                ![s].used = job[k].used, ![s].tree = job[k].tree]
        /\ Move(OrdersOn(s), {"CASTING"}, "CAST_PENDING_CONFIRMATION")
        /\ JobDone(k) \/ job' = job
        /\ DeskIdle
        /\ UNCHANGED <<cutAt, lines, draws, blanks, blankGram>>

ApproveResult(s) ==
    /\ Claims(s, "PENDING_CONFIRMATION")
    /\ slip[s].tree > 0
    /\ slip' = [slip EXCEPT ![s].status = "DONE"]
    /\ Move(OrdersOn(s), {"CAST_PENDING_CONFIRMATION", "CASTING"}, "CAST_DONE")
    /\ DeskIdle
    /\ UNCHANGED <<cutAt, lines, draws, blanks, blankGram, job>>

(* Every redo hangs under the first slip of its family.                    *)
RootIsSelf(s) == s                          \* fault variant: chained redos
RootOf(s) == IF slip[s].redoOf = NoSlip THEN s ELSE slip[s].redoOf

(* deleteMany of the failed slip's lines, then the same lines on the redo.  *)
LinesCopied(s, n) == lines \cup ({n} \X OrdersOn(s))       \* fault variant
LinesMoved(s, n) == {l \in lines : l[1] # s} \cup ({n} \X OrdersOn(s))

(* rejectCastResult: fails the slip and gives its orders, the worker of the *)
(* root and the grams already issued to a new slip; no stock is drawn.      *)
RejectCastResult(s) ==
    LET root == slip[RootOf(s)]
        service == root.service \/ slip[s].service
        back == IF service THEN "CASTING" ELSE "WAIT_CASTING"
    IN  \E n \in Slips :
        /\ Claims(s, "PENDING_CONFIRMATION")
        /\ slip[n].status = "ABSENT"
        /\ slip' = [slip EXCEPT ![s].status = "CAST_FAILED",
                        ![n] = [NoRow EXCEPT !.status = back, !.service = service,
                            !.worker = IF service THEN NoWorker ELSE root.worker,
                            !.redoOf = RootOf(s), !.issued = root.issued]]
        /\ lines' = LinesMoved(s, n)
        /\ Move(OrdersOn(s), {"CAST_PENDING_CONFIRMATION"}, back)
        /\ DeskIdle
        /\ UNCHANGED <<cutAt, draws, blanks, blankGram, job>>

-----------------------------------------------------------------------------
(* cutMany: every slip of the request is cut, or none.  Each slip must be  *)
(* DONE and not cut before, all its orders CAST_DONE and not cut before,   *)
(* and what comes off the tree must not weigh more than the tree.          *)
WeighsMore(s, rest, blank) == TRUE          \* fault variant: the sum is not checked
FitsTree(s, rest, blank) ==
    rest + SumFunctionOnSet(blank, OrdersOn(s)) <= slip[s].tree

CutMany(ss) ==
    LET os == UNION {OrdersOn(s) : s \in ss}
    IN  \E rest \in [ss -> Rests], blank \in [os -> Blanks] :
        /\ \A s \in ss :
            /\ Claims(s, "DONE")
            /\ ~slip[s].cut
            /\ slip[s].tree > 0
            /\ FitsTree(s, rest[s], blank)
        /\ AllAt(os, "CAST_DONE")
        /\ \A o \in os : ~cutAt[o]
        /\ slip' = [s \in Slips |-> IF s \in ss
                        THEN [slip[s] EXCEPT !.cut = TRUE, !.rest = rest[s]]
                        ELSE slip[s]]
        /\ Move(os, {"CAST_DONE"}, "WAIT_FILING")
        /\ cutAt' = [o \in Orders |-> cutAt[o] \/ o \in os]
        /\ blanks' = [o \in Orders |-> IF o \in os THEN blanks[o] + 1 ELSE blanks[o]]
        /\ blankGram' = [o \in Orders |-> IF o \in os THEN blank[o] ELSE blankGram[o]]
        /\ DeskIdle
        /\ UNCHANGED <<lines, draws, job>>

-----------------------------------------------------------------------------
(* A delete of an order with a slip line breaks the foreign key (RESTRICT). *)
FreeDeletes(c) == Deletes(c) /\ \A o \in req[c].orders : ~OnSlip(o)

CastingStep ==
    \/ \E k \in Keepers :
        \/ CreateSlipAsk(k) \/ CreateSlipSave(k)
        \/ SubmitResultAsk(k) \/ SubmitResultSave(k)
        \/ JobFail(k)
    \/ \E s \in Slips :
        \/ RemoveSlip(s) \/ Issue(s) \/ Start(s)
        \/ ApproveResult(s) \/ RejectCastResult(s)
    \/ \E ss \in (SUBSET Slips) \ {{}} : CutMany(ss)

IntakeStep ==
    /\ \/ \E o \in Orders : Create(o)
       \/ \E c \in Clients : Asks(c) \/ Saves(c) \/ FreeDeletes(c) \/ Fail(c)
    /\ UNCHANGED casting

CastingNext == IntakeStep \/ CastingStep

CastingSpec == CastingInit /\ [][CastingNext]_vars

-----------------------------------------------------------------------------
(* An order lies on at most one slip, and a slip that failed or is gone    *)
(* holds no order.                                                         *)
OneSlipPerOrder ==
    \A s \in Slips : \A o \in OrdersOn(s) :
        /\ slip[s].status \notin {"ABSENT", "CAST_FAILED"}
        /\ \A t \in Slips \ {s} : o \notin OrdersOn(t)

(* However the desks' stale writes interleave with the slips, an order that *)
(* says it waits for casting, waits for confirmation or is cast lies on a   *)
(* slip in exactly that state: no order is "cast" that no slip has cast.    *)
BackedBySlip(o, st, slipSt) ==
    status[o] = st => \E s \in Slips : o \in OrdersOn(s) /\ slip[s].status = slipSt

CastingStatusBacked ==
    \A o \in Orders :
        /\ BackedBySlip(o, "WAIT_CASTING", "WAIT_CASTING")
        /\ BackedBySlip(o, "CAST_PENDING_CONFIRMATION", "PENDING_CONFIRMATION")
        /\ BackedBySlip(o, "CAST_DONE", "DONE")

(* The orders of a slip are cut together or not at all, an order is cut     *)
(* once and puts one lot of blanks into stock.                              *)
CutTogetherOnce ==
    /\ \A s \in Slips : \A o \in OrdersOn(s) : cutAt[o] = slip[s].cut
    /\ \A o \in Orders :
        /\ cutAt[o] => OnSlip(o)
        /\ blanks[o] = IF cutAt[o] THEN 1 ELSE 0

(* The metal of a batch leaves the stock once: with the issue of its first  *)
(* slip, however often the cast is redone.                                  *)
MetalDrawnOnce ==
    \A s \in Slips :
        draws[s] = IF slip[s].redoOf = NoSlip
                      /\ slip[s].status \notin {"ABSENT", "PENDING_ISSUE"} THEN 1 ELSE 0

(* The redos of a slip hang under it directly, keep its worker and its      *)
(* grams, and never are two slips of one family alive.                      *)
RedoFamily ==
    \A s, t \in Slips :
        slip[s].redoOf # NoSlip =>
            LET r == slip[s].redoOf
            IN  /\ slip[r].redoOf = NoSlip
                /\ slip[r].status = "CAST_FAILED"
                /\ slip[s].worker = slip[r].worker
                /\ slip[s].issued = slip[r].issued
                /\ (slip[t].redoOf = r /\ t # s) =>
                       "CAST_FAILED" \in {slip[s].status, slip[t].status}

(* Metal is lost on the way, never gained: tree <= used, and blanks + rest  *)
(* <= tree.                                                                 *)
NoMetalGained ==
    \A s \in Slips :
        /\ slip[s].tree <= slip[s].used
        /\ slip[s].cut =>
              slip[s].rest + SumFunctionOnSet(blankGram, OrdersOn(s)) <= slip[s].tree

(* A slip is never taken back: DONE and CAST_FAILED are final, a slip whose  *)
(* metal was issued does not return to PENDING_ISSUE and is not removed,     *)
(* and what has been cut stays cut with the same weights.                    *)
Rank(st) == CASE st \in {"ABSENT", "PENDING_ISSUE"} -> 0 [] st = "WAIT_CASTING" -> 1
              [] st = "CASTING" -> 2 [] st = "PENDING_CONFIRMATION" -> 3
              [] st \in {"DONE", "CAST_FAILED"} -> 4

SlipNeverTakenBack ==
    [][\A s \in Slips :
        /\ Rank(slip'[s].status) >= Rank(slip[s].status)
        /\ slip[s].status \in {"DONE", "CAST_FAILED"} => slip'[s].status = slip[s].status
        /\ slip[s].cut => slip'[s] = slip[s]]_vars

-----------------------------------------------------------------------------
(* The batch of a first slip: its family's live slip tells how far it is.   *)
Family(r) == {s \in Slips : s = r \/ slip[s].redoOf = r}
Alive(r) == {s \in Family(r) : slip[s].status # "CAST_FAILED"}
BatchPhase(r) ==
    IF slip[r].redoOf # NoSlip \/ slip[r].status = "ABSENT" THEN "none"
    ELSE IF slip[r].status = "PENDING_ISSUE" THEN "planned"
    ELSE IF \E s \in Alive(r) : slip[s].cut THEN "cut"
    ELSE IF \E s \in Alive(r) : slip[s].status = "DONE" THEN "cast" ELSE "issued"
BatchMembers(r) ==
    IF slip[r].redoOf # NoSlip THEN {} ELSE UNION {OrdersOn(s) : s \in Alive(r)}

Batch == INSTANCE CastingBatch WITH
    Batches <- Slips,
    phase <- [r \in Slips |-> BatchPhase(r)],
    members <- [r \in Slips |-> BatchMembers(r)],
    drawn <- {r \in Slips : draws[r] > 0},
    blanked <- {o \in Orders : blanks[o] > 0}

(* The slips implement the batches.                                         *)
ImplementsBatch == Batch!Spec

-----------------------------------------------------------------------------
=============================================================================
