# Enshido: the order flow, model-checked and proved

TLA+ for the backend of a silver workshop (NestJS, Prisma, PostgreSQL): an order is
entered, gets a 3D model and wax, is cast together with other orders, cut off the tree,
worked through stages, stocked and shipped. The code is a set of HTTP services that share
one database. Nearly nothing else is shared between requests, so what can go wrong
between two of them goes wrong in the rows: a handler reads, decides, and writes later
what was true when it read. That is what these modules are about, together with the figures
(grams, stones, prices) that must add up over many such steps.

## 1. Inventory

| component (under `src/src/`) | state | operations that change it | talks to | modules |
|---|---|---|---|---|
| Intake orders `intake-orders/` | `production_orders`: status, has_mold, rejected_at, images, specs | create, update, approve, reject, attachModel3d, submitProductSpecs, submitWaxPrintBatch, waxPrintBatch, confirmWarehouseSpecs, submitCastingTreeSpecs, remove | the same row as every service below | `IntakeOrders` |
| Casting slips `casting-slips/` | `casting_slips`, `casting_slip_orders`, weights, images | create, remove, issue, start, submitResult, approveResult, rejectCastResult, cutMany/confirm, markPrinted | order status and cut_at; inventory in the same transaction | `CastingSlips`, `CastingBatch` |
| Production orders, office `production-orders.service.ts` | status, receipts, notes, logs | create, update, remove, changeStatus, updateCasting, returnStage, finish, undoFinish, undoReturn | any order; only `returnStage` looks whether the row changed | `IntakeOrders`, `FinishedGoods`, `StageFlow` |
| Stages and sub-tickets `production-sub-tickets.service.ts`, `order-detail.ts`, `stage-math.ts`, `production-overview.ts` | pending stage, claim, stage entries, sub-tickets, outcomes | split, open, take, assign, accept, submit, QC, keeper confirmation, rework, outcome | row lock on the order; stone holds; receipt | `StageFlow`, `StageWeights` |
| Stone holds and material requests `stone-holds.ts`, `production-material-requests.service.ts` | holds, outbound drafts, requests | hold, release, early return, consume, request, issue, reject, cancel | inventory balances | `StoneStock`, `StonePromise` |
| Inventory `inventory/` | inbounds, outbounds, drafts, `stock_balances` | create/update/delete inbound and outbound, transfers, automatic rows, price layers, availability | locks the balance row | `StoneStock`, `PriceLayers` |
| Finished goods `finished-goods/` | receipts (qty, stockedQty), shipments, lines | receipts: create, receive, update, delete; shipments: create, update, remove, approve | order status and returnedQty | `FinishedGoods` |
| Loss reports `loss-reports/` | none of its own | sums over closed stages | stage entries, scrap | `StageWeights` |
| Sessions `auth/`, `users/` | refresh tokens, in-memory session cache | login, refresh, logout, lock, validate, bust | users | `Sessions`, `ReadCache` |
| Infrastructure `prisma/`, `util/` | transaction retries, TTL and in-flight caches, query pool | runTx, InflightMap.run, poolAll | everything | `IntakeOrders`, `ReadCache`, `QueryPool` |
| Order codes, costing, catalogs, locations, workflow, edit log, uploads, BTP list, legacy casting orders | reference data and reports | row edits, read-only sums | little or nothing | none |

### What is hard here

* **Read, then write by id.** Most office endpoints check the row with a plain query and
  update it by primary key in a later transaction. Any other request may come between.
* **Claims.** The casting department instead updates `WHERE id = .. AND status = ..` and
  stops unless one row was hit. Everything the transaction does hangs on that claim.
* **Locks.** The stages lock the order row (`mutate`), the stock locks the balance row, each only on
  some of its paths; what is read without the lock may be old.
* **Retries.** `PrismaService.runTx` runs the whole function again when the connection
  drops, also when only the acknowledgement of a successful commit was lost.
* **All or nothing over several rows.** One slip holds many orders, one cut takes many slips,
  one issue draws several materials, one transfer writes two warehouses.
* **Promises.** Stones are held for a ticket long before they leave the store, and change hands
  five times before they do.
* **Figures.** Grams and stones are weighed and counted by different people, rounded, corrected
  and summed up again in the report; prices are rebuilt from rows that may be entered late.
* **Two owners of one status.** Office endpoints may rewrite the status of an order that
  the casting department has reserved or the workshop works on.

`PROJECT.json` lists each of them under `hazards`, at its line, with the property that
would catch it going wrong or the reason none does.

### What makes each component correct

* Intake: a rejection is not overruled by accident; `has_mold` decides whether wax is printed
  or injected.
* Casting: an order is on one slip; an order is "cast" only if its slip is; a slip's orders
  are cut together and once; metal leaves the stock once per batch, however often the cast
  is redone; metal is lost on the way, never gained; a slip is never taken back.
* Stages: a sheet is in one hand at a time and on the list of whoever must act next; the order
  shows where its pieces are; tickets never exceed the order; what the keeper confirmed stays;
  the receipt is the sum of the passed tickets and the store holds what the next stage takes.
* Stone and stock: what is promised is in the store; a promise has one draft, one hold and somebody who will
  end it; what is consumed is what was used; a transfer has two equal sides; the ledger is the sum of the rows.
* Figures: no loss is negative, silver and stones balance over the whole course, the report agrees with
  the stages, closed figures are final, and the price layers hold exactly the stock.
* Finished goods: stocked never exceeds finished, shipped never exceeds stocked, `returned_qty` is
  the sum of the approved lines, an approved shipment is not rewritten, the order says
  "finished" when the keeper has taken everything in, and shipping a part does not stop the rest.
* Service: an edit of a user takes hold, everybody who waits for a read is answered, a page is built
  from all of its queries, and a token is left behind only by requests that overlap.

## 2. Modules

| module | models | proofs |
|---|---|---|
| `IntakeOrders` | the order row from the form to "wax confirmed", and the three office endpoints that write any order | `CastingSlips_proofs` |
| `CastingSlips` | extends `IntakeOrders` with slips, lines, weighings, blanks | `CastingSlips_proofs` |
| `CastingBatch` | abstract: a batch is planned, issued once, cast, cut once | `CastingSlips_proofs` (`ImplementsBatch`) |
| `StageFlow` | one order through the five stages, on its own sheet or divided into tickets; who is offered what; the status derived from it | `StageFlow_proofs`, `StageLists_proofs` |
| `StageWeights` | the grams and stones of one ticket through its stages, and the loss report | `Figures_proofs` |
| `StoneStock` | the stock's rows, ledger and drafts, and the stones held for stone setting | `StoneStock_proofs` |
| `StonePromise` | abstract: stock that is promised, given back or used | `StoneStock_proofs` (`StoreKeepsPromises`) |
| `PriceLayers` | the price layers of one material and what an issue is quoted | `Figures_proofs` |
| `FinishedGoods` | receipts, shipments, approval, and what production and office do to receipts | `FinishedGoods_proofs` |
| `ReadCache`, `Sessions`, `QueryPool` | what the API process and the browser keep | `Service_proofs` |
| `Figures` | sums over sequences, rounding and lesser of two, for `StageWeights` and `PriceLayers` | |
| `SumLemmas` | what a sum over a finite set does when one term changes, is added, left out or shared; models nothing | itself |
| `MC...` | symmetry sets and values of the TLC instances; `MCFigures` and `MCService` put machines that share no state into one run, of which a behaviour follows one | |

### How the state corresponds

`status`, `hasMold`, `rejected`, `cutAt` are the columns `status`, `has_mold`,
`rejected_at is not null`, `cut_at is not null` of `production_orders`; a row that does not
exist yet is `"ABSENT"`, one deleted is `"DELETED"`.

In the casting modules, `slip` is `casting_slips` (a null weight
is 0), `lines` the table `casting_slip_orders`. `draws` and `blanks` count what the transactions
do to the material stock and to the semi-finished stock; they exist so that "once" can be
said. `req` and `job` are the requests in flight: what a handler has read and not yet written.

In `StageFlow`, `order` is the order row with what hangs on it: `sheet[h]` is a sub-ticket, or for `Parent` the
order's own pending stage, and `work[h]` its `production_stage_entries`, oldest first. A stage is a number, a
status within the stages its rank in `STATUS_RANK` (2s-1 waits for s, 2s is in it). `blanks` and `btp` count the semi-finished
pieces of the order in the store, `order.receipt` the finished-goods receipt.

In `StageWeights`, `entries` are the same entries with their figures, `bags` the stone holds of the ticket, `stock` what
recovered silver and scrap the store has taken in. In `StoneStock`, `row` holds inbound and outbound rows of both
kinds under one id, `ledger` is `stock_balances.qty`, `draft`, `hold` and `wish` are the outbound drafts, holds and material
requests, `ticket` where a sub-ticket stands in stone setting; a transaction in flight keeps its rows in `req` until
it commits. In `PriceLayers` the rows are sequences in the order of entry, in which a deleted row leaves a gap (`Gone`); `tidy` is history.

In `FinishedGoods`, `ostatus` and `returned` are `production_orders.status` and `returned_qty`; `WORK` stands for
every status before `PLATED`, which this component never tells apart. `tickets` counts the sub-tickets closed as
passed and as failed. `receipt` is the one `finished_goods_receipts` row an order may have; its `id`
distinguishes a receipt from one created after it was deleted, so that an update by the id of a
deleted receipt fails as it does in the database. `ship` holds the shipments with, for each
order, the pieces on their lines; a removed shipment is `"GONE"` and its code is not used again.

In `ReadCache`, `cache` is `TtlCache` with the ticks an entry has left and `load` is `InflightMap`; in `Sessions`, `tokens` is the
table `refresh_tokens`, `cookie` the browser's, `tab` the request of each tab, and `excuses` is history.

The modules of the flow share no variable: an order leaves `CastingSlips` at `WAIT_FILING`, passes `StageFlow`, and reaches
`FinishedGoods` with its receipt. Where two meet, each carries the other's part: `StageFlow` the keeper who
takes in the receipt, `FinishedGoods` the tickets that close, `StoneStock` the phases of a ticket.

### How the actions correspond

* A handler that reads and then writes by id is two actions, `XxxAsk` (read and checks) and
  `XxxSave` (write). Between them all other actions run. Fields the request computes from its
  read travel in the request (`SubmitProductSpecsAsk` chooses the next status there).
* A transaction whose first write is a conditional claim is one action (`Issue`, `Start`,
  `ApproveResult`, `RejectCastResult`, `CutMany`, `RemoveSlip`). PostgreSQL re-evaluates the condition
  on the locked row, so a concurrent transaction either sees the claim or makes it fail;
  what these handlers read before the claim (lines, worker, service flag) cannot change while
  the slip has the claimed status. A failed claim or a wrong row count rolls back, which is
  the action not happening.
* An endpoint of the sub-ticket service runs in `mutate`, under the lock of the order row from its first read: one action
  (`StageFlow`). `returnStage` reads before and refuses in its transaction if the row's `dataChangedAt` moved
  (`Unchanged`, kept as a `fresh` mark that every write of the row clears); it and `undoReturn` write the derived status
  after the transaction (`StatusSave`).
* A stock movement is three actions: the rows written and the balance row locked where the code locks it, `Recompute` (the
  snapshot of the sums) and `Commit`; `Fail` is a rollback at either point. A stone-setting step holds the order row all the while (`OrderFree`).
* A shipment's transaction has its reads and its writes apart: `XxxRead` stands for all of its reads, `XxxSave`
  for its writes, which others see at the commit. The row lock it takes by writing the shipment is
  `ShipUnlocked`; approval claims with `pending_approval` in the WHERE, the others by id. The order row
  that `mutate` selects FOR UPDATE is held from `AskTicket` to `SyncOrderSave`, and every other write of that row
  waits (`Unlocked`); plain reads, and writes of the receipt alone, do not wait.
* `syncFinishedStatus` runs after the receipt was committed: `SyncAsk`, `SyncSave`. With `MayDie` a request may stop
  before them.
* `CommitOrRetry`, and `JobDone(k) \/ job' = job`, are `runTx`: after its effect a request may be
  done or may run again. The code stops after three attempts, the model does not.
* `Fail`, `JobFail`: a request that errs writes nothing.
* A delete of an order meets the foreign key of its slip line (`FreeDeletes`).
* In the API process everything between two awaits is one action; the two halves of a `Promise.all` are two
  (`IssueTokens`, `RevokeOld`), and what is fired with `void` runs later or is lost with a restart (`Sweep`, `Restart`).

### What is abstracted

Weights are small sets of grams; only sums, comparisons and rounding matter. In the casting modules issued metal is one number:
the gold column is left out, it takes part in no comparison. Wax weights, names, images, permissions and
the presence checks on form fields are left out. A slip's random code and its collision
retries are left out (outside the transaction they have no effect; see `hazards` for the one that
is inside). Users are ids: that a worker may lose his right to cast is not modelled.

In `StageFlow` a stage has no weight and a worker no name: `claimed` says that one is named. The two stages a run opens stand for the
kinds the code tells apart, one the keeper confirms and one workers take themselves. In `StageWeights` weights are whole units of the
scale and a division rounds half up to such a unit, where the code, for what is sold by weight, keeps the fraction; every step is atomic, for
`StageFlow` has the races. In `StoneStock` only quantities matter; each material has its warehouse, price is `PriceLayers`' part, and
the rows of half-finished goods are `StageFlow`'s counts. In `PriceLayers` a layer is one receipt, and which lies under which is a relation (`Older`: by date, then by
entry) where the code sorts; the code also joins neighbours of one price and drops emptied layers, which moves neither pieces nor their price.

In `FinishedGoods`: prices, costs, names and the printing of a shipment are left out, and the check
that an invoice is complete before approval with them. A sub-ticket is one piece. `finish` chooses any number of good pieces.
Shipments that an order used to issue by itself (`autoIssued`) cannot arise any more, because no endpoint fills
`source_order_code`. Two rewrites of one shipment at the same moment are taken one after the other.

In the service modules: a row is one of three values, one of them a locked user; the time to live is a few ticks; passwords, signatures and the
access token are left out.

## 3. Runs

| run | instance | question |
|---|---|---|
| `casting` | 2 orders, 3 slips, 2 casting requests, 2 workers, 1 office request of three endpoints | reservation, claims, redo families, cutting, refinement of `CastingBatch` |
| `desks` | 1 order, 2 slips, 2 office requests with all endpoints, 1 casting request, several weights | stale office writes against the casting department; weighings |
| `one_desk` | 3 orders, 1 office request with all endpoints and retries | the intake rules when requests do not overlap |
| `goods_desks` | 1 order, 2 shipments, 1 request each of keeper, shipper and production | every interleaving of the three desks, requests that stop halfway included |
| `goods_one` | 2 orders, one of them with 2 sub-tickets, 2 shipments, 1 request at a time | the rules of the store when requests do not overlap |
| `partial` (violation) | 1 order of 2 sub-tickets, 1 request at a time | a part of an order is shipped while the rest is in production |
| `stone` | 1 stone, 2 tickets, 2 holds, 1 request for more, 1 further row, 2 transactions at a time | promises against stock, both sides of a reservation, refinement of `StonePromise` |
| `stock_one` | 2 materials, 2 rows, 1 ticket, 1 transaction at a time, every correction, the office moving the order | ledger against rows; transfers |
| `stages` | 2 pieces, undivided or in 2 tickets, through filing and polishing and on to plating, with corrections; a request runs to its end | one hand at a time, the lists, the status, the pieces |
| `stage_race` | 3 pieces, 3 tickets, filing, 1 office request between any two steps (`Skips = FALSE`: the stone stage is not struck off here, `stages` does it) | division of the order and the keeper's word against stale returns |
| `figures` | one ticket of 2 pieces, two routes, 2 bags, early return, one correction; or one material with an opening stock of 0 or 3, 2 receipts of 1 or 2 and 2 issues of 2, on 2 days, each corrected and deleted at will | all balances of grams, stones and prices |
| `service` | 2 callers on 2 keys with an admin editing; 2 tabs, 3 tokens, 2 excuses; 5 queries, 3 at a time | liveness of waiters and of edits; strays; the pool |

Why the bounds are enough to meet the cases: two orders make a slip with more than one line, two
slips that want the same order, and a cut over several slips; three slips make a slip, its
redo and the redo's redo, or a rival slip; two requests are what every race in this code
takes. One order suffices in `desks`, because office endpoints act on one order (the print
batch is met with three orders in `one_desk`); two trees and two blank weights make the cut both fit
and not fit.
Two holds of two tickets on one stone compete for a stock of two, of which one more row takes
away; in `stock_one` two rows are a transfer with both its sides. Two pieces make a stage return all, some or none, and two tickets make
one run ahead of the other; three pieces are the fewest that tickets can share unevenly, and the third ticket of `stage_race` is the one that could exceed the order after a defect; two entries on a
sheet (`MaxEntries`) are a stage and the next, or the same stage twice.
Two bags are the smallest number over which a weight is spread, three pieces in a bag let a
rounded share go either way, and one correction meets every figure already written. Two receipts and two issues are a layer partly used, one used
up, one back-dated and an issue corrected before a later one.
Two callers are one who loads and one who joins; three tokens are one held, one made and one astray, and a
token is used again when nobody holds it. Five queries over three workers leave some to be fetched late.
In `FinishedGoods`, two pieces let a receipt be half
taken in, half shipped and half approved; two shipments are a sum with two terms; two receipts per order
(`MaxReceipts`) let a receipt be deleted and made again under a request in flight.
Ids are interchangeable, hence `SYMMETRY` (never where liveness is checked).
`CHECK_DEADLOCK FALSE`: an instance really stops when its slips, rows or stages are used up, and a pool when it is done.

### Fairness

Only `service` assumes any: the database answers or fails a query it was asked (`Read \/ LoadFails`, `TaskDone \/ TaskFails`), the
event loop runs what is ready (`Settle`, `Close`), a writer that has committed reaches its next line (`Bust`), and
time passes (`Tick`). Under it whoever waits for a shared read is answered (`EveryoneIsAnswered`), and once nobody edits a row any more
every answer is, from some moment on, that row (`EditsTakeHold`): `bustSession` alone does not do it, because a load begun before
the edit may put the old row back; the entry's time to live does. Everywhere else a step is a person pressing a button, and nothing in the code makes
a keeper confirm, so no liveness is claimed there; what is claimed instead is that whoever must act next finds the work on his list (`ListsTellTruth`).

### What the violation shows, and what the code does not promise

* `partial`: the receipt of a divided order holds the tickets passed so far. Shipping them makes shipped
  equal to the receipt, the order `DELIVERED`, and `assertOrderActive` then refuses the open tickets every
  further stage. No overlap is needed.

The hypotheses of the runs are needed. Larger instances, kept out of the runs because no document promises anything there, give:

* two office requests: `approve` overwrites a rejection answered after its read (`RejectionStands` fails);
* two keepers of the finished goods: one writes a stocked number over another's corrected count (`StockedWithinQty` fails);
* two shippers: two approvals each sum without the other (`ReturnedIsSum`), an update overtakes an approval
  (`ApprovedIsFrozen`), two shipments find the same pieces (`ShippedWithinStocked`);
* two stock transactions that do not lock the balance row first: the later one's sums are older than the lock it waited for,
  and the ledger misses a row until the next movement of the material (`LedgerAgrees`);
* `Office = TRUE`: changeStatus, remove and clearSplit leave the outbound drafts of a ticket's stones open (`HoldsBacked`).

Modelling also met these, which are properties of no run:

* a ticket at filing, stone setting or engraving whose worker gave it back (`Unclaim`) is on no worker's list until the office names another, hence the
  exception for waiting tickets in `OnOneList`;
* the overview counts a ticket with the pieces it lost, and its replacement as well;
* an order made to rework a defect (`createRework`) and a new ticket may both make up for the same pieces;
* undoReturn leaves `confirmed_at` of the entry as it was;
* a bag returned early keeps its quantity and its weight only approximately in step, and one struck off may leave up to half a stone's weight
  unaccounted (`EmptiedBagWeighsLittle`); a bag that comes back whole counts as unused even if QC counted fewer stones in it;
* a back-dated receipt, a receipt priced at the price of stock, or a correction of an earlier issue leaves the balance with a value that no
  layer has (the hypothesis `tidy` of `ValueKept`); deleting a receipt counts receipts that never applied to the stock;
* a login over a live session does not revoke it, overlapping refreshes leave a live token behind, and a refresh whose row the sweep took
  fails although its new token exists; each is one of the `excuses`. After a failed query the other workers of a pool go on.

## 4. Proofs

All for every set of orders, slips, tickets, rows, workers, requests and quantities.

* `IntakeTypeCorrect`: types of the office half (its theorems stand in `CastingSlips_proofs`, which needs them).
* `OneDeskRejectionStands`, `OneDeskMoldDecides`: with `OneDesk` (at most one client) the two intake
  rules hold. Their inductive invariant `DeskInv` says of the request in hand what its read
  established and its own retry keeps (`InHand`).
* `CastingTypeCorrect`, `OneSlipPerOrderHolds`, `CastingStatusIsBacked`, `OrdersAreCutTogetherOnce`,
  `MetalIsDrawnOnce`, `RedosFormFamilies`: with any number of concurrent requests.

The casting invariant is `IInv` in `CastingSlips_proofs`. The five properties are not inductive one
by one: that a cut is done once needs that lines of a live slip do not overlap, which needs that a
failed slip has none, which needs that a redo moves the lines of a slip that was not cut, and so
on. `SlipShape` says what each slip status implies for its own row, `Kin` what
redos share with their root. `SlipStep` abstracts what any action may do to the slips; `SlipStepInv`
shows once that such a step keeps the slip half, so each action's lemma only shows that it is
one. The office half enters through one fact: every status an office endpoint writes lies outside the
three statuses a slip backs, so no stale write can fake a cast.

* `SlipsAreNeverTakenBack`: the statuses of a slip have ranks that no action lowers (`GoesOn`), a final status and a cut
  row stay; `SlipShape` of `IInv` says that only a finished slip is cut.
* `SlipsImplementBatches`: the casting department refines `CastingBatch`. From `IInv`, the one
  slip of a family that has not failed tells phase and members of its batch (`Speaks`), and a redo has none of
  its own (`Silent`). So an action that changes one such slip is one action of the batch, one that changes none is a
  stutter (`BatchStays`), a rejection passes the voice from the failed slip to its redo, and a cut of several slips is
  one cut of their batches.
* `ConfirmedResultsStay` (`StageFlow_proofs`): for any number of tickets, pieces, hand-overs and requests in flight,
  disturbed or not (`Alone` either way). `FlowInv` carries, besides the types of rows and tickets (`Proper`), that what the keeper
  confirmed had come back (`CameBack`), and what each request in flight knows of its entry (`Knows`): a return with a
  fresh copy, that it is not confirmed; an undo, that no keeper ever confirms it. `RequestsGo` shows once that a step under the
  lock of the order row keeps that, because it takes the freshness of every copy away; each action's lemma then says only
  which entries it changed (`Follows`).

* `TransfersStayWhole`: with any number of transactions at once. `RowInv` says of each transaction in flight that the rows it will
  write are paired among themselves and with what they replace (`GoodRows`), and of two transactions that they write different rows: then a commit
  keeps every pair whole. `MovementsStart` shows that each desk operation begins such a transaction.
* `HoldsStayBacked`: with `Office = FALSE`. `HoldInv` says of every hold what its state implies for draft, row, ticket and request
  (`HoldGood`, `HoldOwned`), that at most one request holds the order row (`Busy`), and that what this request saw is still so (`Asked`,
  `Confirming`): it is the lock, not the transaction, that makes reserving and consuming safe.
* `PoolIsWhole`: every task below `next` is done or in the hands of one worker, for every number of queries and every limit.
* `CacheTypeCorrect`, `SessionsTypeCorrect`: types of the cached reads and of a browser's tokens.
* `StraysAreExplained`: for any number of tabs and tokens. A token is astray only once the last request that knew it is gone, so `StrayInv` counts
  it before: live tokens that are in no cookie and that no request will end (`Abandoned`), one for each request in flight, and one more (`Debt`) while
  the cookie's token may be overwritten (`Exposed`), a request carries an open token the cookie has left (`LeftBehind`), or a refresh found its
  token ended by a request already answered (`Doomed` without `Killers`). Each answer may leave one token behind only where that one
  was owed. A restart leaves up to two tokens for each request it cuts off: one is counted already, the other is its excuse.
* `GoodsTypeCorrect`: types of the store. The counts of closed tickets stay natural numbers only because the order
  row is locked, so the invariant `TInv` carries `TicketLock`: one ticket of an order in hand at a time, and the outcome
  being taken back is there.
* `OneKeeperStocksWithinQty`: one keeper's request at a time (`OneKeeper`) and no divided orders (`NoTickets`), any number of
  shippers and planners. `KeeperInHand` says of the request in hand that what it will write as stocked fits the
  qty it writes or, while the receipt it read is still the order's, the qty that is there; only keepers change a qty in place. With tickets the
  hypothesis would be too weak: `syncOrder` rewrites qty as well.
* `OneShipperReturnedIsSum`, `OneShipperApprovedIsFrozen`: one shipper's request at a time (`OneShipper`), any number of
  keepers and planners. `ShipperInHand` says that the plan in hand holds, for every order, the sum its shipments will
  have after the write (`PlanSums`, `LinesAfter`): nobody else writes shipments or `returned_qty`.

The sums. Stock, promises, metal, shipped pieces and the receipt are sums over a finite set, folded in an order the definition leaves
open, so nothing about them can be computed. `SumLemmas` proves what the invariants need of them from one induction,
`OneByOne`: a family of sets that contains T as soon as it contains T without each of its members contains every finite set (the
strict-subset ordering of a finite set is well-founded). From it the fold is shown to be the same whatever member it takes
first, and then: a sum changes by what one term changes (`SumOneChanges`), splits over two parts (`SumOfParts`), keeps order
(`SumNotMore`), and counts equal shares (`SumOfShares`). No property of a fold is assumed.

* `MetalIsNeverGained` (`CastingSlips_proofs`): `IInv` and `ResultsWeigh`, that a result in flight was compared with what was drawn. A cut gives
  each order one weight of blanks; the guard of `CutMany` bounds the sum by the tree weighed at the result, which no later action touches.
* `OneAtATimeShipsStocked`, `OneAtATimeStatusRight`: one request of the store at a time (`OneAtATime`), the latter with requests that run to their end
  (`MayDie = FALSE`). `OInv` says what the request in hand found and is still so (`OrderInHand`), that its lines fit with all other shipments into
  what is stocked (`Room`), and that a status is right but for the order whose synchronisation is under way (`StatusKept`). An order nobody
  made has neither receipt nor lines (`UnknownIsEmpty`): without it a status write could not be followed.
* `StoneTypeCorrect`: no hypothesis. That a return, a split or a consumption leaves no negative quantity depends on which hold the request looks at, so
  `PlaceInv` ties the phase of a ticket, the state of a hold and the request that has the order row.
* `OneDeskLedgerAgrees`: one stock transaction at a time. `LedgerInv` also says of a transaction that has taken its sums that they are the sums of the
  rows as they will be after its commit.
* `HeldStaysWithinStock`, `StoreKeepsPromises`: any number of desks at once, with `Office = FALSE` and `Corrections = FALSE`. `StockInv` says that no two
  transactions lock one balance, and that the one which takes from a stone has its balance locked and takes what is free (`Covers`). Each step then
  changes stock and promises of a stone in one of the ways `StonePromise` allows (`Moves`), and one that leaves less free has
  the lock (`Frees`). `Corrections` stands for edits, deletions and transfers reversed of rows already booked: those look at the stock and not
  at the promises. `UpdateOutbound` is in both settings, but a row of a transfer is rewritten only with `Corrections`.
* `StageTypeCorrect`, `NoPieceIsLost`: no hypothesis, requests in flight and corrections included. `CoreInv` has the types of rows and requests (`Brings`), that a
  ticket not issued has no entries and a divided order none of its own (`Whole`), that what no keeper confirms is confirmed when it is back (`Sane`), and that
  the receipt is the sum of the tickets (`SumReceipt`): `syncOrder` sums anew, and the steps that do not call it change no passed ticket. `StoreInv` has
  `BtpCovers`: a hand-over draws exactly what its own sheet stored, which leaves the sum over the others covered. In `StageTypeOK` the receipt and the store of half-finished pieces are
  natural numbers without a bound: a sheet may be filed a second time, which stores its pieces again.
* `OneHandAtATime`: hypothesis `Alone \/ ~Corrections`. `TidyInv` says of each sheet that all entries but the last are back and confirmed and that nothing is opened
  beside one that is not (`OneHand`), that a closed ticket is settled (`Settled`), and of an undo in flight that what it saw still holds (`UndoSeen`).
  The hypothesis is needed: undoReturn reads before its transaction and compares nothing in it, so beside a worker who takes the next stage it leaves
  two hand-overs out; TLC shows it at once with `Alone = FALSE`, `Corrections = TRUE`.
* `DividedWithinOrder`: hypothesis `~Corrections`, requests in flight as they like. All but three actions let a ticket stand for no more pieces than before
  (`Lessens`: its quantity stays, a defect confirmed stays confirmed). `split` and `create` check the total; `update` deals the whole order out again, and that the
  even shares and the remainder add up to it is `SharedEvenly`. The hypothesis is needed: `clearOutcome` takes a ticket out of "defect" without asking
  for the total, and gives back pieces that a new ticket has got meanwhile. Two tickets, one failed, one made for its pieces, and the failed one
  reopened do it, without any overlap (`TicketsWithinOrder` on `stage_race` with `Corrections = TRUE`).

* `WorkStaysVisible`, `ListsAreTrue` (`StageLists_proofs`): hypothesis `Alone`. `ShowInv` says that the status, or the one a request still has to write,
  is that of what is out (`Placed`): a locked step derives it anew, and what a request reopens is where its read saw it. `ListInv` says that a parent closed by
  its receipt has nothing going on (`Closed`), that what is prepared for the worker named is there (`Offers`), and what the read of an undo or a
  finish saw of both (`ListsSeen`). With `TidyInv`, a sheet with something out has one open or unconfirmed entry and one without has none, and each of the
  states of `subTicketState` is on its list (`BusyOnOne`, `IdleOnOne`). The hypothesis is needed: returnStage and undoReturn write the status after
  their transaction, and a worker who takes the next stage in between is overwritten; a finish beside a stage opened by the office closes an order that is on offer (TLC shows both with `Alone = FALSE`).

The figures (`Figures_proofs`), for every route, weighing, correction and number of bags, with no hypothesis on `WeightsSpec`. The inductive invariant is
`TicketInv`:

* `WeightsTypeOK` (`FiguresTypeCorrect`), and of every entry that its figures lie within what it was given (`Plain`, in `EntriesSound`). `silverWithin` of returnStage
  alone does not say that for a later stage: it needs that all stages before the last are closed and good, and that each took over what the one before handed on;
* of every bag how count, weight and stock quantity belong together (`BagsSound`); for a bag sold by weight the quantity is the weight;
* of the setting entry, phase by phase, how its own columns and the bags agree (`StonesSound`): what was handed over, issued on request and not returned early is in the
  bags held (`InHisBags`), what QC wrote is what the bags took back (`BackInBags`), what was consumed is the rest (`OutIsGiven`);
* that the store took in what closed entries recovered, once (`StoreSound`).

From it: `NoLossIsNegative`; `StonesAlwaysAddUp`, for which `SplitGives` shows that dealing the counted stones out by weight, with rounding and full bags, hands out exactly
the number counted (`GreedySum`: emptying a list from one end takes the amount or all there is); `SilverIsNeverLostTwice`, where `ChainSums` telescopes the entries;
`ReportIsTrue`, where adding by stage and then over the stages is adding all rows (`SumByKey`); `ReportIsFinal` and `EmptiedBagsAreEmpty`, action properties. Two numbers
are compared here that different people weigh, and the proof shows which checks carry the result: without the limit of stones given (`StonesWithin`) and that of silver
(`SilverWithin`) the losses could be negative.

The layers of price, for any number of days, receipts and issues, with no hypothesis on `PricesSpec` (`tidy` is part of the property). Layers lie one on the other
(`LayersInRow`), so what an issue takes is, for every pile from the ground up, the lesser of the pile and the quantity (`TakesGive`). Hence taking twice is taking both at once
(`TakesInTurn`), and an issue costs what the pile loses of its value (`WorthInTurn`). Quantities follow from the rows alone (`LayersHold`). For the value, `PriceInv` has
`FifoPaid`: in a tidy store, for every n, the issues entered up to the n-th have together paid what lay at the bottom of all the receipts, those entered after them included. It must speak of every n,
and not only of all issues, so that the last one may be taken back; a new receipt keeps it because it lies on top of everything issued (`NewTopLayer`), which is where the
dates are needed. From it: `PricesTypeCorrect`, `LayersHoldTheStock`.

The attempt corrected one property. `StonesAddUp` used to say that a typed count is what the bags took back as soon as one bag was counted. With three bags, one of them not
weighed or not counted, that is false: the code deals the typed number out to the bags counted and weighed, and derives the others' from their weight or the old count. It
now says so only if every bag was counted and weighed.

Assumptions: the named `ASSUME`s of the modules, which TLC evaluates in every run: bounds are sets of the right kind; the orders, shipments, tabs, stock rows, holds and
tickets that are summed or counted are finitely many (`FiniteAssumption`, `ShipsAssumption`, `TabsAssumption`, `FiniteRows`, `TicketsAssumption`: a table
has finitely many rows); ids of different kinds do not meet; `NoSlip` and `NoWorker` are not members. `RoutesAssumption`: a course visits
stages in their order, which `assign` enforces (a defective order sent back begins another course); `BlanksAssumption`, `TypedAssumption`, `RowsAssumption`: weights and counts are natural numbers, as the request checks demand.

`FiguresTypeOK` of the run is `FiguresTypeCorrect` and `PricesTypeCorrect` together. Only model-checked, and for good, is what needs
fairness: `EditsTakeHold` and `EveryoneIsAnswered`.

## 5. Plan

Done: the whole flow from the order form to the approved shipment, the stock and the stones behind it, the figures, and
the process around it; every safety and action property of the passing runs proved. What is left would be new models: the parts below, and the hazards
without a property.

### Not modelled

Order codes (a number drawn under an advisory lock inside the transaction that uses it: one critical section), costing (decimal
arithmetic over closed records), the legacy casting orders and the list of waiting half-finished goods (single rows nobody else
reads), catalogs, locations, warehouses, users' profiles, workflow texts and the edit log (independent
rows), uploads (an outside service), migrations, seed and maintenance scripts (run once by hand). Of the modelled
components, the images, names, notes, due dates, permissions, searches and exports are left out: they change no state
another step decides upon.
