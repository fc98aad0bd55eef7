--------------------------- MODULE StageLists_proofs ---------------------------
(***************************************************************************)
(* Where people look for their work on an order of StageFlow: the status,   *)
(* the lists by status and the overview show what is in work                *)
(* (WorkStaysVisible), and whoever is to act next finds the sheet on one    *)
(* list (ListsAreTrue), for any number of sub-tickets and pieces, as long   *)
(* as every request runs to its end undisturbed.                            *)
(***************************************************************************)
EXTENDS StageFlow_proofs

-----------------------------------------------------------------------------
(* The status shows the work that is out.  Status st would show what is out  *)
(* of the sheets of o.                                                      *)
Placed(o, st) ==
    st \in IN_STAGE_STATUSES =>
        /\ \A t \in Running(o) : \A i \in OpenAt(o, t) : st >= At(o.work[t][i].stage)
        /\ Live(o) = {} => \A i \in OpenAt(o, Parent) : st = At(o.work[Parent][i].stage)

LEMMA PlacedSame ==
    ASSUME NEW o, NEW st, Placed(o, st), NEW p, p.sheet = o.sheet, p.work = o.work
    PROVE  Placed(p, st)
<1>1. Live(p) = Live(o) /\ Running(p) = Running(o) /\ \A h : OpenAt(p, h) = OpenAt(o, h)
  BY DEF Live, Running, OpenAt
<1> QED
  BY <1>1 DEF Placed

(* What is out of the sheets of p was out before.                           *)
LEMMA PlacedLess ==
    ASSUME NEW o, NEW st, Placed(o, st), NEW p,
           \A t \in Running(p) : \A i \in OpenAt(p, t) :
               t \in Running(o) /\ i \in OpenAt(o, t) /\ p.work[t][i].stage = o.work[t][i].stage,
           Live(p) = {} => \A i \in OpenAt(p, Parent) :
               /\ Live(o) = {} /\ i \in OpenAt(o, Parent)
               /\ p.work[Parent][i].stage = o.work[Parent][i].stage
    PROVE  Placed(p, st)
  BY DEF Placed

(* A sheet with something out has the status of the stage it is in.         *)
LEMMA OutStatus ==
    ASSUME NEW o \in Orders, Tidy(o), NEW h \in Holders, NEW i \in OpenAt(o, h)
    PROVE  /\ TicketStatus(o, h) = At(o.work[h][i].stage)
           /\ i = Len(o.work[h]) /\ o.work[h] # <<>> /\ LastStage(o.work[h]) = o.work[h][i].stage
<1>1. i \in DOMAIN o.work[h] /\ o.work[h] # <<>>
  BY DEF OpenAt
<1>2. Pend(o.work[h]) \subseteq {Len(o.work[h])} /\ OpenAt(o, h) \subseteq Pend(o.work[h])
  BY PendIsBusy DEF Tidy, TidyAt, OneHand
<1>3. OpenAt(o, h) = {i} /\ i = Len(o.work[h])
  BY <1>2
<1>4. Min(OpenAt(o, h)) = i
  BY <1>3, BusyEntries, MinIsMember
<1>5. TicketStatus(o, h) = At(o.work[h][i].stage)
  BY <1>3, <1>4 DEF TicketStatus
<1> QED
  BY <1>1, <1>3, <1>5 DEF LastStage, LastOf

LEMMA FurthestPlaced ==
    ASSUME NEW o \in Orders, Tidy(o), Running(o) # {}
    PROVE  Placed(o, Furthest({TicketStatus(o, t) : t \in Running(o)}))
<1> DEFINE front == Furthest({TicketStatus(o, t) : t \in Running(o)})
<1>1. \A t \in Running(o) : front >= TicketStatus(o, t)
  BY FurthestRunning
<1>2. Live(o) # {} /\ Running(o) \subseteq Holders
  BY LiveAreTickets
<1> HIDE DEF front
<1>3. \A t \in Running(o) : \A i \in OpenAt(o, t) : front >= At(o.work[t][i].stage)
  BY <1>1, <1>2, OutStatus
<1>4. Placed(o, front)
  BY <1>2, <1>3 DEF Placed
<1> QED
  BY <1>4 DEF front

LEMMA DerivedPlaced ==
    ASSUME NEW o \in Orders, Tidy(o)
    PROVE  Placed(o, DeriveStatus(o))
<1>1. CASE o.status \notin IN_STAGE_STATUSES
  BY <1>1, DeriveStatusType DEF Placed
<1>2. CASE o.status \in IN_STAGE_STATUSES /\ Live(o) = {}
  <2>1. DeriveStatus(o) = TicketStatus(o, Parent) /\ Running(o) = {} /\ Parent \in Holders
    BY <1>2, LiveAreTickets DEF DeriveStatus
  <2>2. \A i \in OpenAt(o, Parent) : DeriveStatus(o) = At(o.work[Parent][i].stage)
    BY <2>1, OutStatus
  <2> QED
    BY <2>1, <2>2 DEF Placed
<1>3. CASE o.status \in IN_STAGE_STATUSES /\ Live(o) # {} /\ Running(o) = {}
  BY <1>3 DEF Placed
<1>4. CASE o.status \in IN_STAGE_STATUSES /\ Live(o) # {} /\ Running(o) # {}
  <2>1. DeriveStatus(o) = Furthest({TicketStatus(o, t) : t \in Running(o)})
    BY <1>4 DEF DeriveStatus
  <2> QED
    BY <1>4, <2>1, FurthestPlaced
<1> QED
  BY <1>1, <1>2, <1>3, <1>4

LEMMA SyncPlaced ==
    ASSUME NEW o \in Orders, Tidy(o), Placed(o, o.status), NEW p, p = SyncOrder(o)
    PROVE  Placed(p, p.status)
<1>1. /\ p.sheet = o.sheet /\ p.work = o.work
      /\ p.status \in IN_STAGE_STATUSES =>
            \/ p.status = o.status
            \/ Running(o) # {} /\ p.status = Furthest({TicketStatus(o, t) : t \in Running(o)})
  BY SyncShape
<1>2. Placed(o, p.status)
  BY <1>1, FurthestPlaced DEF Placed
<1> QED
  BY <1>1, <1>2, PlacedSame

(* A derived status, whatever the status was before.                        *)
LEMMA AfterPlaced ==
    ASSUME NEW o \in Orders, NEW closed \in BOOLEAN, NEW p, p = SyncOrderAfterStage(o, closed), Tidy(p)
    PROVE  Placed(p, p.status)
<1> DEFINE q == IF Live(o) # {} /\ (closed \/ o.status \in DEFECT_STATUSES \cup FINISHED_STATUSES)
                THEN SyncOrder(o) ELSE o
<1>1. q \in Orders
  BY SyncShape
<1>2. p = [q EXCEPT !.status = DeriveStatus(q)]
  BY DEF SyncOrderAfterStage
<1> HIDE DEF q
<1>3. p.status = DeriveStatus(q) /\ p.sheet = q.sheet /\ p.work = q.work
  BY <1>1, <1>2, DeriveShape
<1>4. Placed(q, DeriveStatus(q))
  BY <1>1, <1>3, TidySame, DerivedPlaced
<1> QED
  BY <1>3, <1>4, PlacedSame

(* What the tickets and the parent have out, when only the cards change.    *)
LEMMA PlacedCards ==
    ASSUME NEW o, NEW st, Placed(o, st), NEW p, p.work = o.work,
           \A t \in Tickets : \/ o.work[t] = <<>>
                              \/ p.sheet[t].live /\ p.sheet[t].outcome = "NONE" =>
                                     o.sheet[t].live /\ o.sheet[t].outcome = "NONE",
           Live(p) = {} /\ o.work[Parent] # <<>> => Live(o) = {}
    PROVE  Placed(p, st)
<1>1. \A h : OpenAt(p, h) = OpenAt(o, h)
  BY DEF OpenAt
<1>2. \A h : o.work[h] = <<>> => OpenAt(o, h) = {}
  BY DEF OpenAt
<1>3. \A t \in Running(p) : \A i \in OpenAt(p, t) : t \in Running(o) /\ i \in OpenAt(o, t)
  BY <1>1, <1>2 DEF Running, Live
<1>4. Live(p) = {} => \A i \in OpenAt(p, Parent) : Live(o) = {} /\ i \in OpenAt(o, Parent)
  BY <1>1, <1>2
<1> QED
  BY <1>3, <1>4, PlacedLess

(* What opening, assigning and taking back does to the one sheet.           *)
LEMMA PendingActs ==
    ASSUME CoreInv,
           \/ OpenOrderStage \/ AssignOrder \/ Assign
           \/ CancelPending \/ CancelOrderPending \/ Unclaim \/ UnclaimOrder
    PROVE  \E h \in Holders, card \in SheetValues :
               /\ order' = [order EXCEPT !.sheet[h] = card]
               /\ h \in Live(order) \/ h = Parent
               /\ Alike(order.sheet[h], card)
               /\ \/ card.pending = 0 /\ ~card.claimed
                  \/ /\ h # Parent /\ card.pending = order.sheet[h].pending /\ ~card.claimed
                  \/ /\ h = Parent /\ Live(order) = {} /\ StateOf(order, h) = "IDLE"
                     /\ card.pending \in SELF_TAKE_STAGES /\ card.claimed = order.sheet[h].claimed
                     /\ card.give = order.sheet[h].give
                  \/ /\ StateOf(order, h) = "IDLE" /\ card.pending \in Stages
                     /\ h = Parent => Live(order) = {} /\ Given(card.pending, card.give)
<1>1. order \in Orders
  BY DEF CoreInv
<1>2. /\ Tickets \subseteq Holders /\ Parent \in Holders /\ Parent \notin Tickets
      /\ Live(order) \subseteq Tickets
  BY LiveAreTickets
<1>3. order.sheet \in [Holders -> SheetValues]
  BY <1>1, OrderParts
<1>4. /\ Opens \subseteq Stages /\ SELF_TAKE_STAGES \subseteq Stages
      /\ 1..OrderQty \subseteq Amount /\ 0 \in Amount
  BY FlowAssumption, SizeAssumption, StageNumbers DEF Amount
<1>5. CASE OpenOrderStage
  <2>1. PICK s \in Opens \cap SELF_TAKE_STAGES :
          /\ order' = [order EXCEPT !.sheet[Parent].pending = s]
          /\ Live(order) = {} /\ StateOf(order, Parent) = "IDLE"
    BY <1>5 DEF OpenOrderStage, Mutate
  <2> DEFINE c == order.sheet[Parent]
             card == [c EXCEPT !.pending = s]
  <2>2. order' = [order EXCEPT !.sheet[Parent] = card]
    BY <2>1
  <2>3. c \in SheetValues /\ s \in Stages \cup {0}
    BY <1>2, <1>3, <1>4
  <2>4. /\ card \in SheetValues /\ Alike(c, card) /\ card.pending = s
        /\ card.claimed = c.claimed /\ card.give = c.give
    <3> HIDE DEF c
    <3> QED
      BY <2>3 DEF SheetValues, Alike
  <2> HIDE DEF card
  <2> QED
    BY <1>2, <2>1, <2>2, <2>4
<1>6. CASE AssignOrder \/ Assign
  <2> DEFINE named(h, s, n) ==
                 [order EXCEPT !.sheet[h].pending = s, !.sheet[h].claimed = TRUE, !.sheet[h].give = n]
             assigned(h, s) == [order EXCEPT !.sheet[h].pending = s, !.sheet[h].claimed = TRUE]
  <2>1. PICK h \in Holders, s \in Stages, n \in Amount :
          /\ StateOf(order, h) = "IDLE" /\ (h \in Live(order) \/ h = Parent)
          /\ h = Parent => Live(order) = {} /\ Given(s, n)
          /\ order' = named(h, s, n) \/ (h # Parent /\ order' = assigned(h, s))
    <3>1. CASE AssignOrder
      <4>1. PICK s \in Opens, n \in 1..OrderQty :
              /\ Live(order) = {} /\ StateOf(order, Parent) = "IDLE" /\ Given(s, n)
              /\ order' = named(Parent, s, n)
        BY Zenon, <3>1 DEF AssignOrder, Mutate
      <4> HIDE DEF named, assigned
      <4> QED
        BY <1>2, <1>4, <4>1
    <3>2. CASE Assign
      <4>1. PICK t \in Live(order), s \in Opens :
              /\ StateOf(order, t) = "IDLE"
              /\ order' = assigned(t, s)
        BY Zenon, <3>2 DEF Assign, MutateTicket
      <4> HIDE DEF named, assigned
      <4> QED
        BY <1>2, <1>4, <4>1
    <3> QED
      BY <1>6, <3>1, <3>2
  <2> DEFINE c == order.sheet[h]
  <2>2. c \in SheetValues /\ c.give \in Amount
    BY <1>1, <1>3, SheetParts
  <2>3. PICK g \in Amount : /\ h = Parent => g = n
                            /\ order' = [order EXCEPT !.sheet[h] = Prepared(c, s, TRUE, g)]
    <3>1. CASE order' = named(h, s, n)
      <4>1. order' = [order EXCEPT !.sheet[h] = Prepared(c, s, TRUE, n)]
        BY <1>1, <1>3, <3>1 DEF Orders, Prepared
      <4> QED
        BY <4>1
    <3>2. CASE h # Parent /\ order' = assigned(h, s)
      <4>1. [c EXCEPT !.pending = s, !.claimed = TRUE] = Prepared(c, s, TRUE, c.give)
        <5> HIDE DEF c
        <5> QED
          BY <2>2 DEF Prepared, SheetValues
      <4>2. order' = [order EXCEPT !.sheet[h] = [c EXCEPT !.pending = s, !.claimed = TRUE]]
        BY <1>1, <1>3, <3>2 DEF Orders
      <4> QED
        BY <2>2, <3>2, <4>1, <4>2
    <3> QED
      BY <2>1, <3>1, <3>2
  <2>4. PICK yes \in BOOLEAN : yes = TRUE
    OBVIOUS
  <2> DEFINE card == Prepared(c, s, yes, g)
  <2>5. card \in SheetValues /\ Alike(c, card) /\ card.pending = s /\ card.give = g
    <3> HIDE DEF c
    <3>1. s \in Stages \cup {0}
      OBVIOUS
    <3> QED
      BY <2>2, <3>1, PreparedShape DEF Alike
  <2>6. order' = [order EXCEPT !.sheet[h] = card]
    BY <2>3, <2>4
  <2> HIDE DEF card
  <2> QED
    BY <2>1, <2>3, <2>5, <2>6
<1>7. CASE CancelPending \/ CancelOrderPending \/ Unclaim \/ UnclaimOrder
  <2>1. PICK h \in Holders, d \in BOOLEAN :
          /\ h \in Live(order) \/ h = Parent
          /\ h = Parent => d
          /\ order' = [order EXCEPT !.sheet[h] =
                 IF d THEN ClearPending(order.sheet[h]) ELSE [order.sheet[h] EXCEPT !.claimed = FALSE]]
    <3>1. CASE CancelPending \/ CancelOrderPending \/ UnclaimOrder
      BY <1>2, <3>1 DEF CancelPending, CancelOrderPending, UnclaimOrder, Mutate, MutateTicket
    <3>2. CASE Unclaim
      BY <1>2, <3>2 DEF Unclaim, MutateTicket
    <3> QED
      BY <1>7, <3>1, <3>2
  <2> DEFINE c == order.sheet[h]
             card == IF d THEN ClearPending(c) ELSE [c EXCEPT !.claimed = FALSE]
  <2>2. c \in SheetValues
    BY <1>3
  <2>3. /\ card \in SheetValues /\ Alike(c, card) /\ ~card.claimed
        /\ card.pending = IF d THEN 0 ELSE c.pending
    <3> HIDE DEF c
    <3>1. CASE d
      BY <2>2, <3>1, ClearedShape DEF Alike
    <3>2. CASE ~d
      BY <2>2, <3>2 DEF SheetValues, Alike
    <3> QED
      BY <3>1, <3>2
  <2>4. order' = [order EXCEPT !.sheet[h] = card]
    BY <2>1
  <2> HIDE DEF card
  <2> QED
    BY <2>1, <2>3, <2>4
<1> QED
  BY <1>5, <1>6, <1>7

-----------------------------------------------------------------------------
(* Which steps under the lock of the order keep it showing its work.        *)
LEMMA DividePlaced ==
    ASSUME CoreInv, Placed(order, order.status),
           Split \/ CreateTicket \/ UpdateTicket \/ ClearSplit \/ RemoveTicket
    PROVE  Placed(order', order'.status)
<1>1. order \in Orders /\ Whole(order) /\ order'.work = order.work
  BY DivideCore, UpdateTicketCore DEF CoreInv
<1>2. /\ order.sheet \in [Holders -> SheetValues] /\ Live(order) \subseteq Tickets
      /\ Tickets \subseteq Holders /\ Parent \notin Tickets
  BY <1>1, OrderParts, LiveAreTickets
<1>3. \A t \in Tickets : t \notin Live(order) => order.work[t] = <<>>
  BY <1>1 DEF Whole, Live
<1>4. CASE Split
  <2>1. order'.status = order.status
    BY Zenon, <1>1, <1>4 DEF Split, Mutate, Orders
  <2>2. Live(order) = {} /\ order.work[Parent] = <<>>
    BY <1>4 DEF Split
  <2>3. \A t \in Tickets : order.work[t] = <<>>
    BY <1>3, <2>2
  <2> QED
    BY <1>1, <2>1, <2>2, <2>3, PlacedCards
<1>5. CASE CreateTicket \/ RemoveTicket
  <2>1. PICK t \in Tickets, n \in 0..OrderQty :
          /\ order' = [order EXCEPT !.sheet[t] = Sheet(n)]
          /\ order.work[t] = <<>> /\ Live(order) # {}
    BY <1>2, <1>3, <1>5, SizeAssumption DEF CreateTicket, RemoveTicket, Started, Mutate
  <2>2. order'.sheet = [order.sheet EXCEPT ![t] = Sheet(n)] /\ order'.status = order.status
    BY <1>1, <2>1 DEF Orders
  <2>3. \A u \in Tickets : u # t => order'.sheet[u] = order.sheet[u]
    BY <1>2, <2>2
  <2>4. order.work[Parent] = <<>>
    BY <1>1, <2>1 DEF Whole
  <2>5. \A u \in Tickets : \/ order.work[u] = <<>>
                           \/ order'.sheet[u].live /\ order'.sheet[u].outcome = "NONE" =>
                                  order.sheet[u].live /\ order.sheet[u].outcome = "NONE"
    BY <2>1, <2>3
  <2> QED
    BY <1>1, <2>2, <2>4, <2>5, PlacedCards
<1>6. CASE ClearSplit
  <2>1. Live(order) # {} /\ \A t \in Live(order) : order.work[t] = <<>>
    BY <1>6 DEF ClearSplit, Started
  <2>2. order'.status = order.status
    BY <1>1, <1>6 DEF ClearSplit, Mutate, Orders
  <2>3. order.work[Parent] = <<>> /\ \A t \in Tickets : order.work[t] = <<>>
    BY <1>1, <1>3, <2>1 DEF Whole
  <2> QED
    BY <1>1, <2>2, <2>3, PlacedCards
<1>7. CASE UpdateTicket
  <2>1. \A h \in Holders : /\ order'.sheet[h].live = order.sheet[h].live
                           /\ order'.sheet[h].outcome = order.sheet[h].outcome
    BY <1>7, UpdateTicketCore
  <2>2. order'.status = order.status
    BY Zenon, <1>1, <1>7 DEF UpdateTicket, Mutate, Orders
  <2>3. Live(order') = Live(order)
    BY <1>2, <2>1 DEF Live
  <2> QED
    BY <1>1, <1>2, <2>1, <2>2, <2>3, PlacedCards
<1> QED
  BY <1>4, <1>5, <1>6, <1>7

LEMMA PendingPlaced ==
    ASSUME CoreInv, Placed(order, order.status),
           \/ OpenOrderStage \/ AssignOrder \/ Assign
           \/ CancelPending \/ CancelOrderPending \/ Unclaim \/ UnclaimOrder
    PROVE  Placed(order', order'.status)
<1>1. order \in Orders
  BY DEF CoreInv
<1>2. PICK h \in Holders, card \in SheetValues :
          order' = [order EXCEPT !.sheet[h] = card] /\ Alike(order.sheet[h], card)
  BY PendingActs
<1>3. /\ order'.work = order.work /\ order'.status = order.status
      /\ order'.sheet[h] = card /\ \A g \in Holders : g # h => order'.sheet[g] = order.sheet[g]
  BY <1>1, <1>2, OneSheetShape
<1>4. \A g \in Holders : /\ order'.sheet[g].live = order.sheet[g].live
                         /\ order'.sheet[g].outcome = order.sheet[g].outcome
  BY <1>2, <1>3 DEF Alike
<1>5. Live(order') = Live(order) /\ Tickets \subseteq Holders
  BY <1>4, LiveAreTickets DEF Live
<1> QED
  BY <1>3, <1>4, <1>5, PlacedCards

LEMMA OutcomePlaced ==
    ASSUME CoreInv, Tidy(order), Placed(order, order.status),
           SetOutcome \/ ClearOutcome \/ SetStoneSkipped \/ StockReceipt
    PROVE  Placed(order', order'.status)
<1>1. order \in Orders /\ order'.work = order.work
  BY OutcomeCore DEF CoreInv
<1>2. /\ Tickets \subseteq Holders /\ Parent \in Holders /\ Parent \notin Tickets
      /\ Live(order) \subseteq Tickets
  BY LiveAreTickets
<1>3. Tidy(order')
  BY OutcomeTidy
<1>4. CASE SetOutcome
  <2>1. PICK t \in Live(order), end \in {"FINISH", "DEFECT"} : order' = SyncOrder(Close(order, t, end))
    BY <1>4 DEF SetOutcome, Mutate
  <2> DEFINE o == Close(order, t, end)
  <2>2. end \in Outcomes /\ t \in Tickets /\ t \in Holders /\ end # "NONE"
    BY <1>2, <2>1 DEF Outcomes
  <2>3. /\ o \in Orders /\ o.work = order.work /\ o.status = order.status
        /\ o.sheet[t].live = order.sheet[t].live /\ o.sheet[t].outcome = end
        /\ \A g \in Holders : g # t => o.sheet[g] = order.sheet[g]
    BY <1>1, <2>2, CloseShape
  <2>4. order' = SyncOrder(o)
    BY <2>1
  <2> HIDE DEF o
  <2>5. Live(o) = Live(order)
    BY <1>2, <2>3 DEF Live
  <2>6. Placed(o, o.status)
    BY <1>2, <2>2, <2>3, <2>5, PlacedCards
  <2>7. Tidy(o)
    BY <1>3, <2>3, <2>4, SyncShape, TidySame
  <2> QED
    BY <2>3, <2>4, <2>6, <2>7, SyncPlaced
<1>5. CASE ClearOutcome
  <2>1. PICK t \in Live(order) :
          /\ order.sheet[t].outcome # "NONE"
          /\ order' = SyncOrder([order EXCEPT !.sheet[t].outcome = "NONE", !.sheet[t].good = 0])
    BY Zenon, <1>5 DEF ClearOutcome, Ended, Mutate
  <2> DEFINE c == order.sheet[t]
             card == [c EXCEPT !.outcome = "NONE", !.good = 0]
             o == [order EXCEPT !.sheet[t] = card]
  <2>2. c \in SheetValues /\ t \in Holders /\ t \in Tickets
    BY <1>1, <1>2, SheetParts
  <2>3. [order EXCEPT !.sheet[t].outcome = "NONE", !.sheet[t].good = 0] = o
    BY <1>1, <2>2, OrderParts DEF Orders
  <2>4. card \in SheetValues /\ card.live = c.live
    <3>1. 0 \in Amount /\ "NONE" \in Outcomes
      BY AmountIsNat DEF Outcomes
    <3> HIDE DEF c
    <3> QED
      BY <2>2, <3>1 DEF SheetValues
  <2>5. order' = SyncOrder(o)
    BY <2>1, <2>3
  <2> HIDE DEF card
  <2>6. /\ o \in Orders /\ o.work = order.work /\ o.status = order.status
        /\ o.sheet[t] = card /\ \A g \in Holders : g # t => o.sheet[g] = order.sheet[g]
    BY <1>1, <2>2, <2>4, OneSheetShape
  <2> HIDE DEF o
  <2>7. Live(o) = Live(order)
    BY <1>2, <2>4, <2>6 DEF Live
  <2>8. OpenAt(o, t) = {}
    <3>1. Pend(order.work[t]) = {}
      BY <2>1, <2>2 DEF Tidy, TidyAt, Settled, Live
    <3> QED
      BY <2>6, <3>1, PendIsBusy
  <2>9. Placed(o, o.status)
    <3>1. \A u \in Running(o) : u = t \/ u \in Running(order)
      BY <1>2, <2>6, <2>7 DEF Running
    <3>2. \A g : OpenAt(o, g) = OpenAt(order, g)
      BY <2>6 DEF OpenAt
    <3> QED
      BY <2>6, <2>7, <2>8, <3>1, <3>2, PlacedLess
  <2>10. Tidy(o)
    BY <1>3, <2>5, <2>6, SyncShape, TidySame
  <2> QED
    BY <2>5, <2>6, <2>9, <2>10, SyncPlaced
<1>6. CASE SetStoneSkipped
  <2> DEFINE o == [order EXCEPT !.skip = ~order.skip]
  <2>1. order' = [o EXCEPT !.status = DeriveStatus(o)]
    BY <1>6 DEF SetStoneSkipped, Mutate
  <2>2. o \in Orders
    BY <1>1 DEF Orders
  <2> HIDE DEF o
  <2>3. order'.status = DeriveStatus(o) /\ order'.sheet = o.sheet /\ order'.work = o.work
    BY <2>1, <2>2, DeriveShape
  <2>4. Placed(o, DeriveStatus(o))
    BY <1>3, <2>2, <2>3, TidySame, DerivedPlaced
  <2> QED
    BY <2>3, <2>4, PlacedSame
<1>7. CASE StockReceipt
  <2>1. PICK receipt : order' = [order EXCEPT !.receipt = receipt, !.status =
            IF order.status \in FINISHED_STATUSES THEN FinishedStatus(receipt) ELSE order.status]
    BY <1>7 DEF StockReceipt, Mutate
  <2>2. /\ order'.sheet = order.sheet
        /\ order'.status = order.status \/ order'.status \in FINISHED_STATUSES
    BY <1>1, <2>1, FinishedStatusType DEF Orders
  <2>3. order'.status = order.status \/ order'.status \notin IN_STAGE_STATUSES
    BY <2>2, StatusNumbers
  <2>4. Placed(order, order'.status)
    BY <2>3 DEF Placed
  <2> QED
    BY <1>1, <2>2, <2>4, PlacedSame
<1> QED
  BY <1>4, <1>5, <1>6, <1>7

LEMMA ReportPlaced ==
    ASSUME CoreInv, Placed(order, order.status),
           \/ Submit \/ SubmitOrder \/ ReportStageDefect
           \/ Unsubmit \/ UnsubmitOrder \/ ClearStageDefect \/ CreateRework
    PROVE  Placed(order', order'.status)
<1>1. PICK h \in Holders : \E i \in DOMAIN order.work[h], e \in EntryValues :
               /\ Rewrites(order, order', h, i, e)
               /\ e.stage = order.work[h][i].stage /\ e.returned = order.work[h][i].returned
  BY ReportShape
<1>2. PICK i \in DOMAIN order.work[h], e \in EntryValues :
               /\ Rewrites(order, order', h, i, e)
               /\ e.stage = order.work[h][i].stage /\ e.returned = order.work[h][i].returned
  BY <1>1
<1>3. /\ order'.sheet = order.sheet /\ order'.status = order.status
      /\ DOMAIN order'.work[h] = DOMAIN order.work[h]
      /\ \A j \in DOMAIN order.work[h] : /\ order'.work[h][j].stage = order.work[h][j].stage
                                         /\ order'.work[h][j].returned = order.work[h][j].returned
      /\ \A g \in Holders : g # h => order'.work[g] = order.work[g]
  BY <1>2 DEF Rewrites
<1>4. ASSUME NEW g \in Holders, NEW i_1 \in OpenAt(order', g)
      PROVE  i_1 \in OpenAt(order, g) /\ order'.work[g][i_1].stage = order.work[g][i_1].stage
  BY <1>3 DEF OpenAt
<1>5. Live(order') = Live(order) /\ Running(order') = Running(order)
  BY <1>3 DEF Live, Running
<1>6. Running(order') \subseteq Holders /\ Parent \in Holders
  BY LiveAreTickets
<1> QED
  BY <1>3, <1>4, <1>5, <1>6, PlacedLess

LEMMA BeginPlaced ==
    ASSUME CoreInv, Tidy(order), Accept \/ AcceptOrder \/ Take \/ TakeOrder
    PROVE  Placed(order', order'.status)
<1>1. PICK h \in Holders, s \in Stages, n \in Amount :
          Begin(h, s, n) /\ (h \in Live(order) \/ (h = Parent /\ Live(order) = {}))
  BY WhoBegins
<1>2. /\ OthersStay(order, order', h) /\ order'.work[h] = Append(order.work[h], Entry(s, n))
      /\ order'.status = IF h = Parent THEN At(s)
                         ELSE DeriveStatus([order' EXCEPT !.status = At(FILING)])
      /\ order' \in Orders
  BY <1>1, BeginShape
<1>3. Tidy(order') /\ Parent \in Holders /\ Tickets \subseteq Holders /\ Parent \notin Tickets
      /\ Live(order) \subseteq Tickets
  BY BeginTidy, LiveAreTickets
<1>4. CASE h = Parent
  <2>1. Live(order') = {} /\ Running(order') = {}
    BY <1>1, <1>2, <1>3, <1>4 DEF OthersStay, Live, Running
  <2>2. order.work[h] \in Seq(EntryValues)
    BY SheetParts DEF CoreInv
  <2>3. order'.work[h][Len(order'.work[h])].stage = s
    BY <1>2, <2>2 DEF Entry
  <2>4. \A i \in OpenAt(order', Parent) : order'.work[Parent][i].stage = s
    BY <1>2, <1>3, <1>4, <2>3, OutStatus
  <2> QED
    BY <1>2, <1>4, <2>1, <2>4 DEF Placed
<1>5. CASE h # Parent
  <2> DEFINE q == [order' EXCEPT !.status = At(FILING)]
  <2>1. At(FILING) \in NEW_ORDER..FINISHING
    BY StageNumbers, StatusNumbers
  <2>2. q \in Orders /\ q.sheet = order'.sheet /\ q.work = order'.work
    BY <1>2, <2>1, StatusShape
  <2>3. order'.status = DeriveStatus(q)
    BY <1>2, <1>5
  <2> HIDE DEF q
  <2>4. Placed(q, DeriveStatus(q))
    BY <1>3, <2>2, TidySame, DerivedPlaced
  <2> QED
    BY <2>2, <2>3, <2>4, PlacedSame
<1> QED
  BY <1>4, <1>5

LEMMA ConfirmPlaced ==
    ASSUME CoreInv, Tidy(order), ConfirmStage
    PROVE  Placed(order', order'.status)
<1>1. PICK p \in Orders, closed \in BOOLEAN : order' = SyncOrderAfterStage(p, closed)
  BY ConfirmShape
<1> QED
  BY <1>1, ConfirmTidy, AfterPlaced


LEMMA LockedPlaced ==
    ASSUME CoreInv, Tidy(order), Placed(order, order.status), Office \/ Workshop
    PROVE  Placed(order', order'.status)
<1>1. CASE Office
  BY <1>1, DividePlaced, PendingPlaced, OutcomePlaced, ReportPlaced DEF Office
<1>2. CASE Workshop
  BY <1>2, BeginPlaced, ReportPlaced, ConfirmPlaced, OutcomePlaced DEF Workshop
<1> QED
  BY <1>1, <1>2

-----------------------------------------------------------------------------
(* What a request brings for the status of the order shows its work too.    *)
Shows(r, o) ==
    /\ r.op = "status" => Placed(o, r.to)
    /\ r.op = "undoFinish" =>
        \/ r.to = CASTING
        \/ o.work[Parent] # <<>> /\ r.to = At(LastStage(o.work[Parent]))

ShowInv ==
    /\ \A c \in Clients : Shows(req[c], order)
    /\ (\A c \in Clients : req[c].op # "status") => Placed(order, order.status)

LEMMA IdleShows == Idle.op = "idle" /\ Stale(Idle) = Idle /\ \A o : Shows(Idle, o)
  BY DEF Idle, Stale, Shows

LEMMA SaveShows ==
    ASSUME CoreInv, NEW c \in Clients, \A d \in Clients : d # c => req[d] = Idle,
           NEW o, NEW next, Save(c, o, next), Placed(o, next)
    PROVE  ShowInv'
<1> DEFINE r == IF next = o.status THEN Idle ELSE [op |-> "status", to |-> next]
<1>1. order' = o /\ req' = [d \in Clients |-> IF d # c THEN Stale(req[d]) ELSE r]
  BY DEF Save
<1>2. /\ next = o.status => r = Idle
      /\ next # o.status => r.op = "status" /\ r.to = next
  OBVIOUS
<1> HIDE DEF r
<1>3. req'[c] = r /\ \A d \in Clients : d # c => req'[d] = Idle
  BY <1>1, IdleShows
<1>4. Shows(r, order')
  BY <1>1, <1>2, IdleShows DEF Shows
<1>5. r.op # "status" => Placed(order', order'.status)
  BY <1>1, <1>2
<1> QED
  BY <1>3, <1>4, <1>5, IdleShows DEF ShowInv

LEMMA ReturnShows ==
    ASSUME FlowInv, CoreInv, Tidy(order), NEW c \in Clients, ReturnSave(c), ~Refuse(c)
    PROVE  \E o, next : Save(c, o, next) /\ Placed(o, next)
<1>0. PICK h \in Holders : \E i \in Busy(order, h), e \in EntryValues, saved \in Orders : \E o, next :
             Save(c, o, next) /\ (next = DefectOf(e.stage) \/ next = DeriveStatus(o))
  BY ReturnShape
<1>1. PICK o, next, s :
          Save(c, o, next) /\ (next = DefectOf(s) \/ next = DeriveStatus(o))
  BY Zenon, <1>0
<1>2. order' = o
  BY <1>1 DEF Save
<1>3. o \in Orders /\ Tidy(o)
  BY <1>2, ReturnSaveCore, ReturnTidy DEF CoreInv
<1>4. Placed(o, DefectOf(s))
  BY DefectOfType, StatusNumbers DEF Placed
<1>5. Placed(o, next)
  BY <1>1, <1>3, <1>4, DerivedPlaced
<1> QED
  BY <1>1, <1>5

LEMMA UndoShows ==
    ASSUME CoreInv, Tidy(order), NEW c \in Clients, UndoSeen(req[c], order), UndoSave(c)
    PROVE  \E o, next : Save(c, o, next) /\ Placed(o, next)
<1>0. PICK h \in Holders : \E i \in DOMAIN order.work[h], auto \in BOOLEAN, e \in EntryValues,
             saved \in Orders, o \in Orders : Save(c, o, DeriveStatus(o))
  BY UndoShape
<1>1. PICK o \in Orders : Save(c, o, DeriveStatus(o))
  BY <1>0
<1>2. order' = o
  BY <1>1 DEF Save
<1>3. Tidy(o)
  BY <1>2, UndoTidy
<1>4. Placed(o, DeriveStatus(o))
  BY <1>3, DerivedPlaced
<1> QED
  BY <1>1, <1>4

LEMMA WritesShow ==
    ASSUME CoreInv, Tidy(order), NEW c \in Clients, Shows(req[c], order), ~Refuse(c),
           FinishSave(c) \/ UndoFinishSave(c) \/ ChangeStatusSave(c)
    PROVE  \E o, next : Save(c, o, next) /\ Placed(o, next)
<1>1. CASE FinishSave(c)
  <2>1. \E o : Save(c, o, PLATED)
    BY <1>1 DEF FinishSave
  <2>2. \A o : Placed(o, PLATED)
    BY StatusNumbers DEF Placed
  <2> QED
    BY <2>1, <2>2
<1>2. CASE ChangeStatusSave(c)
  <2>1. \E o : Save(c, o, req[c].to)
    BY <1>2 DEF ChangeStatusSave
  <2>2. req[c].to \in {DEFECT, NEW_ORDER}
    BY <1>2 DEF ChangeStatusSave, CoreInv, Brings, ChangeRequests
  <2>3. \A o : Placed(o, req[c].to)
    BY <2>2, StatusNumbers DEF Placed
  <2> QED
    BY <2>1, <2>3
<1>3. CASE UndoFinishSave(c)
  <2> DEFINE to == req[c].to
             o == [order EXCEPT !.status = to, !.receipt = NoReceipt]
  <2>1. Save(c, o, to) /\ req[c].op = "undoFinish"
    BY <1>3 DEF UndoFinishSave
  <2>2. o.sheet = order.sheet /\ o.work = order.work
    BY DEF CoreInv, Orders
  <2>3. \/ to = CASTING
        \/ order.work[Parent] # <<>> /\ to = At(LastStage(order.work[Parent]))
    BY <2>1 DEF Shows
  <2> HIDE DEF o, to
  <2>4. Placed(order, to)
    <3>1. CASE to = CASTING
      BY <3>1, StatusNumbers DEF Placed
    <3>2. CASE order.work[Parent] # <<>> /\ to = At(LastStage(order.work[Parent]))
      <4>1. Live(order) = {} /\ Running(order) = {} /\ Parent \in Holders /\ order \in Orders
        BY <3>2, LiveAreTickets DEF CoreInv, Whole
      <4>2. \A i \in OpenAt(order, Parent) : LastStage(order.work[Parent]) = order.work[Parent][i].stage
        BY <4>1, OutStatus
      <4> QED
        BY <3>2, <4>1, <4>2 DEF Placed
    <3> QED
      BY <2>3, <3>1, <3>2
  <2> QED
    BY <2>1, <2>2, <2>4, PlacedSame
<1> QED
  BY <1>1, <1>2, <1>3

LEMMA AskShows ==
    ASSUME NEW c \in Clients,
           ReturnAsk(c) \/ UndoAsk(c) \/ FinishAsk(c) \/ UndoFinishAsk(c) \/ ChangeStatusAsk(c)
    PROVE  \E r : Ask(c, r) /\ r.op # "status" /\ Shows(r, order)
<1>1. CASE ReturnAsk(c) \/ UndoAsk(c) \/ FinishAsk(c) \/ ChangeStatusAsk(c)
  <2>1. \E r : Ask(c, r) /\ r.op \in {"return", "undo", "finish", "change"}
    <3>1. CASE ReturnAsk(c)
      <4>1. PICK h, i, good, defect, revise :
              Ask(c, [op |-> "return", h |-> h, i |-> i, good |-> good, defect |-> defect,
                      revise |-> revise, fresh |-> TRUE])
        BY <3>1 DEF ReturnAsk
      <4> QED
        BY <4>1
    <3>2. CASE UndoAsk(c)
      <4>1. PICK h, i, auto : Ask(c, [op |-> "undo", h |-> h, i |-> i, auto |-> auto])
        BY <3>2 DEF UndoAsk
      <4> QED
        BY <4>1
    <3>3. CASE FinishAsk(c)
      BY <3>3 DEF FinishAsk
    <3>4. CASE ChangeStatusAsk(c)
      <4>1. PICK to, leave, cleared :
              Ask(c, [op |-> "change", to |-> to, leave |-> leave, cleared |-> cleared])
        BY <3>4 DEF ChangeStatusAsk
      <4> QED
        BY <4>1
    <3> QED
      BY <1>1, <3>1, <3>2, <3>3, <3>4
  <2> QED
    BY <2>1 DEF Shows
<1>2. CASE UndoFinishAsk(c)
  <2> DEFINE last == LastStage(order.work[Parent])
             to == IF last = 0 THEN CASTING ELSE At(last)
             r == [op |-> "undoFinish", to |-> to]
  <2>1. Ask(c, r)
    BY <1>2 DEF UndoFinishAsk
  <2>2. r.op = "undoFinish" /\ r.to = to
    OBVIOUS
  <2>3. last # 0 => order.work[Parent] # <<>>
    BY DEF LastStage
  <2> HIDE DEF r
  <2>4. Shows(r, order)
    BY <2>2, <2>3 DEF Shows
  <2> QED
    BY <2>1, <2>2, <2>4
<1> QED
  BY <1>1, <1>2

LEMMA StepShows ==
    ASSUME Alone, FlowInv, CoreInv, TidyInv, ShowInv, [Next]_flow
    PROVE  ShowInv'
<1>1. Tidy(order) /\ \A c \in Clients : UndoSeen(req[c], order)
  BY DEF TidyInv
<1>2. CASE Office \/ Workshop
  <2>1. \A c \in Clients : req[c] = Idle
    BY <1>2, LockedStep DEF Quiet
  <2>2. \A c \in Clients : req'[c] = Idle
    BY <1>2, <2>1, LockedStep, IdleShows
  <2>3. Placed(order, order.status)
    BY <2>1, IdleShows DEF ShowInv
  <2>4. Placed(order', order'.status)
    BY <1>1, <1>2, <2>3, LockedPlaced
  <2> QED
    BY <2>2, <2>4, IdleShows DEF ShowInv
<1>3. CASE \E c \in Clients : Request(c)
  <2>1. PICK c \in Clients : Request(c)
    BY <1>3
  <2>2. CASE ReturnAsk(c) \/ UndoAsk(c) \/ FinishAsk(c) \/ UndoFinishAsk(c) \/ ChangeStatusAsk(c)
    <3>1. PICK r : Ask(c, r) /\ r.op # "status" /\ Shows(r, order)
      BY <2>2, AskShows
    <3>2. order' = order /\ req' = [req EXCEPT ![c] = r] /\ \A d \in Clients : req[d] = Idle
      BY <3>1 DEF Ask, Quiet
    <3>3. \A d \in Clients : req'[d] = r \/ req'[d] = Idle
      BY <3>2 DEF CoreInv
    <3>4. Placed(order, order.status)
      BY <3>2, IdleShows DEF ShowInv
    <3> QED
      BY <3>1, <3>2, <3>3, <3>4, IdleShows DEF ShowInv
  <2>3. CASE \/ ReturnSave(c) \/ UndoSave(c) \/ FinishSave(c) \/ UndoFinishSave(c)
             \/ ChangeStatusSave(c) \/ StatusSave(c)
    <3>1. req[c].op \in {"return", "undo", "finish", "undoFinish", "change", "status"}
      BY Zenon, <2>3 DEF ReturnSave, UndoSave, FinishSave, UndoFinishSave, ChangeStatusSave, StatusSave
    <3>2. \A d \in Clients : d # c => req[d] = Idle
      BY <3>1, IdleShows DEF TidyInv, Lonely
    <3>3. CASE Refuse(c) /\ ~StatusSave(c)
      <4>1. req[c].op \in {"return", "undo", "finish", "undoFinish", "change"}
        BY Zenon, <2>3, <3>3 DEF ReturnSave, UndoSave, FinishSave, UndoFinishSave, ChangeStatusSave
      <4>2. Placed(order, order.status)
        BY <3>2, <4>1, IdleShows DEF ShowInv
      <4>3. order' = order /\ \A d \in Clients : req'[d] = Idle
        BY <3>2, <3>3 DEF Refuse, CoreInv
      <4> QED
        BY <4>2, <4>3, IdleShows DEF ShowInv
    <3>4. CASE ~Refuse(c) /\ ~StatusSave(c)
      <4>1. Shows(req[c], order) /\ UndoSeen(req[c], order)
        BY <1>1 DEF ShowInv
      <4>2. \E o, next : Save(c, o, next) /\ Placed(o, next)
        BY <1>1, <2>3, <3>4, <4>1, ReturnShows, UndoShows, WritesShow
      <4> QED
        BY <3>2, <4>2, SaveShows
    <3>5. CASE StatusSave(c)
      <4>1. /\ req[c].op = "status" /\ order' = [order EXCEPT !.status = req[c].to]
            /\ req' = [d \in Clients |-> IF d = c THEN Idle ELSE Stale(req[d])]
        BY <3>5 DEF StatusSave
      <4>2. Placed(order, req[c].to)
        BY <4>1 DEF ShowInv, Shows
      <4>3. order'.sheet = order.sheet /\ order'.work = order.work /\ order'.status = req[c].to
        BY <4>1 DEF CoreInv, Orders
      <4>4. Placed(order', order'.status)
        BY <4>2, <4>3, PlacedSame
      <4>5. \A d \in Clients : req'[d] = Idle
        BY <3>2, <4>1, IdleShows
      <4> QED
        BY <4>4, <4>5, IdleShows DEF ShowInv
    <3> QED
      BY <3>3, <3>4, <3>5
  <2> QED
    BY <2>1, <2>2, <2>3 DEF Request
<1>4. CASE UNCHANGED flow
  BY <1>4 DEF flow, ShowInv
<1> QED
  BY <1>2, <1>3, <1>4 DEF Next

LEMMA ShowInit == Init => ShowInv
<1> SUFFICES ASSUME Init PROVE ShowInv
  OBVIOUS
<1>1. /\ \A h \in Holders : order.work[h] = <<>>
      /\ \A c \in Clients : req[c] = Idle
  BY DEF Init
<1>2. \A h \in Holders : OpenAt(order, h) = {}
  BY <1>1 DEF OpenAt
<1>3. Placed(order, order.status)
  BY <1>2, LiveAreTickets DEF Placed
<1> QED
  BY <1>1, <1>3, IdleShows DEF ShowInv

(* Where the lists and the overview put a sheet with something out.         *)
LEMMA ShownInLists ==
    ASSUME CoreInv, Tidy(order), Placed(order, order.status), order.status \in IN_STAGE_STATUSES,
           NEW h \in Sheets, NEW i \in OpenAt(order, h), OutcomeOf(order, h) = "NONE"
    PROVE  /\ At(order.work[h][i].stage) \in OrderListStatuses(order)
           /\ \E p \in OrderPositions(order) : p.stage = order.work[h][i].stage /\ p.working
<1> DEFINE s == order.work[h][i].stage
<1>1. order \in Orders /\ Live(order) \subseteq Tickets /\ Tickets \subseteq Holders
      /\ Parent \in Holders /\ Parent \notin Tickets
  BY LiveAreTickets DEF CoreInv
<1>2. h \in Holders /\ s \in Stages
  BY <1>1, EntryParts DEF Sheets, OpenAt
<1>3. /\ order.status # PLATED /\ At(s) # PLATED
      /\ (At(s) + 1) \div 2 = s /\ At(s) % 2 = 0
  <2>0. s \in Stages /\ order.status \in IN_STAGE_STATUSES
    BY <1>2
  <2>1. s \in {1, 2, 3, 4, 5} /\ At(s) = 2 * s /\ order.status # PLATED /\ PLATED = 11
    <3> HIDE DEF s
    <3> QED
      BY <2>0, StageNumbers, StatusNumbers
  <2> HIDE DEF s
  <2>2. At(s) \in {2, 4, 6, 8, 10} /\ At(s) = s + s
    BY <2>1
  <2> QED
    BY <2>1, <2>2
<1>4. \A n : Position(At(s), n).stage = s /\ Position(At(s), n).working
  BY <1>3 DEF Position
<1>5. CASE Live(order) = {}
  <2>1. h = Parent /\ order.status = At(s)
    BY <1>5 DEF Sheets, Placed
  <2>2. At(s) \in OrderListStatuses(order)
    BY <1>5, <2>1 DEF OrderListStatuses
  <2>3. OrderPositions(order) = {Position(At(s), OrderQty)}
    BY <1>3, <1>5, <2>1 DEF OrderPositions
  <2> QED
    BY <1>4, <2>2, <2>3
<1>6. CASE Live(order) # {}
  <2>1. h \in Running(order)
    BY <1>1, <1>6 DEF Sheets, Running, OutcomeOf
  <2>2. TicketStatus(order, h) = At(s)
    BY <1>1, <1>2, OutStatus
  <2>3. At(s) \in OrderListStatuses(order)
    BY <2>1, <2>2, LiveAreTickets DEF OrderListStatuses
  <2>4. OrderPositions(order) = {Position(TicketStatus(order, t), order.sheet[t].qty) : t \in Running(order)}
    BY <1>3, <1>6 DEF OrderPositions
  <2>5. Position(At(s), order.sheet[h].qty) \in OrderPositions(order)
    BY <2>1, <2>2, <2>4
  <2> QED
    BY <1>4, <2>3, <2>5
<1> QED
  BY <1>5, <1>6

(* What a worker holds shows in the status of the order, in the lists by     *)
(* status and in the overview (deriveOrderStatus, orderListStatuses,        *)
(* orderPositions), as long as every request runs to its end undisturbed:   *)
(* returnStage and undoReturn write the status of the order after their     *)
(* transaction, and one who comes between is not in it.                     *)
THEOREM WorkStaysVisible == Alone => (Spec => []WorkIsVisible)
<1> SUFFICES ASSUME Alone PROVE Spec => []WorkIsVisible
  OBVIOUS
<1>1. Spec => []TidyInv
  BY TidyHolds DEF Undisturbed
<1>2. FlowInv /\ CoreInv /\ TidyInv /\ ShowInv /\ [Next]_flow => ShowInv'
  BY StepShows
<1>3. CoreInv /\ TidyInv /\ ShowInv => WorkIsVisible
  <2> SUFFICES ASSUME CoreInv, TidyInv, ShowInv,
                      order.status \in IN_STAGE_STATUSES, \A c \in Clients : req[c].op # "status"
               PROVE  /\ \A t \in Running(order) : \A i \in OpenAt(order, t) :
                            order.status >= At(order.work[t][i].stage)
                      /\ \A h \in Sheets : \A i \in OpenAt(order, h) :
                            OutcomeOf(order, h) = "NONE" =>
                                /\ At(order.work[h][i].stage) \in OrderListStatuses(order)
                                /\ \E p \in OrderPositions(order) :
                                       p.stage = order.work[h][i].stage /\ p.working
    BY DEF WorkIsVisible, WorkShows, ShownWhereHeld
  <2>1. Placed(order, order.status) /\ Tidy(order)
    BY DEF ShowInv, TidyInv
  <2>2. \A t \in Running(order) : \A i \in OpenAt(order, t) :
            order.status >= At(order.work[t][i].stage)
    BY <2>1 DEF Placed
  <2> QED
    BY <2>1, <2>2, ShownInLists
<1> QED
  BY <1>1, <1>2, <1>3, ShowInit, CoreHolds, PTL DEF Spec

-----------------------------------------------------------------------------
(* The lists.  A parent closed by its receipt has nothing going on, and what *)
(* is prepared for the worker named is there.                               *)
Closed(o) ==
    o.receipt.qty > 0 /\ Live(o) = {} => o.sheet[Parent].pending = 0 /\ Pend(o.work[Parent]) = {}
Offers(o, left) ==
    o.sheet[Parent].claimed =>
        /\ o.sheet[Parent].pending # 0
        /\ o.sheet[Parent].give <= Available(o, Parent)
        /\ o.sheet[Parent].pending = FILING => o.sheet[Parent].give <= left
Listed(o, left) == Closed(o) /\ Offers(o, left)

(* The parent stays as it is.                                               *)
LEMMA ListedSame ==
    ASSUME NEW o, NEW left, Listed(o, left), NEW p,
           p.sheet[Parent] = o.sheet[Parent], p.work[Parent] = o.work[Parent],
           p.receipt.qty > 0 /\ Live(p) = {} => o.receipt.qty > 0 /\ Live(o) = {}
    PROVE  Listed(p, left)
<1>1. Available(p, Parent) = Available(o, Parent)
  BY DEF Available
<1> QED
  BY <1>1 DEF Listed, Closed, Offers

(* Beside tickets the parent is offered to nobody.                          *)
LEMMA ListedTickets ==
    ASSUME NEW o, NEW left, Listed(o, left), Whole(o), Live(o) # {},
           NEW p, NEW rest, Live(p) # {}, p.sheet[Parent] = o.sheet[Parent]
    PROVE  Listed(p, rest)
<1>1. ~o.sheet[Parent].claimed
  BY DEF Listed, Offers, Whole
<1> QED
  BY <1>1 DEF Listed, Closed, Offers

LEMMA DivideListed ==
    ASSUME CoreInv, Listed(order, blanks),
           Split \/ CreateTicket \/ UpdateTicket \/ ClearSplit \/ RemoveTicket
    PROVE  Listed(order', blanks)
<1>1. order \in Orders /\ Whole(order) /\ order'.work = order.work
  BY DivideCore, UpdateTicketCore DEF CoreInv
<1>2. /\ order.sheet \in [Holders -> SheetValues] /\ Live(order) \subseteq Tickets
      /\ Tickets \subseteq Holders /\ Parent \in Holders /\ Parent \notin Tickets
  BY <1>1, OrderParts, LiveAreTickets
<1>3. CASE Split
  <2>1. PICK ts \in SUBSET Tickets : \E f : order' = [order EXCEPT !.sheet =
            [h \in Holders |-> IF h \in ts THEN Sheet(f[h]) ELSE order.sheet[h]]]
    BY Zenon, <1>3 DEF Split, Mutate
  <2>2. PICK f : order' = [order EXCEPT !.sheet =
            [h \in Holders |-> IF h \in ts THEN Sheet(f[h]) ELSE order.sheet[h]]]
    BY <2>1
  <2>3. order'.sheet[Parent] = order.sheet[Parent] /\ order'.receipt = order.receipt
    BY <1>1, <1>2, <2>2 DEF Orders
  <2>4. Live(order) = {}
    BY <1>3 DEF Split
  <2> QED
    BY <1>1, <2>3, <2>4, ListedSame
<1>4. CASE CreateTicket \/ RemoveTicket
  <2>1. PICK t \in Tickets, n \in 0..OrderQty :
          /\ order' = [order EXCEPT !.sheet[t] = Sheet(n)] /\ Live(order) # {}
          /\ n > 0 \/ Cardinality(Live(order)) > 2
    BY <1>2, <1>4, SizeAssumption DEF CreateTicket, RemoveTicket, Mutate
  <2>2. order'.sheet = [order.sheet EXCEPT ![t] = Sheet(n)]
    BY <1>1, <2>1 DEF Orders
  <2>3. \A g \in Holders : g # t => order'.sheet[g] = order.sheet[g]
    BY <1>2, <2>2
  <2>4. Live(order') # {}
    <3>1. CASE n > 0
      <4>1. order'.sheet[t].live
        <5>1. Sheet(n).live = (n > 0) /\ (n > 0) = TRUE
          BY <3>1 DEF Sheet
        <5>2. order'.sheet[t] = Sheet(n)
          BY <1>2, <2>2
        <5> QED
          BY <5>1, <5>2
      <4> QED
        BY <4>1 DEF Live
    <3>2. CASE Cardinality(Live(order)) > 2
      <4>0. Cardinality({t}) = 1
        BY FS_Singleton
      <4>1. Live(order) # {t}
        BY <3>2, <4>0
      <4>2. PICK u \in Live(order) : u # t
        BY <2>1, <4>1
      <4> QED
        BY <1>2, <2>3, <4>2 DEF Live
    <3> QED
      BY <2>1, <3>1, <3>2
  <2> QED
    BY <1>1, <1>2, <2>1, <2>3, <2>4, ListedTickets
<1>5. CASE ClearSplit
  <2>1. /\ Live(order) # {}
        /\ \A t \in Live(order) : StateOf(order, t) = "IDLE"
        /\ order' = [order EXCEPT !.sheet =
                        [h \in Holders |-> IF h = Parent THEN order.sheet[h] ELSE Sheet(0)]]
    BY <1>5 DEF ClearSplit, Mutate
  <2>2. \A t \in Live(order) : order.sheet[t].outcome = "NONE"
    BY <1>1, <1>2, <2>1, IdleHasNothingOut
  <2>3. FinishedQty(order) = 0
    BY <2>2, NoTicketsFinish DEF Ended
  <2>4. ~(order.receipt.qty > 0)
    BY <2>1, <2>3 DEF CoreInv, SumReceipt
  <2>5. order'.sheet[Parent] = order.sheet[Parent] /\ order'.receipt = order.receipt
    BY <1>1, <1>2, <2>1 DEF Orders
  <2> QED
    BY <1>1, <2>4, <2>5, ListedSame
<1>6. CASE UpdateTicket
  <2>1. Live(order) # {}
    BY <1>6 DEF UpdateTicket
  <2>2. \A t \in Tickets : order'.sheet[t].live = order.sheet[t].live
    BY <1>2, <1>6, UpdateTicketCore
  <2>3. Live(order') # {}
    BY <2>1, <2>2 DEF Live
  <2>4. order'.sheet[Parent] = order.sheet[Parent]
    <3>1. PICK t \in Live(order), n \in 1..OrderQty :
            LET others == Live(order) \ {t}
                share == (OrderQty - n) \div Cardinality(others)
                extra == (OrderQty - n) % Cardinality(others)
            IN  \E more \in kSubset(extra, others) :
                    Mutate([order EXCEPT !.sheet = [h \in Holders |->
                        IF h = t THEN [@[h] EXCEPT !.qty = n]
                        ELSE IF h \in others
                             THEN [@[h] EXCEPT !.qty = share + (IF h \in more THEN 1 ELSE 0)]
                        ELSE @[h]]])
      BY <1>6 DEF UpdateTicket
    <3> DEFINE others == Live(order) \ {t}
               share == (OrderQty - n) \div Cardinality(others)
    <3>2. PICK more :
            Mutate([order EXCEPT !.sheet = [h \in Holders |->
                IF h = t THEN [@[h] EXCEPT !.qty = n]
                ELSE IF h \in others
                     THEN [@[h] EXCEPT !.qty = share + (IF h \in more THEN 1 ELSE 0)]
                ELSE @[h]]])
      BY <3>1
    <3>3. Parent # t /\ Parent \notin others
      BY <1>2
    <3> HIDE DEF others, share
    <3> QED
      BY <1>1, <1>2, <3>2, <3>3 DEF Mutate, Orders
  <2> QED
    BY <1>1, <2>1, <2>3, <2>4, ListedTickets
<1> QED
  BY <1>3, <1>4, <1>5, <1>6

LEMMA PendingListed ==
    ASSUME CoreInv, Listed(order, blanks),
           \/ OpenOrderStage \/ AssignOrder \/ Assign
           \/ CancelPending \/ CancelOrderPending \/ Unclaim \/ UnclaimOrder
    PROVE  Listed(order', blanks)
<1>1. order \in Orders /\ Parent \in Holders /\ Tickets \subseteq Holders
  BY LiveAreTickets DEF CoreInv
<1>2. PICK h \in Holders, card \in SheetValues :
               /\ order' = [order EXCEPT !.sheet[h] = card]
               /\ h \in Live(order) \/ h = Parent
               /\ Alike(order.sheet[h], card)
               /\ \/ card.pending = 0 /\ ~card.claimed
                  \/ /\ h # Parent /\ card.pending = order.sheet[h].pending /\ ~card.claimed
                  \/ /\ h = Parent /\ Live(order) = {} /\ StateOf(order, h) = "IDLE"
                     /\ card.pending \in SELF_TAKE_STAGES /\ card.claimed = order.sheet[h].claimed
                     /\ card.give = order.sheet[h].give
                  \/ /\ StateOf(order, h) = "IDLE" /\ card.pending \in Stages
                     /\ h = Parent => Live(order) = {} /\ Given(card.pending, card.give)
  BY PendingActs
<1>3. /\ order'.work = order.work /\ order'.receipt = order.receipt
      /\ order'.sheet[h] = card /\ \A g \in Holders : g # h => order'.sheet[g] = order.sheet[g]
  BY <1>1, <1>2, OneSheetShape
<1>4. Live(order') = Live(order)
  BY <1>1, <1>2, <1>3 DEF Live, Alike
<1>5. CASE h # Parent
  BY <1>1, <1>3, <1>4, <1>5, ListedSame
<1>6. CASE h = Parent /\ card.pending = 0 /\ ~card.claimed
  BY <1>3, <1>4, <1>6 DEF Listed, Closed, Offers
<1>7. CASE h = Parent /\ StateOf(order, h) = "IDLE"
  <2>1. OutcomeOf(order, Parent) = "NONE"
    BY <1>1, <1>7, IdleHasNothingOut
  <2>2. ~(order.receipt.qty > 0)
    BY <2>1, <1>1 DEF OutcomeOf
  <2>3. ~order.sheet[Parent].claimed
    BY <1>1, <1>7, <2>1 DEF StateOf, Listed, Offers
  <2>4. Available(order', Parent) = Available(order, Parent)
          \/ order.work[Parent] = <<>>
    BY <1>3 DEF Available
  <2>5. Offers(order', blanks)
    BY <1>2, <1>3, <1>7, <2>3, <2>4, StageNumbers DEF Offers, Given, Available, Alike
  <2> QED
    BY <1>3, <2>2, <2>5 DEF Listed, Closed
<1> QED
  BY <1>2, <1>5, <1>6, <1>7

LEMMA OutcomeListed ==
    ASSUME CoreInv, Listed(order, blanks), SetOutcome \/ ClearOutcome \/ SetStoneSkipped \/ StockReceipt
    PROVE  Listed(order', blanks)
<1>1. order \in Orders /\ Whole(order) /\ order'.work = order.work
  BY OutcomeCore DEF CoreInv
<1>2. /\ Tickets \subseteq Holders /\ Parent \in Holders /\ Parent \notin Tickets
      /\ Live(order) \subseteq Tickets
  BY LiveAreTickets
<1>3. CASE SetOutcome
  <2>1. PICK t \in Live(order), end \in {"FINISH", "DEFECT"} : order' = SyncOrder(Close(order, t, end))
    BY <1>3 DEF SetOutcome, Mutate
  <2> DEFINE o == Close(order, t, end)
  <2>2. end \in Outcomes /\ t \in Tickets /\ t \in Holders
    BY <1>2, <2>1 DEF Outcomes
  <2>3. /\ o \in Orders /\ o.sheet[t].live = order.sheet[t].live
        /\ \A g \in Holders : g # t => o.sheet[g] = order.sheet[g]
    BY <1>1, <2>2, CloseShape
  <2>4. order' = SyncOrder(o)
    BY <2>1
  <2> HIDE DEF o
  <2>5. order'.sheet = o.sheet
    BY <2>3, <2>4, SyncShape
  <2>6. t \in Live(order')
    BY <2>1, <2>2, <2>3, <2>5 DEF Live
  <2> QED
    BY <1>1, <1>2, <2>1, <2>3, <2>5, <2>6, ListedTickets
<1>4. CASE ClearOutcome
  <2>1. PICK t \in Live(order) :
          order' = SyncOrder([order EXCEPT !.sheet[t].outcome = "NONE", !.sheet[t].good = 0])
    BY Zenon, <1>4 DEF ClearOutcome, Ended, Mutate
  <2> DEFINE c == order.sheet[t]
             card == [c EXCEPT !.outcome = "NONE", !.good = 0]
             o == [order EXCEPT !.sheet[t] = card]
  <2>2. c \in SheetValues /\ t \in Holders /\ t \in Tickets
    BY <1>1, <1>2, SheetParts
  <2>3. [order EXCEPT !.sheet[t].outcome = "NONE", !.sheet[t].good = 0] = o
    BY <1>1, <2>2, OrderParts DEF Orders
  <2>4. card \in SheetValues /\ card.live = c.live
    <3>1. 0 \in Amount /\ "NONE" \in Outcomes
      BY AmountIsNat DEF Outcomes
    <3> HIDE DEF c
    <3> QED
      BY <2>2, <3>1 DEF SheetValues
  <2>5. order' = SyncOrder(o)
    BY <2>1, <2>3
  <2> HIDE DEF card
  <2>6. /\ o \in Orders /\ o.sheet[t] = card
        /\ \A g \in Holders : g # t => o.sheet[g] = order.sheet[g]
    BY <1>1, <2>2, <2>4, OneSheetShape
  <2> HIDE DEF o
  <2>7. order'.sheet = o.sheet
    BY <2>5, <2>6, SyncShape
  <2>8. t \in Live(order')
    BY <2>1, <2>2, <2>4, <2>6, <2>7 DEF Live
  <2> QED
    BY <1>1, <1>2, <2>1, <2>2, <2>6, <2>7, <2>8, ListedTickets
<1>5. CASE SetStoneSkipped \/ StockReceipt
  <2>1. order'.sheet = order.sheet
    BY Zenon, <1>1, <1>5 DEF SetStoneSkipped, StockReceipt, Mutate, Orders
  <2>2. order'.receipt.qty = order.receipt.qty
    <3>1. CASE SetStoneSkipped
      BY <1>1, <3>1 DEF SetStoneSkipped, Mutate, Orders
    <3>2. CASE StockReceipt
      <4>1. PICK n : order'.receipt = [order.receipt EXCEPT !.stocked = n]
        BY <1>1, <3>2 DEF StockReceipt, Mutate, Orders
      <4> QED
        BY <1>1, <4>1 DEF Orders, Receipts
    <3> QED
      BY <1>5, <3>1, <3>2
  <2>3. Live(order') = Live(order)
    BY <2>1 DEF Live
  <2> QED
    BY <1>1, <2>1, <2>2, <2>3, ListedSame
<1> QED
  BY <1>3, <1>4, <1>5

LEMMA ReportListed ==
    ASSUME CoreInv, Listed(order, blanks),
           \/ Submit \/ SubmitOrder \/ ReportStageDefect
           \/ Unsubmit \/ UnsubmitOrder \/ ClearStageDefect \/ CreateRework
    PROVE  Listed(order', blanks)
<1>1. PICK h \in Holders : \E i \in DOMAIN order.work[h], e \in EntryValues :
               /\ Rewrites(order, order', h, i, e)
               /\ e.handed = order.work[h][i].handed /\ e.returned = order.work[h][i].returned
               /\ e.confirmed = order.work[h][i].confirmed
  BY ReportShape
<1>2. PICK i \in DOMAIN order.work[h], e \in EntryValues :
               /\ Rewrites(order, order', h, i, e)
               /\ e.handed = order.work[h][i].handed /\ e.returned = order.work[h][i].returned
               /\ e.confirmed = order.work[h][i].confirmed
  BY <1>1
<1>3. /\ order'.sheet = order.sheet /\ order'.receipt = order.receipt
      /\ DOMAIN order'.work[h] = DOMAIN order.work[h] /\ Len(order'.work[h]) = Len(order.work[h])
      /\ \A j \in DOMAIN order.work[h] :
            /\ order'.work[h][j].handed = order.work[h][j].handed
            /\ order'.work[h][j].returned = order.work[h][j].returned
            /\ order'.work[h][j].confirmed = order.work[h][j].confirmed
      /\ \A g \in Holders : g # h => order'.work[g] = order.work[g]
  BY <1>2 DEF Rewrites
<1>4. order \in Orders /\ Parent \in Holders
  BY LiveAreTickets DEF CoreInv
<1>5. Pend(order'.work[Parent]) = Pend(order.work[Parent])
  <2>1. CASE h = Parent
    BY <1>3, <2>1 DEF Pend
  <2>2. CASE h # Parent
    BY <1>3, <1>4, <2>2
  <2> QED
    BY <2>1, <2>2
<1>6. Available(order', Parent) = Available(order, Parent)
  <2>1. CASE h = Parent
    <3>1. order.work[Parent] # <<>> /\ order'.work[Parent] # <<>>
      BY <1>2, <1>3, <2>1
    <3>2. Len(order.work[Parent]) \in DOMAIN order.work[Parent]
      BY <1>4, <3>1, LastParts
    <3> QED
      BY <1>3, <2>1, <3>1, <3>2 DEF Available, LastOf
  <2>2. CASE h # Parent
    BY <1>3, <1>4, <2>2 DEF Available
  <2> QED
    BY <2>1, <2>2
<1>7. Live(order') = Live(order)
  BY <1>3 DEF Live
<1> QED
  BY <1>3, <1>5, <1>6, <1>7 DEF Listed, Closed, Offers

LEMMA BeginListed ==
    ASSUME CoreInv, Listed(order, blanks), Accept \/ AcceptOrder \/ Take \/ TakeOrder
    PROVE  Listed(order', blanks')
<1>1. PICK h \in Holders, s \in Stages, n \in Amount :
          /\ Begin(h, s, n) /\ Active(order)
          /\ h \in Live(order) \/ (h = Parent /\ Live(order) = {})
  BY WhoBegins
<1>2. /\ OthersStay(order, order', h) /\ order'.receipt = order.receipt
      /\ Alike(order.sheet[h], order'.sheet[h]) /\ ~order'.sheet[h].claimed
  BY <1>1, BeginShape
<1>3. /\ Tickets \subseteq Holders /\ Parent \in Holders /\ Parent \notin Tickets
      /\ Live(order) \subseteq Tickets
  BY LiveAreTickets
<1>4. CASE h \in Live(order)
  <2>1. h \in Live(order')
    BY <1>2, <1>4 DEF Live, Alike
  <2>2. order'.sheet[Parent] = order.sheet[Parent]
    BY <1>2, <1>3, <1>4 DEF OthersStay
  <2> QED
    BY <1>4, <2>1, <2>2, ListedTickets DEF CoreInv
<1>5. CASE h = Parent /\ Live(order) = {}
  <2>1. order.receipt.qty = 0
    BY <1>1, <1>5 DEF Active, Running
  <2>2. ~(order'.receipt.qty > 0)
    BY <1>2, <2>1
  <2> QED
    BY <1>2, <1>5, <2>2 DEF Listed, Closed, Offers
<1> QED
  BY <1>1, <1>4, <1>5

(* A parent with something out is neither closed nor offered.               *)
LEMMA OutIsUnlisted ==
    ASSUME NEW o \in Orders, Tidy(o), Whole(o), NEW left, Listed(o, left),
           NEW i \in Pend(o.work[Parent])
    PROVE  /\ Live(o) = {} /\ o.receipt.qty = 0 /\ o.sheet[Parent].pending = 0
           /\ ~o.sheet[Parent].claimed
<1>1. Parent \in Holders
  BY LiveAreTickets
<1>2. Live(o) = {} /\ o.sheet[Parent].pending = 0
  BY <1>1 DEF Whole, Pend, Tidy, TidyAt, OneHand
<1>3. ~(o.receipt.qty > 0) /\ ~o.sheet[Parent].claimed
  BY <1>2 DEF Listed, Closed, Offers
<1>4. o.receipt.qty \in Nat
  BY DEF Orders, Receipts
<1> QED
  BY <1>2, <1>3, <1>4

LEMMA ConfirmListed ==
    ASSUME CoreInv, Tidy(order), Listed(order, blanks), ConfirmStage
    PROVE  Listed(order', blanks)
<1>1. order \in Orders /\ Whole(order) /\ Tickets \subseteq Holders /\ Parent \in Holders
      /\ Parent \notin Tickets /\ Live(order) \subseteq Tickets
  BY LiveAreTickets DEF CoreInv
<1>2. PICK h \in Holders : \E i \in Unconfirmed(order, h), p \in Orders, closed \in BOOLEAN :
               /\ h \in Live(order) \/ (h = Parent /\ Live(order) = {})
               /\ p.receipt = order.receipt
               /\ \A g \in Holders : g # h => p.sheet[g] = order.sheet[g]
               /\ ~closed => p.sheet = order.sheet
               /\ closed => ~p.sheet[h].claimed /\ p.sheet[h].live = order.sheet[h].live
               /\ order' = SyncOrderAfterStage(p, closed)
  BY ConfirmShape
<1>3. PICK i \in Unconfirmed(order, h), p \in Orders, closed \in BOOLEAN :
               /\ h \in Live(order) \/ (h = Parent /\ Live(order) = {})
               /\ p.receipt = order.receipt
               /\ \A g \in Holders : g # h => p.sheet[g] = order.sheet[g]
               /\ ~closed => p.sheet = order.sheet
               /\ closed => ~p.sheet[h].claimed /\ p.sheet[h].live = order.sheet[h].live
               /\ order' = SyncOrderAfterStage(p, closed)
  BY <1>2
<1>4. order'.sheet = p.sheet
  BY <1>3, SyncAfterShape
<1>5. CASE h \in Live(order)
  <2>1. h \in Live(order') /\ order'.sheet[Parent] = order.sheet[Parent]
    BY <1>1, <1>3, <1>4, <1>5 DEF Live
  <2> QED
    BY <1>1, <1>5, <2>1, ListedTickets
<1>6. CASE h = Parent /\ Live(order) = {}
  <2>1. i \in Pend(order.work[Parent])
    BY <1>6, PendIsBusy
  <2>2. order.receipt.qty = 0 /\ ~order.sheet[Parent].claimed
    BY <1>1, <2>1, OutIsUnlisted
  <2>3. Live(p) = {}
    BY <1>1, <1>3, <1>6 DEF Live
  <2>4. order'.receipt = p.receipt
    <3>1. order' = [p EXCEPT !.status = DeriveStatus(p)]
      BY <1>3, <2>3 DEF SyncOrderAfterStage
    <3> QED
      BY <3>1, DeriveShape
  <2>5. ~(order'.receipt.qty > 0) /\ ~order'.sheet[Parent].claimed
    BY <1>3, <1>4, <1>6, <2>2, <2>4
  <2> QED
    BY <2>5 DEF Listed, Closed, Offers
<1> QED
  BY <1>3, <1>5, <1>6

LEMMA LockedListed ==
    ASSUME CoreInv, Tidy(order), Listed(order, blanks), Office \/ Workshop
    PROVE  Listed(order', blanks')
<1>1. CASE Office
  <2>1. blanks' = blanks
    BY <1>1, OfficeKeeps
  <2>2. CASE Split \/ CreateTicket \/ UpdateTicket \/ ClearSplit \/ RemoveTicket
    BY <2>1, <2>2, DivideListed
  <2>3. CASE \/ OpenOrderStage \/ AssignOrder \/ Assign
             \/ CancelPending \/ CancelOrderPending \/ Unclaim \/ UnclaimOrder
    BY <2>1, <2>3, PendingListed
  <2>4. CASE SetOutcome \/ ClearOutcome \/ SetStoneSkipped
    BY <2>1, <2>4, OutcomeListed
  <2>5. CASE CreateRework
    BY <2>1, <2>5, ReportListed
  <2> QED
    BY <1>1, <2>2, <2>3, <2>4, <2>5 DEF Office
<1>2. CASE Workshop
  <2>1. CASE Accept \/ AcceptOrder \/ Take \/ TakeOrder
    BY <2>1, BeginListed
  <2>2. CASE Submit \/ SubmitOrder \/ ReportStageDefect \/ Unsubmit \/ UnsubmitOrder \/ ClearStageDefect
    BY <2>2, ReportListed, ReportsKeep
  <2>3. CASE StockReceipt
    BY <2>3, OutcomeListed, ReportsKeep
  <2>4. CASE ConfirmStage
    <3>1. blanks' = blanks
      BY Zenon, <2>4 DEF ConfirmStage
    <3> QED
      BY <2>4, <3>1, ConfirmListed
  <2> QED
    BY <1>2, <2>1, <2>2, <2>3, <2>4 DEF Workshop
<1> QED
  BY <1>1, <1>2

-----------------------------------------------------------------------------
(* What a request has seen of the lists.                                    *)
ListsSeen(r, o) ==
    /\ r.op = "undo" => o.receipt.qty = 0 /\ (r.h = Parent => ~o.sheet[Parent].claimed)
    /\ r.op = "finish" =>
        Live(o) = {} /\ o.sheet[Parent].pending = 0 /\ Pend(o.work[Parent]) = {}

ListInv == Listed(order, blanks) /\ \A c \in Clients : ListsSeen(req[c], order)

(* Quality control lets the sheet go on.                                    *)
LEMMA AdvancedTicket ==
    ASSUME NEW saved \in Orders, NEW h \in Tickets, NEW e \in EntryValues, NEW o,
           Advances(saved, o, h, e)
    PROVE  o.sheet[Parent] = saved.sheet[Parent] /\ o.sheet[h].live = saved.sheet[h].live
<1>1. h \in Holders /\ h # Parent /\ Parent \in Holders /\ {"FINISH", "DEFECT"} \subseteq Outcomes
  BY LiveAreTickets DEF Outcomes
<1>2. CASE o = saved
  BY <1>2
<1>3. CASE OthersStay(saved, o, h) /\ Alike(saved.sheet[h], o.sheet[h])
  BY <1>1, <1>3 DEF OthersStay, Alike
<1>4. CASE \E end \in {"FINISH", "DEFECT"} :
              \/ o = SyncOrder(Close(saved, h, end))
              \/ o = SyncOrderAfterStage(Close(saved, h, end), TRUE)
  <2>1. PICK end \in {"FINISH", "DEFECT"} :
            \/ o = SyncOrder(Close(saved, h, end))
            \/ o = SyncOrderAfterStage(Close(saved, h, end), TRUE)
    BY <1>4
  <2>2. PICK q : q = Close(saved, h, end)
    OBVIOUS
  <2>3. end \in Outcomes /\ h \in Holders
    BY <1>1, <2>1
  <2>4. /\ q \in Orders /\ q.sheet[h].live = saved.sheet[h].live
        /\ \A g \in Holders : g # h => q.sheet[g] = saved.sheet[g]
    BY <2>2, <2>3, CloseShape
  <2>5. PICK k \in BOOLEAN : k = TRUE
    OBVIOUS
  <2>6. o = SyncOrder(q) \/ o = SyncOrderAfterStage(q, k)
    BY <2>1, <2>2, <2>5
  <2>7. o.sheet = q.sheet
    BY <2>6, <2>4, SyncShape, SyncAfterShape
  <2> QED
    BY <1>1, <2>7, <2>4
<1>5. \/ o = saved
      \/ e.stage \notin KEEPER_CONFIRM_STAGES /\ o = AdvanceAfterQc(saved, h, e)
      \/ o = SyncOrderAfterStage(Close(saved, h, "DEFECT"), TRUE)
  BY DEF Advances
<1>6. e.stage \notin KEEPER_CONFIRM_STAGES /\ o = AdvanceAfterQc(saved, h, e) =>
        \/ o = saved
        \/ OthersStay(saved, o, h) /\ Alike(saved.sheet[h], o.sheet[h])
        \/ o = SyncOrder(Close(saved, h, "FINISH"))
  BY <1>1, AdvanceShape
<1> QED
  BY <1>2, <1>3, <1>4, <1>5, <1>6

LEMMA AdvancedParent ==
    ASSUME NEW saved \in Orders, NEW e \in EntryValues, NEW o, Advances(saved, o, Parent, e),
           Live(saved) = {}, saved.receipt.qty = 0, saved.sheet[Parent].pending = 0,
           ~saved.sheet[Parent].claimed
    PROVE  /\ ~o.sheet[Parent].claimed
           /\ o.receipt.qty = 0 \/ (o.sheet = saved.sheet /\ o.work = saved.work
                                    /\ e.stage \notin KEEPER_CONFIRM_STAGES)
<1>1. Parent \in Holders
  BY LiveAreTickets
<1>2. \/ o = saved
      \/ e.stage \notin KEEPER_CONFIRM_STAGES /\ o = AdvanceAfterQc(saved, Parent, e)
  BY DEF Advances
<1>3. CASE o = saved
  BY <1>3
<1>4. CASE e.stage \notin KEEPER_CONFIRM_STAGES /\ o = AdvanceAfterQc(saved, Parent, e)
  <2>1. \/ o = saved
        \/ o.receipt = saved.receipt /\ ~o.sheet[Parent].claimed
        \/ o.sheet = saved.sheet /\ o.work = saved.work
    BY <1>1, <1>4, AdvanceShape
  <2> QED
    BY <1>4, <2>1
<1> QED
  BY <1>2, <1>3, <1>4

LEMMA ReturnListed ==
    ASSUME FlowInv, CoreInv, Tidy(order), Listed(order, blanks),
           NEW c \in Clients, ReturnSave(c), ~Refuse(c)
    PROVE  Listed(order', blanks)
<1>1. order \in Orders /\ Whole(order)
  BY DEF CoreInv
<1>2. PICK h \in Holders : \E i \in Busy(order, h), e \in EntryValues, saved \in Orders : \E o, next :
              /\ Rewrites(order, saved, h, i, e)
              /\ e.returned \in Amount /\ e.confirmed = (e.stage \notin KEEPER_CONFIRM_STAGES)
              /\ Advances(saved, o, h, e)
              /\ Save(c, o, next)
  BY ReturnShape
<1>3. PICK i \in Busy(order, h), e \in EntryValues, saved \in Orders :
           \E o, next :
              /\ Rewrites(order, saved, h, i, e)
              /\ e.returned \in Amount /\ e.confirmed = (e.stage \notin KEEPER_CONFIRM_STAGES)
              /\ Advances(saved, o, h, e)
              /\ Save(c, o, next)
  BY <1>2
<1>4. PICK o, next :
              /\ Rewrites(order, saved, h, i, e)
              /\ e.returned \in Amount /\ e.confirmed = (e.stage \notin KEEPER_CONFIRM_STAGES)
              /\ Advances(saved, o, h, e)
              /\ Save(c, o, next)
  BY <1>3
<1>5. order' = o /\ i \in Pend(order.work[h])
  BY <1>4, PendIsBusy DEF Save
<1>6. /\ saved.sheet = order.sheet /\ saved.receipt = order.receipt
      /\ Len(saved.work[h]) = Len(order.work[h])
      /\ DOMAIN saved.work[h] = DOMAIN order.work[h]
      /\ \A j \in DOMAIN order.work[h] : j # i => saved.work[h][j] = order.work[h][j]
      /\ \A g \in Holders : g # h => saved.work[g] = order.work[g]
      /\ saved.work[h][i] = e
  BY <1>4 DEF Rewrites
<1>7. CASE h \in Tickets
  <2>1. order.sheet[h].live
    BY <1>1, <1>5, <1>7, OutIsOpen
  <2>2. o.sheet[Parent] = saved.sheet[Parent] /\ o.sheet[h].live = saved.sheet[h].live
    BY <1>4, <1>7, AdvancedTicket
  <2>3. h \in Live(order) /\ h \in Live(o)
    BY <1>6, <1>7, <2>1, <2>2 DEF Live
  <2> QED
    BY <1>1, <1>5, <1>6, <2>2, <2>3, ListedTickets
<1>8. CASE h = Parent
  <2>1. /\ Live(order) = {} /\ order.receipt.qty = 0 /\ order.sheet[Parent].pending = 0
        /\ ~order.sheet[Parent].claimed
    BY <1>1, <1>5, <1>8, OutIsUnlisted
  <2>2. Live(saved) = {}
    BY <1>6, <2>1 DEF Live
  <2>3. /\ ~o.sheet[Parent].claimed
        /\ o.receipt.qty = 0 \/ (o.sheet = saved.sheet /\ o.work = saved.work
                                 /\ e.stage \notin KEEPER_CONFIRM_STAGES)
    BY <1>4, <1>6, <1>8, <2>1, <2>2, AdvancedParent
  <2>4. saved.work[h][i].returned # NotYet /\ saved.work[h][i].confirmed => Pend(saved.work[h]) = {}
    BY <1>1, <1>5, <1>6, TidyTouched
  <2>5. e.returned # NotYet
    <3>1. e.returned \in Nat
      BY <1>4, AmountIsNat
    <3> QED
      BY <3>1 DEF NotYet
  <2>6. o.receipt.qty = 0 \/ (o.sheet[Parent].pending = 0 /\ Pend(o.work[Parent]) = {})
    BY <1>4, <1>6, <1>8, <2>1, <2>3, <2>4, <2>5
  <2>7. o.receipt.qty > 0 => o.receipt.qty # 0
    OBVIOUS
  <2> QED
    BY <1>5, <2>3, <2>6, <2>7 DEF Listed, Closed, Offers
<1> QED
  BY <1>7, <1>8 DEF Holders

LEMMA UndoListed ==
    ASSUME CoreInv, Listed(order, blanks), NEW c \in Clients,
           UndoSeen(req[c], order), ListsSeen(req[c], order), UndoSave(c)
    PROVE  Listed(order', blanks)
<1>1. /\ order \in Orders /\ Whole(order) /\ Parent \in Holders
      /\ \A t \in Tickets : t # Parent
  BY LiveAreTickets DEF CoreInv
<1>2. PICK h \in Holders : \E i \in DOMAIN order.work[h], auto \in BOOLEAN, e \in EntryValues,
                                 saved \in Orders, o \in Orders :
               /\ req[c].op = "undo" /\ req[c].h = h
               /\ Rewrites(order, saved, h, i, e) /\ OthersStay(saved, o, h)
               /\ o.receipt = saved.receipt /\ o.sheet[h].claimed = saved.sheet[h].claimed
               /\ Alike(saved.sheet[h], o.sheet[h])
               /\ Save(c, o, DeriveStatus(o))
  BY UndoShape
<1>3. PICK i \in DOMAIN order.work[h], auto \in BOOLEAN, e \in EntryValues,
           saved \in Orders, o \in Orders :
               /\ req[c].op = "undo" /\ req[c].h = h
               /\ Rewrites(order, saved, h, i, e) /\ OthersStay(saved, o, h)
               /\ o.receipt = saved.receipt /\ o.sheet[h].claimed = saved.sheet[h].claimed
               /\ Alike(saved.sheet[h], o.sheet[h])
               /\ Save(c, o, DeriveStatus(o))
  BY <1>2
<1>4. order' = o
  BY <1>3 DEF Save
<1>5. /\ saved.sheet = order.sheet /\ saved.receipt = order.receipt
      /\ \A g \in Holders : g # h => saved.work[g] = order.work[g]
  BY <1>3 DEF Rewrites
<1>6. o.receipt.qty = 0 /\ (h = Parent => ~order.sheet[Parent].claimed)
  BY <1>3, <1>5 DEF ListsSeen
<1>7. ~(o.receipt.qty > 0)
  BY <1>6
<1>8. CASE h = Parent
  BY <1>3, <1>4, <1>5, <1>6, <1>7, <1>8 DEF Listed, Closed, Offers
<1>9. CASE h # Parent
  <2>1. o.sheet[Parent] = order.sheet[Parent]
    BY <1>1, <1>3, <1>5, <1>9 DEF OthersStay
  <2>2. o.work[Parent] = order.work[Parent]
    BY <1>1, <1>3, <1>5, <1>9 DEF OthersStay
  <2> QED
    BY <1>4, <1>7, <2>1, <2>2, ListedSame
<1> QED
  BY <1>8, <1>9

LEMMA WritesListed ==
    ASSUME CoreInv, Listed(order, blanks), NEW c \in Clients, ListsSeen(req[c], order), ~Refuse(c),
           FinishSave(c) \/ UndoFinishSave(c) \/ ChangeStatusSave(c) \/ StatusSave(c)
    PROVE  Listed(order', blanks)
<1>1. order \in Orders /\ order'.work = order.work /\ Parent \in Holders
  BY FinishSaveCore, StatusSaveCore, ChangeSaveCore, LiveAreTickets DEF CoreInv
<1>2. CASE FinishSave(c)
  <2>1. /\ Live(order) = {} /\ order.sheet[Parent].pending = 0 /\ Pend(order.work[Parent]) = {}
    BY <1>2 DEF FinishSave, ListsSeen
  <2>2. order'.sheet = order.sheet
    BY <1>1, <1>2 DEF FinishSave, Save, Orders
  <2>3. Available(order', Parent) = Available(order, Parent)
    BY <1>1, <2>2 DEF Available
  <2> QED
    BY <1>1, <2>1, <2>2, <2>3 DEF Listed, Closed, Offers
<1>3. CASE UndoFinishSave(c)
  <2>1. order'.sheet = order.sheet /\ order'.receipt = NoReceipt
    BY <1>1, <1>3 DEF UndoFinishSave, Save, Orders
  <2>2. ~(order'.receipt.qty > 0)
    BY <2>1 DEF NoReceipt
  <2> QED
    BY <1>1, <2>1, <2>2, ListedSame
<1>4. CASE StatusSave(c)
  <2>1. order'.sheet = order.sheet /\ order'.receipt = order.receipt
    BY <1>1, <1>4 DEF StatusSave, Orders
  <2>2. Live(order') = Live(order)
    BY <2>1 DEF Live
  <2> QED
    BY <1>1, <2>1, <2>2, ListedSame
<1>5. CASE ChangeStatusSave(c)
  <2> DEFINE r == req[c]
             x == r.to
             receipt == IF r.leave THEN NoReceipt ELSE order.receipt
             g == [h \in Holders |-> IF h \in ClearSeen(r) THEN ClearPending(order.sheet[h])
                                     ELSE order.sheet[h]]
  <2>1. Save(c, [order EXCEPT !.status = x, !.receipt = receipt, !.sheet = g], x)
    BY <1>5 DEF ChangeStatusSave
  <2>2. \A h \in Holders : order.sheet[h] \in SheetValues
    BY <1>1, SheetParts
  <2>3. \A h \in Holders :
          /\ g[h] = order.sheet[h] \/ g[h] = ClearPending(order.sheet[h])
          /\ ClearPending(order.sheet[h]).live = order.sheet[h].live
          /\ ClearPending(order.sheet[h]).pending = 0 /\ ~ClearPending(order.sheet[h]).claimed
    BY <2>2, ClearedShape
  <2>4. receipt = order.receipt \/ receipt = NoReceipt
    OBVIOUS
  <2> HIDE DEF x, receipt, g, r
  <2>5. order'.sheet = g /\ order'.receipt = receipt
    BY <1>1, <2>1 DEF Save, Orders
  <2>6. \A h \in Holders : order'.sheet[h].live = order.sheet[h].live
    BY <2>3, <2>5
  <2>7. Live(order') = Live(order)
    BY <2>6, LiveAreTickets DEF Live
  <2>8. order'.receipt.qty > 0 => order.receipt.qty > 0
    BY <2>4, <2>5 DEF NoReceipt
  <2>9. CASE order'.sheet[Parent] = order.sheet[Parent]
    BY <1>1, <2>7, <2>8, <2>9, ListedSame
  <2>10. CASE order'.sheet[Parent].pending = 0 /\ ~order'.sheet[Parent].claimed
    BY <1>1, <2>7, <2>8, <2>10 DEF Listed, Closed, Offers
  <2> QED
    BY <1>1, <2>3, <2>5, <2>9, <2>10
<1> QED
  BY <1>2, <1>3, <1>4, <1>5

(* A sheet back from plating has nothing going on.                          *)
LEMMA DoneIsIdle ==
    ASSUME NEW o \in Orders, Tidy(o), Sane(o.work), NEW h \in Holders, LastStageDone(o.work[h])
    PROVE  Pend(o.work[h]) = {}
<1> DEFINE n == Len(o.work[h])
<1>1. o.work[h] # <<>>
  BY StageNumbers DEF LastStageDone, LastStage
<1>2. n \in DOMAIN o.work[h] /\ LastOf(o.work[h]) = o.work[h][n]
  BY <1>1, LastParts
<1>3. o.work[h][n].stage = PLATING /\ o.work[h][n].returned # NotYet
  BY <1>1, <1>2 DEF LastStageDone, LastStage
<1>4. o.work[h][n].stage \notin KEEPER_CONFIRM_STAGES
  BY <1>3, StageNumbers
<1>5. o.work[h][n].confirmed
  BY <1>2, <1>3, <1>4 DEF Sane
<1>6. Pend(o.work[h]) \subseteq {n}
  BY DEF Tidy, TidyAt, OneHand
<1> QED
  BY <1>2, <1>3, <1>5, <1>6 DEF Pend

LEMMA AskLists ==
    ASSUME CoreInv, Tidy(order), Listed(order, blanks), NEW c \in Clients,
           ReturnAsk(c) \/ UndoAsk(c) \/ FinishAsk(c) \/ UndoFinishAsk(c) \/ ChangeStatusAsk(c)
    PROVE  \E r : Ask(c, r) /\ ListsSeen(r, order)
<1>1. order \in Orders /\ Parent \in Holders /\ Sane(order.work)
  BY LiveAreTickets DEF CoreInv
<1>2. CASE ReturnAsk(c)
  <2>1. PICK h, i, good, defect, revise :
            Ask(c, [op |-> "return", h |-> h, i |-> i, good |-> good, defect |-> defect,
                    revise |-> revise, fresh |-> TRUE])
    BY <1>2 DEF ReturnAsk
  <2> QED
    BY <2>1 DEF ListsSeen
<1>3. CASE UndoFinishAsk(c)
  <2>1. PICK to : Ask(c, [op |-> "undoFinish", to |-> to])
    BY <1>3 DEF UndoFinishAsk
  <2> QED
    BY <2>1 DEF ListsSeen
<1>4. CASE ChangeStatusAsk(c)
  <2>1. PICK to, leave, cleared :
            Ask(c, [op |-> "change", to |-> to, leave |-> leave, cleared |-> cleared])
    BY <1>4 DEF ChangeStatusAsk
  <2> QED
    BY <2>1 DEF ListsSeen
<1>5. CASE UndoAsk(c)
  <2>1. PICK h, i, auto :
          /\ Ask(c, [op |-> "undo", h |-> h, i |-> i, auto |-> auto])
          /\ order.receipt.qty = 0
          /\ order.sheet[h].pending # 0 => ~order.sheet[h].claimed
    BY <1>5 DEF UndoAsk
  <2>2. h = Parent => ~order.sheet[Parent].claimed
    BY <2>1 DEF Listed, Offers
  <2> QED
    BY <2>1, <2>2 DEF ListsSeen
<1>6. CASE FinishAsk(c)
  <2>1. PICK n : Ask(c, [op |-> "finish", qty |-> n])
    BY <1>6 DEF FinishAsk
  <2>2. Live(order) = {} /\ order.sheet[Parent].pending = 0 /\ LastStageDone(order.work[Parent])
    BY <1>6 DEF FinishAsk
  <2>3. Pend(order.work[Parent]) = {}
    BY <1>1, <2>2, DoneIsIdle
  <2> QED
    BY <2>1, <2>2, <2>3 DEF ListsSeen
<1> QED
  BY <1>2, <1>3, <1>4, <1>5, <1>6

LEMMA SomethingSaved ==
    ASSUME FlowInv, CoreInv, NEW c \in Clients, ~Refuse(c),
           ReturnSave(c) \/ UndoSave(c) \/ FinishSave(c) \/ UndoFinishSave(c) \/ ChangeStatusSave(c)
    PROVE  \E o, next : Save(c, o, next)
<1>1. CASE ReturnSave(c)
  BY Zenon, <1>1 DEF ReturnSave
<1>2. CASE UndoSave(c)
  BY Zenon, <1>2 DEF UndoSave
<1>3. CASE FinishSave(c) \/ UndoFinishSave(c) \/ ChangeStatusSave(c)
  BY Zenon, <1>3 DEF FinishSave, UndoFinishSave, ChangeStatusSave
<1> QED
  BY <1>1, <1>2, <1>3

LEMMA StepListed ==
    ASSUME Alone, FlowInv, CoreInv, TidyInv, ListInv, [Next]_flow
    PROVE  ListInv'
<1>0. /\ Idle.op = "idle" /\ Stale(Idle) = Idle /\ \A o : ListsSeen(Idle, o)
  BY DEF Idle, Stale, ListsSeen
<1>1. /\ Tidy(order) /\ Listed(order, blanks)
      /\ \A c \in Clients : UndoSeen(req[c], order) /\ ListsSeen(req[c], order)
  BY DEF TidyInv, ListInv
<1>2. CASE Office \/ Workshop
  <2>1. \A c \in Clients : req[c] = Idle
    BY <1>2, LockedStep DEF Quiet
  <2>2. \A c \in Clients : req'[c] = Idle
    BY <1>0, <1>2, <2>1, LockedStep
  <2>3. Listed(order', blanks')
    BY <1>1, <1>2, LockedListed
  <2> QED
    BY <1>0, <2>2, <2>3 DEF ListInv
<1>3. CASE \E c \in Clients : Request(c)
  <2>1. PICK c \in Clients : Request(c)
    BY <1>3
  <2>2. CASE ReturnAsk(c) \/ UndoAsk(c) \/ FinishAsk(c) \/ UndoFinishAsk(c) \/ ChangeStatusAsk(c)
    <3>1. PICK r : Ask(c, r) /\ ListsSeen(r, order)
      BY <1>1, <2>2, AskLists
    <3>2. /\ order' = order /\ blanks' = blanks /\ req' = [req EXCEPT ![c] = r]
          /\ \A d \in Clients : req[d] = Idle
      BY <3>1 DEF Ask, Quiet
    <3>3. \A d \in Clients : req'[d] = r \/ req'[d] = Idle
      BY <3>2 DEF CoreInv
    <3> QED
      BY <1>0, <1>1, <3>1, <3>2, <3>3 DEF ListInv
  <2>3. CASE \/ ReturnSave(c) \/ UndoSave(c) \/ FinishSave(c) \/ UndoFinishSave(c)
             \/ ChangeStatusSave(c) \/ StatusSave(c)
    <3>1. req[c].op \in {"return", "undo", "finish", "undoFinish", "change", "status"}
      BY Zenon, <2>3 DEF ReturnSave, UndoSave, FinishSave, UndoFinishSave, ChangeStatusSave, StatusSave
    <3>2. \A d \in Clients : d # c => req[d] = Idle
      BY <1>0, <3>1 DEF TidyInv, Lonely
    <3>3. blanks' = blanks
      BY <2>1, RequestsKeep
    <3>4. CASE Refuse(c)
      <4>1. order' = order /\ \A d \in Clients : req'[d] = Idle
        BY <3>2, <3>4 DEF Refuse, CoreInv
      <4> QED
        BY <1>0, <1>1, <3>3, <4>1 DEF ListInv
    <3>5. CASE ~Refuse(c)
      <4>1. Listed(order', blanks)
        BY <1>1, <2>3, <3>5, ReturnListed, UndoListed, WritesListed
      <4>2. \A d \in Clients : req'[d].op \in {"idle", "status"}
        <5>1. CASE StatusSave(c)
          BY <1>0, <3>2, <5>1 DEF StatusSave
        <5>2. CASE ~StatusSave(c)
          <6>1. \E o, next : Save(c, o, next)
            BY <1>1, <2>3, <3>5, <5>2, SomethingSaved
          <6> QED
            BY <1>0, <3>2, <6>1 DEF Save
        <5> QED
          BY <5>1, <5>2
      <4> QED
        BY <3>3, <4>1, <4>2 DEF ListInv, ListsSeen
    <3> QED
      BY <3>4, <3>5
  <2> QED
    BY <2>1, <2>2, <2>3 DEF Request
<1>4. CASE UNCHANGED flow
  BY <1>4 DEF flow, ListInv
<1> QED
  BY <1>2, <1>3, <1>4 DEF Next

LEMMA ListInit == Init => ListInv
<1> SUFFICES ASSUME Init PROVE ListInv
  OBVIOUS
<1>1. /\ order.receipt = NoReceipt /\ order.sheet[Parent] = Sheet(OrderQty)
      /\ \A c \in Clients : req[c] = Idle
  BY LiveAreTickets DEF Init
<1>2. ~order.sheet[Parent].claimed /\ ~(order.receipt.qty > 0)
  BY <1>1 DEF Sheet, NoReceipt
<1> QED
  BY <1>1, <1>2 DEF ListInv, Listed, Closed, Offers, ListsSeen, Idle

-----------------------------------------------------------------------------
(* Who finds the sheet on his list.                                         *)
LEMMA WhoFinds ==
    ASSUME CoreInv, Tidy(order), NEW h \in Sheets
    PROVE  /\ h \in Holders /\ (h # Parent => h \in Live(order)) /\ (h = Parent => Live(order) = {})
           /\ h \in InHand(order) <=> OpenAt(order, h) # {}
           /\ h \in QcWorking(order) <=> \E i \in OpenAt(order, h) : ~order.work[h][i].done
           /\ h \in QcPending(order) <=> \E i \in OpenAt(order, h) : order.work[h][i].done
           /\ h \in QcConfirming(order) <=> Unconfirmed(order, h) # {}
           /\ h = Parent => (h \in Offered(order) <=> order.sheet[h].pending # 0)
           /\ h # Parent =>
                (h \in Offered(order) <=>
                    \/ order.sheet[h].claimed /\ order.sheet[h].pending # 0
                    \/ /\ ~order.sheet[h].claimed /\ order.sheet[h].outcome = "NONE"
                       /\ order.sheet[h].pending \in SELF_TAKE_STAGES)
           /\ h \in Finishable(order) <=>
                /\ order.sheet[h].pending = 0 /\ OpenAt(order, h) = {}
                /\ LastStageDone(order.work[h])
                /\ h = Parent => order.receipt.qty = 0 /\ order.status # NEW_ORDER
                /\ h # Parent => order.sheet[h].outcome = "NONE"
<1>1. /\ Live(order) \subseteq Tickets /\ Running(order) \subseteq Live(order)
      /\ Tickets \subseteq Holders /\ Parent \in Holders /\ Parent \notin Tickets
  BY LiveAreTickets
<1>2. h \in Holders /\ (h # Parent => h \in Live(order)) /\ (h = Parent => Live(order) = {})
  BY <1>1 DEF Sheets
<1>3. ByTicket(order, h)
  BY <1>2 DEF ByTicket
<1>4. h \in InHand(order) <=> OpenAt(order, h) # {}
  BY <1>1, <1>2 DEF InHand, WorkingTickets, WorkingOrder
<1>5. /\ h \in QcWorking(order) <=> \E i \in OpenAt(order, h) : ~order.work[h][i].done
      /\ h \in QcPending(order) <=> \E i \in OpenAt(order, h) : order.work[h][i].done
  BY <1>2, <1>3 DEF QcWorking, QcPending
<1>6. h \in QcConfirming(order) <=> Unconfirmed(order, h) # {}
  <2>1. \A i \in Unconfirmed(order, h) : order.work[h][i].stage \in KEEPER_CONFIRM_STAGES
    BY <1>2 DEF CoreInv, Sane, Unconfirmed
  <2> QED
    BY <1>2, <1>3, <2>1 DEF QcConfirming
<1>7. h = Parent => (h \in Offered(order) <=> order.sheet[h].pending # 0)
  BY <1>1, <1>2 DEF Offered, ClaimedTickets, OpenTickets, PendingOrder
<1>8. h # Parent =>
        (h \in Offered(order) <=>
            \/ order.sheet[h].claimed /\ order.sheet[h].pending # 0
            \/ /\ ~order.sheet[h].claimed /\ order.sheet[h].outcome = "NONE"
               /\ order.sheet[h].pending \in SELF_TAKE_STAGES)
  BY <1>1, <1>2 DEF Offered, ClaimedTickets, OpenTickets, PendingOrder, Running
<1>9. h \in Finishable(order) <=>
        /\ order.sheet[h].pending = 0 /\ OpenAt(order, h) = {}
        /\ LastStageDone(order.work[h])
        /\ h = Parent => order.receipt.qty = 0 /\ order.status # NEW_ORDER
        /\ h # Parent => order.sheet[h].outcome = "NONE"
  BY <1>2 DEF Finishable, Live
<1> QED
  BY <1>2, <1>4, <1>5, <1>6, <1>7, <1>8, <1>9

(* Something is out: the worker's and one list of quality control, or the    *)
(* keeper's.                                                                *)
LEMMA BusyOnOne ==
    ASSUME CoreInv, Tidy(order), Closed(order), NEW h \in Sheets, Pend(order.work[h]) # {}
    PROVE  /\ StateOf(order, h) = "BUSY"
           /\ h \notin Offered(order) /\ h \notin Finishable(order)
           /\ \/ h \in QcWorking(order) /\ h \notin QcPending(order) /\ h \notin QcConfirming(order)
              \/ h \notin QcWorking(order) /\ h \in QcPending(order) /\ h \notin QcConfirming(order)
              \/ h \notin QcWorking(order) /\ h \notin QcPending(order) /\ h \in QcConfirming(order)
<1>1. order \in Orders /\ Whole(order) /\ Sane(order.work)
  BY DEF CoreInv
<1>2. h \in Holders /\ (h # Parent => h \in Tickets) /\ (h = Parent => Live(order) = {})
  BY WhoFinds, LiveAreTickets
<1>3. PICK i \in Pend(order.work[h]) : TRUE
  OBVIOUS
<1>4. /\ Pend(order.work[h]) = {i} /\ i = Len(order.work[h]) /\ order.sheet[h].pending = 0
      /\ h \in Tickets => order.sheet[h].outcome = "NONE"
  BY <1>1, <1>2, <1>3, OutIsOpen
<1>5. i \in DOMAIN order.work[h] /\ (order.work[h][i].returned = NotYet \/ ~order.work[h][i].confirmed)
  BY <1>3 DEF Pend
<1>6. OutcomeOf(order, h) = "NONE"
  <2>1. CASE h # Parent
    BY <1>2, <1>4, <2>1 DEF OutcomeOf
  <2>2. CASE h = Parent
    <3>1. ~(order.receipt.qty > 0)
      BY <1>2, <1>3, <2>2 DEF Closed
    <3>2. ~AllDefect(order.work[h])
      BY <1>4, <1>5 DEF AllDefect, LastOf, NotYet
    <3> QED
      BY <2>2, <3>1, <3>2 DEF OutcomeOf
  <2> QED
    BY <2>1, <2>2
<1>7. OpenAt(order, h) \cup Unconfirmed(order, h) = {i} /\ Busy(order, h) = {i}
  BY <1>4, PendIsBusy
<1>8. StateOf(order, h) = "BUSY"
  BY <1>6, <1>7 DEF StateOf
<1>9. h \notin Finishable(order)
  BY <1>1, <1>2, <1>4, DoneIsIdle, WhoFinds
<1>10. h \notin Offered(order)
  BY <1>4, StageNumbers, WhoFinds
<1>11. order.work[h][i].done \in BOOLEAN
  BY <1>1, <1>2, <1>5, EntryParts
<1>12. CASE order.work[h][i].returned = NotYet
  <2>1. OpenAt(order, h) = {i} /\ Unconfirmed(order, h) = {}
    BY <1>5, <1>7, <1>12 DEF OpenAt, Unconfirmed
  <2> QED
    BY <1>8, <1>9, <1>10, <1>11, <2>1, WhoFinds
<1>13. CASE order.work[h][i].returned # NotYet
  <2>1. OpenAt(order, h) = {} /\ Unconfirmed(order, h) = {i}
    BY <1>5, <1>7, <1>13 DEF OpenAt, Unconfirmed
  <2> QED
    BY <1>8, <1>9, <1>10, <2>1, WhoFinds
<1> QED
  BY <1>12, <1>13

(* Nothing is out: nobody but the one it is opened for, or the one who       *)
(* closes it, finds it.                                                     *)
LEMMA IdleOnOne ==
    ASSUME CoreInv, Tidy(order), Closed(order), NEW h \in Sheets, Pend(order.work[h]) = {}
    PROVE  /\ h \notin InHand(order) /\ h \notin QcWorking(order) /\ h \notin QcPending(order)
           /\ h \notin QcConfirming(order)
           /\ \/ /\ StateOf(order, h) \in {"FINISH", "DEFECT"}
                 /\ h \notin Offered(order) /\ h \notin Finishable(order)
              \/ StateOf(order, h) = "IDLE" /\ h \notin Offered(order)
              \/ /\ StateOf(order, h) = "CLAIMED"
                 /\ h \in Offered(order) /\ h \notin Finishable(order)
              \/ /\ StateOf(order, h) = "WAITING" /\ h \notin Finishable(order)
                 /\ h \in Offered(order) <=> h = Parent \/ order.sheet[h].pending \in SELF_TAKE_STAGES
<1>1. order \in Orders /\ Whole(order) /\ Sane(order.work) /\ order.receipt.qty \in Nat
  BY DEF CoreInv, Orders, Receipts
<1>2. h \in Holders /\ (h # Parent => h \in Live(order) /\ h \in Tickets) /\ (h = Parent => Live(order) = {})
  BY WhoFinds, LiveAreTickets
<1>3. OpenAt(order, h) = {} /\ Unconfirmed(order, h) = {} /\ Busy(order, h) = {}
  BY PendIsBusy
<1>4. /\ h \notin InHand(order) /\ h \notin QcWorking(order) /\ h \notin QcPending(order)
      /\ h \notin QcConfirming(order)
  BY <1>3, WhoFinds
<1>5. 0 \notin SELF_TAKE_STAGES
  BY StageNumbers
<1>6. CASE h # Parent /\ OutcomeOf(order, h) # "NONE"
  <2>1. order.sheet[h].outcome # "NONE" /\ order.sheet[h].live
    BY <1>2, <1>6 DEF OutcomeOf, Live
  <2>2. order.sheet[h].pending = 0
    BY <1>2, <1>6, <2>1 DEF Tidy, TidyAt, Settled
  <2>3. StateOf(order, h) \in {"FINISH", "DEFECT"}
    <3>1. order.sheet[h].outcome \in {"NONE", "FINISH", "DEFECT"}
      BY <1>1, <1>2, SheetParts DEF Outcomes
    <3> QED
      BY <1>6, <2>1, <3>1 DEF StateOf, OutcomeOf
  <2> QED
    BY <1>4, <1>5, <1>6, <2>1, <2>2, <2>3, WhoFinds
<1>7. CASE h = Parent /\ OutcomeOf(order, h) # "NONE"
  <2>1. StateOf(order, h) \in {"FINISH", "DEFECT"}
    BY <1>7 DEF StateOf, OutcomeOf
  <2>2. CASE order.receipt.qty > 0
    <3>1. order.sheet[h].pending = 0
      BY <1>2, <1>7, <2>2 DEF Closed
    <3>2. order.receipt.qty # 0
      BY <2>2
    <3> QED
      BY <1>4, <1>7, <2>1, <3>1, <3>2, WhoFinds
  <2>3. CASE ~(order.receipt.qty > 0)
    <3>1. order.sheet[h].pending = 0 /\ AllDefect(order.work[h])
      BY <1>7, <2>3 DEF OutcomeOf
    <3>2. ~LastStageDone(order.work[h])
      <4>1. order.work[h] # <<>> /\ LastOf(order.work[h]).returned = 0
        BY <3>1 DEF AllDefect
      <4>2. PICK n : n \in DOMAIN order.work[h] /\ LastOf(order.work[h]) = order.work[h][n]
        BY <1>1, <1>2, <4>1, LastParts
      <4>3. order.work[h][n].stage \in DEFECT_REPORT_STAGES
        BY <1>2, <4>1, <4>2 DEF Sane, NotYet, CoreInv
      <4> QED
        BY <4>1, <4>2, <4>3, StageNumbers DEF LastStageDone, LastStage
    <3> QED
      BY <1>4, <1>7, <2>1, <3>1, <3>2, WhoFinds
  <2> QED
    BY <2>2, <2>3
<1>8. CASE OutcomeOf(order, h) = "NONE"
  <2>1. h # Parent => order.sheet[h].outcome = "NONE"
    BY <1>8 DEF OutcomeOf
  <2>2. CASE order.sheet[h].pending = 0
    <3>1. StateOf(order, h) = "IDLE"
      BY <1>3, <1>8, <2>2 DEF StateOf
    <3> QED
      BY <1>4, <1>5, <2>2, <3>1, WhoFinds
  <2>3. CASE order.sheet[h].pending # 0 /\ order.sheet[h].claimed
    <3>1. StateOf(order, h) = "CLAIMED"
      BY <1>3, <1>8, <2>3 DEF StateOf
    <3> QED
      BY <1>4, <2>3, <3>1, WhoFinds
  <2>4. CASE order.sheet[h].pending # 0 /\ ~order.sheet[h].claimed
    <3>1. StateOf(order, h) = "WAITING"
      BY <1>3, <1>8, <2>4 DEF StateOf
    <3> QED
      BY <1>4, <2>1, <2>4, <3>1, WhoFinds
  <2> QED
    BY <2>2, <2>3, <2>4
<1> QED
  BY <1>6, <1>7, <1>8

LEMMA ListsAreOne ==
    ASSUME CoreInv, Tidy(order), Closed(order)
    PROVE  OnOneList
<1> SUFFICES ASSUME NEW h \in Sheets
             PROVE  LET state == StateOf(order, h)
                        on(list) == h \in list
                    IN  /\ on(InHand(order)) <=> on(QcWorking(order)) \/ on(QcPending(order))
                        /\ Cardinality({l \in {"offered", "working", "pending", "confirming", "finish"} :
                               CASE l = "offered" -> on(Offered(order))
                                 [] l = "working" -> on(QcWorking(order))
                                 [] l = "pending" -> on(QcPending(order))
                                 [] l = "confirming" -> on(QcConfirming(order))
                                 [] l = "finish" -> on(Finishable(order))}) =
                           (IF \/ state \in {"FINISH", "DEFECT"}
                               \/ state = "IDLE" /\ ~on(Finishable(order))
                               \/ /\ state = "WAITING" /\ h # Parent
                                  /\ order.sheet[h].pending \notin SELF_TAKE_STAGES
                            THEN 0 ELSE 1)
  BY DEF OnOneList
<1> DEFINE offered == h \in Offered(order)
           working == h \in QcWorking(order)
           pending == h \in QcPending(order)
           confirming == h \in QcConfirming(order)
           finish == h \in Finishable(order)
           state == StateOf(order, h)
           none == \/ state \in {"FINISH", "DEFECT"}
                   \/ state = "IDLE" /\ ~finish
                   \/ state = "WAITING" /\ h # Parent /\ order.sheet[h].pending \notin SELF_TAKE_STAGES
           lists == {l \in {"offered", "working", "pending", "confirming", "finish"} :
                        CASE l = "offered" -> offered
                          [] l = "working" -> working
                          [] l = "pending" -> pending
                          [] l = "confirming" -> confirming
                          [] l = "finish" -> finish}
<1>1. h \in InHand(order) <=> working \/ pending
  <2>1. \A i \in OpenAt(order, h) : order.work[h][i].done \/ ~order.work[h][i].done
    OBVIOUS
  <2> QED
    BY <2>1, WhoFinds
<1>2. \/ none /\ ~offered /\ ~working /\ ~pending /\ ~confirming /\ ~finish
      \/ ~none /\ offered /\ ~working /\ ~pending /\ ~confirming /\ ~finish
      \/ ~none /\ ~offered /\ working /\ ~pending /\ ~confirming /\ ~finish
      \/ ~none /\ ~offered /\ ~working /\ pending /\ ~confirming /\ ~finish
      \/ ~none /\ ~offered /\ ~working /\ ~pending /\ confirming /\ ~finish
      \/ ~none /\ ~offered /\ ~working /\ ~pending /\ ~confirming /\ finish
  <2>1. CASE Pend(order.work[h]) # {}
    BY <2>1, BusyOnOne
  <2>2. CASE Pend(order.work[h]) = {}
    BY <2>2, IdleOnOne
  <2> QED
    BY <2>1, <2>2
<1> SUFFICES Cardinality(lists) = IF none THEN 0 ELSE 1
  BY <1>1
<1> HIDE DEF offered, working, pending, confirming, finish, none
<1>3. /\ none => lists = {}
      /\ ~none => \E l : lists = {l}
  <2>1. CASE none /\ ~offered /\ ~working /\ ~pending /\ ~confirming /\ ~finish
    BY <2>1
  <2>2. CASE ~none /\ offered /\ ~working /\ ~pending /\ ~confirming /\ ~finish
    <3>1. lists = {"offered"}
      BY <2>2
    <3> QED
      BY <2>2, <3>1
  <2>3. CASE ~none /\ ~offered /\ working /\ ~pending /\ ~confirming /\ ~finish
    <3>1. lists = {"working"}
      BY <2>3
    <3> QED
      BY <2>3, <3>1
  <2>4. CASE ~none /\ ~offered /\ ~working /\ pending /\ ~confirming /\ ~finish
    <3>1. lists = {"pending"}
      BY <2>4
    <3> QED
      BY <2>4, <3>1
  <2>5. CASE ~none /\ ~offered /\ ~working /\ ~pending /\ confirming /\ ~finish
    <3>1. lists = {"confirming"}
      BY <2>5
    <3> QED
      BY <2>5, <3>1
  <2>6. CASE ~none /\ ~offered /\ ~working /\ ~pending /\ ~confirming /\ finish
    <3>1. lists = {"finish"}
      BY <2>6
    <3> QED
      BY <2>6, <3>1
  <2> QED
    BY <1>2, <2>1, <2>2, <2>3, <2>4, <2>5, <2>6
<1> HIDE DEF lists
<1>4. CASE none
  BY <1>3, <1>4, FS_EmptySet
<1>5. CASE ~none
  BY <1>3, <1>5, FS_Singleton
<1> QED
  BY <1>4, <1>5

(* Whoever is to act next finds the sheet on his list and on no other, and   *)
(* what is prepared for the worker named is there when he comes (myTickets, *)
(* qcTickets), as long as every request runs to its end undisturbed.        *)
THEOREM ListsAreTrue == Alone => (Spec => []ListsTellTruth)
<1> SUFFICES ASSUME Alone PROVE Spec => []ListsTellTruth
  OBVIOUS
<1>1. Spec => []TidyInv
  BY TidyHolds DEF Undisturbed
<1>2. FlowInv /\ CoreInv /\ TidyInv /\ ListInv /\ [Next]_flow => ListInv'
  BY StepListed
<1>3. CoreInv /\ TidyInv /\ ListInv => ListsTellTruth
  <2> SUFFICES ASSUME CoreInv, TidyInv, ListInv PROVE OnOneList /\ OfferHolds
    BY DEF ListsTellTruth
  <2>1. Tidy(order) /\ Closed(order) /\ Offers(order, blanks)
    BY DEF TidyInv, ListInv, Listed
  <2>2. OfferHolds
    BY <2>1 DEF Offers, OfferHolds
  <2> QED
    BY <2>1, <2>2, ListsAreOne
<1> QED
  BY <1>1, <1>2, <1>3, ListInit, CoreHolds, PTL DEF Spec
=============================================================================
