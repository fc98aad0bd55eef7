--------------------------- MODULE StageFlow_proofs ---------------------------
(***************************************************************************)
(* One production order in the workshop, for any number of sub-tickets, of  *)
(* pieces and of requests in flight: what the keeper confirmed stays as it  *)
(* is (ConfirmedResultsStay); types and stores (StageTypeCorrect,           *)
(* NoPieceIsLost); a sheet is in one hand at a time (OneHandAtATime) and     *)
(* the tickets stay within the order (DividedWithinOrder), these two as     *)
(* long as nobody takes a step back beside another request.                 *)
(***************************************************************************)
EXTENDS StageFlow, SumLemmas

(* A stage entry and a ticket, without the bounds of their numbers.         *)
Rows == [stage : Int, handed : Int, done : BOOLEAN, returned : Int, defect : Int,
         confirmed : BOOLEAN, tries : Int, rework : BOOLEAN]
Cards == [live : BOOLEAN, qty : Int, pending : Int, claimed : BOOLEAN, give : Int,
          outcome : Outcomes, good : Int]

Proper(o) ==
    o \in [status : {o.status}, skip : {o.skip}, receipt : {o.receipt},
           sheet : [Holders -> Cards], work : [Holders -> Seq(Rows)]]

(* Entries the keeper confirms came back first.                             *)
CameBack(w) == \A h \in Holders : \A i \in DOMAIN w[h] :
    w[h][i].stage \in KEEPER_CONFIRM_STAGES /\ w[h][i].confirmed => w[h][i].returned # NotYet

ReturnRequests ==
    [op : {"return"}, h : Holders, i : Nat, good : Amount, defect : Amount,
     revise : BOOLEAN, fresh : BOOLEAN]
UndoRequests == [op : {"undo"}, h : Holders, i : Nat, auto : BOOLEAN]

(* What a request in flight knows of the entry it is about: a return whose   *)
(* copy is fresh, that the keeper has not confirmed it; an undo, that no    *)
(* keeper ever will.                                                        *)
Knows(r, w) ==
    /\ r.op = "return" =>
        /\ r \in ReturnRequests /\ r.i \in DOMAIN w[r.h]
        /\ r.fresh /\ w[r.h][r.i].stage \in KEEPER_CONFIRM_STAGES => ~w[r.h][r.i].confirmed
    /\ r.op = "undo" =>
        /\ r \in UndoRequests /\ r.i \in DOMAIN w[r.h]
        /\ w[r.h][r.i].stage \notin KEEPER_CONFIRM_STAGES

FlowInv ==
    /\ Proper(order)
    /\ CameBack(order.work)
    /\ req = [c \in Clients |-> req[c]]
    /\ \A c \in Clients : Knows(req[c], order.work)

(* The entries of v are those of w gone on, and some new ones.              *)
Follows(w, v) == \A h \in Holders : \A i \in DOMAIN w[h] :
    /\ i \in DOMAIN v[h] /\ v[h][i].stage = w[h][i].stage
    /\ w[h][i].confirmed /\ w[h][i].stage \in KEEPER_CONFIRM_STAGES =>
        /\ v[h][i] = [w[h][i] EXCEPT !.rework = v[h][i].rework]
        /\ w[h][i].rework => v[h][i].rework

-----------------------------------------------------------------------------
LEMMA MinIsMember ==
    ASSUME NEW S \in SUBSET Nat, S # {}
    PROVE  Min(S) \in S /\ \A n \in S : Min(S) <= n
<1> DEFINE T == {0..n : n \in S}
<1>1. T \subseteq FiniteSubsetsOf(Nat) /\ T # {}
  <2>1. \A n \in S : 0..n \subseteq Nat /\ IsFiniteSet(0..n)
    BY FS_Interval
  <2> QED
    BY <2>1 DEF FiniteSubsetsOf
<1>2. PICK t \in T : \A u \in T : <<u, t>> \notin StrictSubsetOrdering(Nat)
  BY <1>1, FS_StrictSubsetOrderingWellFounded, WFMin
<1>3. PICK m \in S : t = 0..m
  OBVIOUS
<1>4. ASSUME NEW n \in S PROVE m <= n
  <2>1. <<0..n, 0..m>> \notin StrictSubsetOrdering(Nat)
    BY <1>2, <1>3
  <2>2. n < m => 0..n \subseteq 0..m /\ 0..n # 0..m /\ 0..n \subseteq Nat /\ 0..m \subseteq Nat
    <3> SUFFICES ASSUME n < m PROVE 0..n \subseteq 0..m /\ m \in 0..m /\ m \notin 0..n
      OBVIOUS
    <3> QED
      OBVIOUS
  <2> QED
    BY <2>1, <2>2 DEF StrictSubsetOrdering
<1> QED
  BY <1>4 DEF Min

-----------------------------------------------------------------------------
(* The receipt, the status and the closing of a ticket touch no entry.      *)
LEMMA ProperStatus ==
    ASSUME NEW o, Proper(o), NEW x, NEW p, p = [o EXCEPT !.status = x]
    PROVE  Proper(p) /\ p.work = o.work
  BY DEF Proper

LEMMA AvailableIsInt ==
    ASSUME NEW o, Proper(o), NEW h \in Holders
    PROVE  Available(o, h) \in Int
<1>1. o.work[h] \in Seq(Rows) /\ o.sheet[h] \in Cards
  BY DEF Proper
<1>2. o.work[h] # <<>> => LastOf(o.work[h]) \in Rows
  BY <1>1 DEF LastOf
<1> QED
  BY <1>1, <1>2 DEF Available, Cards, Rows

LEMMA ClearedIsCard ==
    ASSUME NEW c \in Cards
    PROVE  ClearPending(c) \in Cards
<1>1. [c EXCEPT !.pending = 0] \in Cards
  BY DEF Cards
<1>2. [c EXCEPT !.pending = 0, !.claimed = FALSE] \in Cards
  BY <1>1 DEF Cards
<1>3. [c EXCEPT !.pending = 0, !.claimed = FALSE, !.give = 0] \in Cards
  BY <1>2 DEF Cards
<1> QED
  BY <1>3 DEF ClearPending

LEMMA ProperClose ==
    ASSUME NEW o, Proper(o), NEW t \in Holders, NEW end \in Outcomes
    PROVE  Proper(Close(o, t, end)) /\ Close(o, t, end).work = o.work
<1> DEFINE card == [ClearPending(o.sheet[t]) EXCEPT
                       !.outcome = end, !.good = IF end = "FINISH" THEN Available(o, t) ELSE 0]
<1>1. o.sheet[t] \in Cards /\ Available(o, t) \in Int
  BY AvailableIsInt DEF Proper
<1>2. card \in Cards
  <2> DEFINE c == ClearPending(o.sheet[t])
             n == IF end = "FINISH" THEN Available(o, t) ELSE 0
  <2>1. c \in Cards /\ n \in Int
    BY <1>1, ClearedIsCard
  <2> HIDE DEF c, n
  <2>2. [c EXCEPT !.outcome = end, !.good = n] \in Cards
    BY <2>1 DEF Cards
  <2> QED
    BY <2>2 DEF c, n
<1>3. Close(o, t, end) = [o EXCEPT !.sheet[t] = card]
  BY DEF Close
<1> HIDE DEF card
<1> QED
  BY Zenon, <1>2, <1>3 DEF Proper

LEMMA ProperSync ==
    ASSUME NEW o, Proper(o)
    PROVE  Proper(SyncOrder(o)) /\ SyncOrder(o).work = o.work
<1> DEFINE total == FinishedQty(o)
           receipt == NewReceipt(o.receipt, total)
           status ==
               IF Running(o) = {} /\ Live(o) # {}
               THEN IF total > 0 THEN FinishedStatus(receipt) ELSE DefectStatus(o)
               ELSE IF o.status \notin FINISHED_STATUSES \cup DEFECT_STATUSES THEN o.status
               ELSE IF Running(o) = {} THEN CASTING
               ELSE Furthest({TicketStatus(o, t) : t \in Running(o)})
           p == [o EXCEPT !.receipt = receipt, !.status = status]
<1>1. SyncOrder(o) = p
  BY DEF SyncOrder
<1> HIDE DEF receipt, status
<1>2. Proper(p) /\ p.work = o.work
  BY DEF Proper
<1> HIDE DEF p
<1> QED
  BY <1>1, <1>2

LEMMA ProperSyncAfter ==
    ASSUME NEW o, Proper(o), NEW closed
    PROVE  Proper(SyncOrderAfterStage(o, closed)) /\ SyncOrderAfterStage(o, closed).work = o.work
<1> DEFINE p == IF Live(o) # {} /\ (closed \/ o.status \in DEFECT_STATUSES \cup FINISHED_STATUSES)
                THEN SyncOrder(o) ELSE o
<1>1. Proper(p) /\ p.work = o.work
  BY ProperSync
<1>2. SyncOrderAfterStage(o, closed) = [p EXCEPT !.status = DeriveStatus(p)]
  BY DEF SyncOrderAfterStage
<1> HIDE DEF p
<1> QED
  BY <1>1, <1>2, ProperStatus

LEMMA ProperAdvance ==
    ASSUME NEW o, Proper(o), NEW h \in Holders, NEW e \in Rows
    PROVE  Proper(AdvanceAfterQc(o, h, e)) /\ AdvanceAfterQc(o, h, e).work = o.work
<1>1. /\ Proper(SyncOrder(Close(o, h, "FINISH")))
      /\ SyncOrder(Close(o, h, "FINISH")).work = o.work
  BY ProperClose, ProperSync DEF Outcomes
<1> DEFINE opened == [o EXCEPT !.sheet[h].pending = e.stage + 1, !.sheet[h].claimed = FALSE]
           ended == [o EXCEPT !.receipt = [qty |-> e.returned, stocked |-> 0], !.status = PLATED]
<1>2. Proper(opened) /\ opened.work = o.work
  <2>1. o.sheet[h] \in Cards /\ e.stage + 1 \in Int
    BY DEF Proper, Rows
  <2> QED
    BY <2>1 DEF Proper, Cards
<1>3. Proper(ended) /\ ended.work = o.work
  BY DEF Proper
<1>4. AdvanceAfterQc(o, h, e) \in {o, opened, ended, SyncOrder(Close(o, h, "FINISH"))}
  BY DEF AdvanceAfterQc
<1> HIDE DEF opened, ended
<1> QED
  BY <1>1, <1>2, <1>3, <1>4

-----------------------------------------------------------------------------
LEMMA StaleKnows ==
    ASSUME NEW r, NEW w, NEW v, Knows(r, w), Follows(w, v)
    PROVE  Knows(Stale(r), v)
<1>1. CASE r.op = "return"
  <2>1. /\ r \in ReturnRequests /\ r.i \in DOMAIN v[r.h]
        /\ Stale(r) = [r EXCEPT !.fresh = FALSE]
    BY <1>1 DEF Knows, Follows, Stale, ReturnRequests
  <2>2. Stale(r) \in ReturnRequests /\ Stale(r).op = "return" /\ ~Stale(r).fresh
        /\ Stale(r).h = r.h /\ Stale(r).i = r.i
    BY <2>1 DEF ReturnRequests
  <2> QED
    BY <2>1, <2>2 DEF Knows
<1>2. CASE r.op # "return"
  <2>1. Stale(r) = r
    BY <1>2 DEF Stale
  <2>2. ASSUME r.op = "undo"
        PROVE  /\ r \in UndoRequests /\ r.i \in DOMAIN v[r.h]
               /\ v[r.h][r.i].stage \notin KEEPER_CONFIRM_STAGES
    <3>1. r \in UndoRequests /\ r.i \in DOMAIN w[r.h] /\ r.h \in Holders
          /\ w[r.h][r.i].stage \notin KEEPER_CONFIRM_STAGES
      BY <2>2 DEF Knows, UndoRequests
    <3> QED
      BY <3>1 DEF Follows
  <2>3. Knows(r, v)
    BY <1>2, <2>2 DEF Knows
  <2> QED
    BY <2>1, <2>3
<1> QED
  BY <1>1, <1>2

LEMMA SameFollows ==
    ASSUME NEW o, Proper(o)
    PROVE  Follows(o.work, o.work)
<1> SUFFICES ASSUME NEW h \in Holders, NEW i \in DOMAIN o.work[h]
             PROVE  o.work[h][i] = [o.work[h][i] EXCEPT !.rework = o.work[h][i].rework]
  BY DEF Follows
<1>1. o.work[h] \in Seq(Rows)
  BY DEF Proper
<1>2. o.work[h][i] \in Rows
  BY <1>1
<1> QED
  BY <1>2 DEF Rows

(* A step whose requests know what they did, or know less.                  *)
LEMMA RequestsGo ==
    ASSUME FlowInv, Proper(order'), CameBack(order'.work), Follows(order.work, order'.work),
           req' = [c \in Clients |-> req'[c]],
           \A c \in Clients :
               \/ req'[c].op \notin {"return", "undo"}
               \/ req'[c] = Stale(req[c])
               \/ order'.work = order.work /\ Knows(req'[c], order.work)
    PROVE  FlowInv' /\ Follows(order.work, order'.work)
<1>1. ASSUME NEW c \in Clients PROVE Knows(req'[c], order'.work)
  <2>1. CASE req'[c].op \notin {"return", "undo"}
    BY <2>1 DEF Knows
  <2>2. CASE req'[c] = Stale(req[c])
    BY <2>2, StaleKnows DEF FlowInv
  <2> QED
    BY <2>1, <2>2
<1> QED
  BY <1>1 DEF FlowInv

LEMMA MutateGoes ==
    ASSUME FlowInv, NEW o, Mutate(o), Proper(o), CameBack(o.work), Follows(order.work, o.work)
    PROVE  FlowInv' /\ Follows(order.work, order'.work)
<1>1. order' = o /\ req' = [c \in Clients |-> Stale(req[c])]
  BY DEF Mutate
<1> QED
  BY <1>1, RequestsGo

LEMMA MutateSame ==
    ASSUME FlowInv, NEW o, Mutate(o), Proper(o), o.work = order.work
    PROVE  FlowInv' /\ Follows(order.work, order'.work)
  BY MutateGoes, SameFollows DEF FlowInv

LEMMA TicketSame ==
    ASSUME FlowInv, NEW o, MutateTicket(o), Proper(o), o.work = order.work
    PROVE  FlowInv' /\ Follows(order.work, order'.work)
<1>1. order' = o /\ req' = req
  BY DEF MutateTicket
<1> QED
  BY <1>1, RequestsGo, SameFollows DEF FlowInv

LEMMA SaveGoes ==
    ASSUME FlowInv, NEW c \in Clients, NEW o, NEW next, Save(c, o, next),
           Proper(o), CameBack(o.work), Follows(order.work, o.work)
    PROVE  FlowInv' /\ Follows(order.work, order'.work)
<1>1. order' = o /\ req' = [d \in Clients |-> IF d # c THEN Stale(req[d])
                                 ELSE IF next = o.status THEN Idle
                                 ELSE [op |-> "status", to |-> next]]
  BY DEF Save
<1>2. req'[c].op \notin {"return", "undo"}
  BY <1>1 DEF Idle
<1> QED
  BY <1>1, <1>2, RequestsGo

LEMMA SaveSame ==
    ASSUME FlowInv, NEW c \in Clients, NEW o, NEW next, Save(c, o, next),
           Proper(o), o.work = order.work
    PROVE  FlowInv' /\ Follows(order.work, order'.work)
  BY SaveGoes, SameFollows DEF FlowInv

LEMMA RefuseSame ==
    ASSUME FlowInv, NEW c \in Clients, Refuse(c)
    PROVE  FlowInv' /\ Follows(order.work, order'.work)
<1>1. order' = order /\ req' = [req EXCEPT ![c] = Idle]
  BY DEF Refuse
<1>2. \A d \in Clients : req'[d] = IF d = c THEN Idle ELSE req[d]
  BY <1>1 DEF FlowInv
<1>3. req' = [d \in Clients |-> req'[d]]
  BY <1>1 DEF FlowInv
<1> QED
  BY <1>1, <1>2, <1>3, RequestsGo, SameFollows DEF FlowInv, Idle

LEMMA AskGoes ==
    ASSUME FlowInv, NEW c \in Clients, NEW r, Ask(c, r), Knows(r, order.work)
    PROVE  FlowInv' /\ Follows(order.work, order'.work)
<1>1. order' = order /\ req' = [req EXCEPT ![c] = r]
  BY DEF Ask
<1>2. \A d \in Clients : req'[d] = IF d = c THEN r ELSE req[d]
  BY <1>1 DEF FlowInv
<1>3. req' = [d \in Clients |-> req'[d]]
  BY <1>1 DEF FlowInv
<1> QED
  BY <1>1, <1>2, <1>3, RequestsGo, SameFollows DEF FlowInv

LEMMA EntryIsRow ==
    ASSUME FlowInv, NEW h \in Holders, NEW i \in DOMAIN order.work[h]
    PROVE  order.work[h] \in Seq(Rows) /\ order.work[h][i] \in Rows /\ i \in Nat
<1>1. order.work[h] \in Seq(Rows)
  BY DEF FlowInv, Proper
<1> QED
  BY <1>1

(* One entry goes on.                                                       *)
LEMMA EntryGoes ==
    ASSUME FlowInv, NEW h \in Holders, NEW i \in DOMAIN order.work[h], NEW e \in Rows,
           LET old == order.work[h][i]
           IN  /\ e.stage = old.stage
               /\ old.confirmed /\ old.stage \in KEEPER_CONFIRM_STAGES =>
                      e = [old EXCEPT !.rework = e.rework] /\ (old.rework => e.rework)
               /\ e.stage \in KEEPER_CONFIRM_STAGES /\ e.confirmed => e.returned # NotYet,
           NEW o, o = [order EXCEPT !.work[h][i] = e]
    PROVE  Proper(o) /\ CameBack(o.work) /\ Follows(order.work, o.work)
<1>1. /\ order.work \in [Holders -> Seq(Rows)]
      /\ o.work = [order.work EXCEPT ![h][i] = e]
      /\ o.status = order.status /\ o.skip = order.skip /\ o.receipt = order.receipt
      /\ o.sheet = order.sheet
  BY DEF FlowInv, Proper
<1>2. [order.work[h] EXCEPT ![i] = e] \in Seq(Rows)
  BY <1>1
<1>3. o.work \in [Holders -> Seq(Rows)]
  BY <1>1, <1>2
<1>4. Proper(o)
  BY <1>1, <1>3 DEF FlowInv, Proper
<1>5. \A g \in Holders : /\ DOMAIN o.work[g] = DOMAIN order.work[g]
                         /\ \A j \in DOMAIN order.work[g] :
                               o.work[g][j] = IF g = h /\ j = i THEN e ELSE order.work[g][j]
  BY <1>1
<1>6. CameBack(o.work)
  BY <1>5 DEF FlowInv, CameBack
<1>7. Follows(order.work, order.work)
  BY SameFollows DEF FlowInv
<1>8. Follows(order.work, o.work)
  BY <1>5, <1>7 DEF Follows
<1> QED
  BY <1>4, <1>6, <1>8

-----------------------------------------------------------------------------
(* What the office does to the tickets touches no entry.                    *)
LEMMA SheetIsCard ==
    ASSUME NEW n \in Int
    PROVE  Sheet(n) \in Cards
  BY DEF Sheet, Cards, Outcomes

LEMMA SheetsGo ==
    ASSUME NEW o, Proper(o), NEW f \in [Holders -> Cards], NEW p, p = [o EXCEPT !.sheet = f]
    PROVE  Proper(p) /\ p.work = o.work
  BY DEF Proper

LEMMA OneSheetGoes ==
    ASSUME NEW o, Proper(o), NEW h \in Holders, NEW card \in Cards,
           NEW p, p = [o EXCEPT !.sheet[h] = card]
    PROVE  Proper(p) /\ p.work = o.work
  BY DEF Proper

LEMMA SplitGoes ==
    ASSUME FlowInv, Split \/ CreateTicket \/ ClearSplit \/ RemoveTicket
    PROVE  FlowInv' /\ Follows(order.work, order'.work)
<1>1. order.sheet \in [Holders -> Cards] /\ Proper(order) /\ Live(order) \subseteq Tickets
  BY DEF FlowInv, Proper, Live
<1>2. Sheet(0) \in Cards /\ \A n \in 1..OrderQty : Sheet(n) \in Cards
  BY SheetIsCard, SizeAssumption
<1>3. Tickets \subseteq Holders /\ Parent \in Holders
  BY DEF Holders
<1>4. CASE Split
  <2>1. PICK ts \in SUBSET Tickets : \E f \in [ts -> 1..OrderQty] :
          Mutate([order EXCEPT !.sheet = [h \in Holders |-> IF h \in ts THEN Sheet(f[h]) ELSE order.sheet[h]]])
    BY <1>4 DEF Split
  <2>2. PICK f \in [ts -> 1..OrderQty] :
          Mutate([order EXCEPT !.sheet = [h \in Holders |-> IF h \in ts THEN Sheet(f[h]) ELSE order.sheet[h]]])
    BY <2>1
  <2>3. [h \in Holders |-> IF h \in ts THEN Sheet(f[h]) ELSE order.sheet[h]] \in [Holders -> Cards]
    BY <1>1, <1>2
  <2> QED
    BY <1>1, <2>2, <2>3, SheetsGo, MutateSame
<1>5. CASE CreateTicket
  <2>1. PICK t \in Tickets, n \in 1..OrderQty : Mutate([order EXCEPT !.sheet[t] = Sheet(n)])
    BY <1>5 DEF CreateTicket
  <2> QED
    BY <1>1, <1>2, <1>3, <2>1, OneSheetGoes, MutateSame
<1>6. CASE ClearSplit
  <2>1. Mutate([order EXCEPT !.sheet = [h \in Holders |-> IF h = Parent THEN order.sheet[h] ELSE Sheet(0)]])
    BY <1>6 DEF ClearSplit
  <2>2. [h \in Holders |-> IF h = Parent THEN order.sheet[h] ELSE Sheet(0)] \in [Holders -> Cards]
    BY <1>1, <1>2
  <2> QED
    BY <1>1, <2>1, <2>2, SheetsGo, MutateSame
<1>7. CASE RemoveTicket
  <2>1. PICK t \in Tickets : Mutate([order EXCEPT !.sheet[t] = Sheet(0)])
    BY <1>1, <1>7 DEF RemoveTicket
  <2> QED
    BY <1>1, <1>2, <1>3, <2>1, OneSheetGoes, MutateSame
<1> QED
  BY <1>4, <1>5, <1>6, <1>7

LEMMA UpdateTicketGoes ==
    ASSUME FlowInv, UpdateTicket
    PROVE  FlowInv' /\ Follows(order.work, order'.work)
<1>1. order.sheet \in [Holders -> Cards] /\ Proper(order) /\ Live(order) \subseteq Tickets
  BY DEF FlowInv, Proper, Live
<1>2. PICK t \in Live(order), n \in 1..OrderQty :
        LET others == Live(order) \ {t}
            share == (OrderQty - n) \div Cardinality(others)
            extra == (OrderQty - n) % Cardinality(others)
        IN  /\ others # {}
            /\ \E more \in kSubset(extra, others) :
                Mutate([order EXCEPT !.sheet = [h \in Holders |->
                    IF h = t THEN [@[h] EXCEPT !.qty = n]
                    ELSE IF h \in others
                         THEN [@[h] EXCEPT !.qty = share + (IF h \in more THEN 1 ELSE 0)]
                    ELSE @[h]]])
  BY DEF UpdateTicket
<1> DEFINE others == Live(order) \ {t}
           share == (OrderQty - n) \div Cardinality(others)
<1>3. share \in Int
  <2>1. IsFiniteSet(others)
    BY <1>1, TicketsAssumption, FS_Subset
  <2>2. Cardinality(others) \in Nat /\ Cardinality(others) # 0
    BY <1>2, <2>1, FS_CardinalityType, FS_EmptySet
  <2> HIDE DEF others
  <2> QED
    BY <2>2, SizeAssumption
<1>4. PICK more :
        Mutate([order EXCEPT !.sheet = [h \in Holders |->
            IF h = t THEN [@[h] EXCEPT !.qty = n]
            ELSE IF h \in others
                 THEN [@[h] EXCEPT !.qty = share + (IF h \in more THEN 1 ELSE 0)]
            ELSE @[h]]])
  BY <1>2
<1> HIDE DEF others, share
<1> DEFINE f == [h \in Holders |->
                    IF h = t THEN [order.sheet[h] EXCEPT !.qty = n]
                    ELSE IF h \in others
                         THEN [order.sheet[h] EXCEPT !.qty = share + (IF h \in more THEN 1 ELSE 0)]
                    ELSE order.sheet[h]]
<1>5. f \in [Holders -> Cards]
  <2>1. ASSUME NEW c \in Cards, NEW q \in Int PROVE [c EXCEPT !.qty = q] \in Cards
    BY DEF Cards
  <2>2. n \in Int /\ \A h \in Holders : share + (IF h \in more THEN 1 ELSE 0) \in Int
    BY <1>3, SizeAssumption
  <2> QED
    BY <1>1, <2>1, <2>2
<1>6. Mutate([order EXCEPT !.sheet = f])
  BY <1>4
<1> HIDE DEF f
<1> QED
  BY <1>1, <1>5, <1>6, SheetsGo, MutateSame

(* Opening, assigning and taking back a stage that has not begun.           *)
LEMMA PendingGoes ==
    ASSUME FlowInv,
           \/ OpenOrderStage \/ AssignOrder \/ Assign
           \/ CancelPending \/ CancelOrderPending \/ Unclaim \/ UnclaimOrder
    PROVE  FlowInv' /\ Follows(order.work, order'.work)
<1>1. order.sheet \in [Holders -> Cards] /\ Proper(order) /\ Live(order) \subseteq Tickets
  BY DEF FlowInv, Proper, Live
<1>2. /\ Tickets \subseteq Holders /\ Parent \in Holders
      /\ Opens \subseteq Int /\ 1..OrderQty \subseteq Int
  BY FlowAssumption, SizeAssumption DEF Holders, Stages
<1>3. CASE OpenOrderStage
  <2>1. PICK s \in Int : Mutate([order EXCEPT !.sheet[Parent].pending = s])
    BY <1>2, <1>3 DEF OpenOrderStage
  <2>2. [order.sheet[Parent] EXCEPT !.pending = s] \in Cards
    BY <1>1, <1>2 DEF Cards
  <2> QED
    BY <1>1, <1>2, <2>1, <2>2, OneSheetGoes, MutateSame
<1>4. CASE AssignOrder
  <2>1. PICK s \in Int, n \in Int :
          Mutate([order EXCEPT !.sheet[Parent].pending = s, !.sheet[Parent].claimed = TRUE,
                               !.sheet[Parent].give = n])
    BY Zenon, <1>2, <1>4 DEF AssignOrder
  <2> DEFINE o == [order EXCEPT !.sheet[Parent].pending = s, !.sheet[Parent].claimed = TRUE,
                                !.sheet[Parent].give = n]
  <2>2. order.sheet[Parent] \in Cards
    BY <1>1, <1>2
  <2>3. Proper(o) /\ o.work = order.work
    BY <1>1, <1>2, <2>2 DEF Proper, Cards
  <2> QED
    BY <2>1, <2>3, MutateSame
<1>5. CASE Assign
  <2>1. PICK t \in Tickets, s \in Int :
          MutateTicket([order EXCEPT !.sheet[t].pending = s, !.sheet[t].claimed = TRUE])
    BY Zenon, <1>1, <1>2, <1>5 DEF Assign
  <2> DEFINE o == [order EXCEPT !.sheet[t].pending = s, !.sheet[t].claimed = TRUE]
  <2>2. order.sheet[t] \in Cards
    BY <1>1, <1>2
  <2>3. Proper(o) /\ o.work = order.work
    BY <1>1, <1>2, <2>2 DEF Proper, Cards
  <2> QED
    BY <2>1, <2>3, TicketSame
<1>6. CASE CancelPending
  <2>1. PICK t \in Tickets : MutateTicket([order EXCEPT !.sheet[t] = ClearPending(order.sheet[t])])
    BY <1>1, <1>6 DEF CancelPending
  <2>2. ClearPending(order.sheet[t]) \in Cards
    BY <1>1, <1>2, ClearedIsCard
  <2> QED
    BY <1>1, <1>2, <2>1, <2>2, OneSheetGoes, TicketSame
<1>7. CASE CancelOrderPending \/ UnclaimOrder
  <2>1. Mutate([order EXCEPT !.sheet[Parent] = ClearPending(order.sheet[Parent])])
    BY <1>7 DEF CancelOrderPending, UnclaimOrder
  <2>2. ClearPending(order.sheet[Parent]) \in Cards
    BY <1>1, <1>2, ClearedIsCard
  <2> QED
    BY <1>1, <1>2, <2>1, <2>2, OneSheetGoes, MutateSame
<1>8. CASE Unclaim
  <2>1. PICK t \in Tickets : MutateTicket([order EXCEPT !.sheet[t].claimed = FALSE])
    BY <1>1, <1>8 DEF Unclaim
  <2>2. [order.sheet[t] EXCEPT !.claimed = FALSE] \in Cards
    BY <1>1, <1>2 DEF Cards
  <2> QED
    BY <1>1, <1>2, <2>1, <2>2, OneSheetGoes, TicketSame
<1> QED
  BY <1>3, <1>4, <1>5, <1>6, <1>7, <1>8

(* Closing and reopening a ticket, and leaving out the stones.              *)
LEMMA OutcomeGoes ==
    ASSUME FlowInv, SetOutcome \/ ClearOutcome \/ SetStoneSkipped \/ StockReceipt
    PROVE  FlowInv' /\ Follows(order.work, order'.work)
<1>1. order.sheet \in [Holders -> Cards] /\ Proper(order) /\ Live(order) \subseteq Tickets
  BY DEF FlowInv, Proper, Live
<1>2. Tickets \subseteq Holders
  BY DEF Holders
<1>3. CASE SetOutcome
  <2>1. PICK t \in Tickets, end \in Outcomes : Mutate(SyncOrder(Close(order, t, end)))
    BY <1>1, <1>3 DEF SetOutcome, Outcomes
  <2>2. Proper(Close(order, t, end)) /\ Close(order, t, end).work = order.work
    BY <1>1, <1>2, ProperClose
  <2> QED
    BY <2>1, <2>2, ProperSync, MutateSame
<1>4. CASE ClearOutcome
  <2>1. PICK t \in Tickets :
          Mutate(SyncOrder([order EXCEPT !.sheet[t].outcome = "NONE", !.sheet[t].good = 0]))
    BY Zenon, <1>1, <1>4 DEF ClearOutcome, Ended
  <2> DEFINE o == [order EXCEPT !.sheet[t].outcome = "NONE", !.sheet[t].good = 0]
  <2>2. order.sheet[t] \in Cards
    BY <1>1, <1>2
  <2> DEFINE c == [order.sheet[t] EXCEPT !.outcome = "NONE"]
             card == [c EXCEPT !.good = 0]
  <2>3. Proper(o) /\ o.work = order.work
    <3>1. "NONE" \in Outcomes
      BY DEF Outcomes
    <3>2. c \in Cards
      BY <2>2, <3>1 DEF Cards
    <3> HIDE DEF c
    <3>3. card \in Cards
      BY <3>2 DEF Cards
    <3>4. o = [order EXCEPT !.sheet[t] = card]
      BY <1>1, <1>2 DEF Proper, c
    <3> HIDE DEF card
    <3> QED
      BY <1>1, <1>2, <3>3, <3>4, OneSheetGoes
  <2> HIDE DEF o
  <2> QED
    BY <2>1, <2>3, ProperSync, MutateSame DEF o
<1>5. CASE SetStoneSkipped
  <2> DEFINE o == [order EXCEPT !.skip = ~order.skip]
             p == [o EXCEPT !.status = DeriveStatus(o)]
  <2>1. Mutate(p)
    BY <1>5 DEF SetStoneSkipped
  <2>2. Proper(o) /\ o.work = order.work
    BY <1>1 DEF Proper
  <2> HIDE DEF o
  <2>3. Proper(p) /\ p.work = order.work
    BY <2>2, ProperStatus
  <2> HIDE DEF p
  <2> QED
    BY <2>1, <2>3, MutateSame
<1>6. CASE StockReceipt
  <2>1. PICK x, y : Mutate([order EXCEPT !.receipt = x, !.status = y])
    BY Zenon, <1>6 DEF StockReceipt
  <2> DEFINE o == [order EXCEPT !.receipt = x, !.status = y]
  <2>2. Proper(o) /\ o.work = order.work
    BY <1>1 DEF Proper
  <2> QED
    BY <2>1, <2>2, MutateSame
<1> QED
  BY <1>3, <1>4, <1>5, <1>6

-----------------------------------------------------------------------------
(* A stage begins: a new entry behind the others.                           *)
LEMMA BeginGoes ==
    ASSUME FlowInv, NEW h \in Holders, NEW s \in Int, NEW n \in Int, Begin(h, s, n)
    PROVE  FlowInv' /\ Follows(order.work, order'.work)
<1> DEFINE row == Entry(s, n)
           o == [order EXCEPT !.sheet[h] = ClearPending(order.sheet[h]),
                              !.work[h] = Append(order.work[h], row)]
<1>1. PICK x : Mutate([o EXCEPT !.status = x])
  BY Zenon DEF Begin
<1>2. /\ order.sheet \in [Holders -> Cards] /\ order.work \in [Holders -> Seq(Rows)]
      /\ order.work[h] \in Seq(Rows)
  BY DEF FlowInv, Proper
<1>3. row \in Rows /\ ~row.confirmed
  BY DEF Entry, Rows, NotYet
<1>4. ClearPending(order.sheet[h]) \in Cards
  BY <1>2, ClearedIsCard
<1> HIDE DEF row
<1>5. Append(order.work[h], row) \in Seq(Rows)
  BY <1>2, <1>3
<1>6. /\ Proper(o)
      /\ o.work = [order.work EXCEPT ![h] = Append(order.work[h], row)]
  BY <1>2, <1>4, <1>5 DEF FlowInv, Proper
<1> HIDE DEF o
<1>7. \A g \in Holders : \A i \in DOMAIN o.work[g] :
        \/ i \in DOMAIN order.work[g] /\ o.work[g][i] = order.work[g][i]
        \/ g = h /\ o.work[g][i] = row
  BY <1>2, <1>3, <1>6
<1>8. \A g \in Holders : \A i \in DOMAIN order.work[g] :
        i \in DOMAIN o.work[g] /\ o.work[g][i] = order.work[g][i]
  BY <1>2, <1>3, <1>6
<1>9. CameBack(o.work)
  BY <1>3, <1>7 DEF FlowInv, CameBack
<1>10. Follows(order.work, o.work)
  <2>1. Follows(order.work, order.work)
    BY SameFollows DEF FlowInv
  <2> QED
    BY <1>8, <2>1 DEF Follows
<1> DEFINE p == [o EXCEPT !.status = x]
<1>11. Proper(p) /\ p.work = o.work
  BY <1>6, ProperStatus
<1> QED
  BY <1>1, <1>9, <1>10, <1>11, MutateGoes

LEMMA WorkersGo ==
    ASSUME FlowInv, Accept \/ AcceptOrder \/ Take \/ TakeOrder
    PROVE  FlowInv' /\ Follows(order.work, order'.work)
<1>1. /\ \A h \in Holders : order.sheet[h] \in Cards /\ Available(order, h) \in Int
      /\ Live(order) \subseteq Holders /\ Parent \in Holders
  BY AvailableIsInt DEF FlowInv, Proper, Live, Holders
<1>2. \A h \in Holders : order.sheet[h].pending \in Int /\ order.sheet[h].qty \in Int
                         /\ order.sheet[h].give \in Int
  BY <1>1 DEF Cards
<1>3. \E h \in Holders, s, n \in Int : Begin(h, s, n)
  BY <1>1, <1>2 DEF Accept, AcceptOrder, Take, TakeOrder, Carried
<1> QED
  BY <1>3, BeginGoes

(* Reports, and taking them back.                                           *)
LEMMA FirstOpenIsEntry ==
    ASSUME FlowInv, NEW h \in Holders, OpenAt(order, h) # {}
    PROVE  FirstOpen(h) \in DOMAIN order.work[h] /\ order.work[h][FirstOpen(h)].returned = NotYet
<1>1. OpenAt(order, h) \in SUBSET Nat
  BY EntryIsRow DEF OpenAt
<1>2. FirstOpen(h) \in OpenAt(order, h)
  BY <1>1, MinIsMember DEF FirstOpen
<1> QED
  BY <1>2 DEF OpenAt

LEMMA ReportGoes ==
    ASSUME FlowInv, NEW h \in Holders, ReportDone(h) \/ TakeBackDone(h)
    PROVE  FlowInv' /\ Follows(order.work, order'.work)
<1> DEFINE i == FirstOpen(h)
           old == order.work[h][i]
<1>1. i \in DOMAIN order.work[h] /\ old.returned = NotYet
  BY FirstOpenIsEntry DEF ReportDone, TakeBackDone
<1>2. old \in Rows
  BY <1>1, EntryIsRow
<1>3. PICK d \in BOOLEAN : Mutate([order EXCEPT !.work[h][i].done = d])
  BY DEF ReportDone, TakeBackDone
<1> DEFINE e == [old EXCEPT !.done = d]
           o == [order EXCEPT !.work[h][i] = e]
<1>4. /\ e \in Rows /\ e.stage = old.stage /\ e.confirmed = old.confirmed
      /\ e.returned = old.returned /\ e.rework = old.rework
  BY <1>2 DEF Rows
<1>5. ~(old.confirmed /\ old.stage \in KEEPER_CONFIRM_STAGES)
  BY <1>1 DEF FlowInv, CameBack
<1>6. Mutate(o)
  BY <1>3
<1> HIDE DEF e
<1>7. Proper(o) /\ CameBack(o.work) /\ Follows(order.work, o.work)
  BY <1>1, <1>4, <1>5, EntryGoes
<1> HIDE DEF o
<1> QED
  BY <1>6, <1>7, MutateGoes

LEMMA ReportsGo ==
    ASSUME FlowInv, \/ Submit \/ SubmitOrder \/ ReportStageDefect
                    \/ Unsubmit \/ UnsubmitOrder \/ ClearStageDefect
    PROVE  FlowInv' /\ Follows(order.work, order'.work)
<1>1. Live(order) \subseteq Holders /\ Parent \in Holders /\ Sheets \subseteq Holders
  BY DEF Live, Holders, Sheets
<1>2. \E h \in Holders : ReportDone(h) \/ TakeBackDone(h)
  BY <1>1 DEF Submit, SubmitOrder, ReportStageDefect, Unsubmit, UnsubmitOrder, ClearStageDefect
<1> QED
  BY <1>2, ReportGoes

-----------------------------------------------------------------------------
(* The keeper confirms what has come back; nobody had confirmed it before.  *)
LEMMA ConfirmGoes ==
    ASSUME FlowInv, ConfirmStage
    PROVE  FlowInv' /\ Follows(order.work, order'.work)
<1>1. PICK h \in Sheets : \E i \in Unconfirmed(order, h) :
        LET e == order.work[h][i]
            o == [order EXCEPT !.work[h][i].confirmed = TRUE]
            nothing == e.returned = 0
        IN  Mutate(SyncOrderAfterStage(
               IF ~nothing THEN o
               ELSE IF h # Parent THEN Close(o, h, "DEFECT")
               ELSE [o EXCEPT !.sheet[h] = ClearPending(o.sheet[h]), !.status = DefectOf(e.stage)],
               nothing))
  BY Zenon DEF ConfirmStage
<1>2. PICK i \in Unconfirmed(order, h) :
        LET e == order.work[h][i]
            o == [order EXCEPT !.work[h][i].confirmed = TRUE]
            nothing == e.returned = 0
        IN  Mutate(SyncOrderAfterStage(
               IF ~nothing THEN o
               ELSE IF h # Parent THEN Close(o, h, "DEFECT")
               ELSE [o EXCEPT !.sheet[h] = ClearPending(o.sheet[h]), !.status = DefectOf(e.stage)],
               nothing))
  BY Zenon, <1>1
<1> DEFINE old == order.work[h][i]
           e == [old EXCEPT !.confirmed = TRUE]
           o == [order EXCEPT !.work[h][i] = e]
           cleared == [o EXCEPT !.sheet[h] = ClearPending(o.sheet[h]),
                                !.status = DefectOf(old.stage)]
           p == IF old.returned # 0 THEN o
                ELSE IF h # Parent THEN Close(o, h, "DEFECT") ELSE cleared
<1>3. /\ h \in Holders /\ i \in DOMAIN order.work[h]
      /\ old.returned # NotYet /\ ~old.confirmed
  BY DEF Sheets, Holders, Live, Unconfirmed
<1>4. old \in Rows
  BY <1>3, EntryIsRow
<1>5. e \in Rows /\ e.stage = old.stage /\ e.returned = old.returned
  BY <1>4 DEF Rows
<1>6. Mutate(SyncOrderAfterStage(p, old.returned = 0))
  BY <1>2
<1> HIDE DEF e
<1>7. Proper(o) /\ CameBack(o.work) /\ Follows(order.work, o.work)
  BY <1>3, <1>5, EntryGoes
<1> HIDE DEF o, old
<1>8. Proper(cleared) /\ cleared.work = o.work
  <2>1. o.sheet[h] \in Cards
    BY <1>3, <1>7 DEF Proper
  <2>2. ClearPending(o.sheet[h]) \in Cards
    BY <2>1, ClearedIsCard
  <2> QED
    BY <1>3, <1>7, <2>2 DEF Proper
<1>9. Proper(p) /\ p.work = o.work
  BY <1>3, <1>7, <1>8, ProperClose DEF Outcomes
<1> HIDE DEF p
<1> DEFINE q == SyncOrderAfterStage(p, old.returned = 0)
<1>10. Proper(q) /\ q.work = o.work
  BY <1>9, ProperSyncAfter
<1> HIDE DEF q
<1> QED
  BY <1>6, <1>7, <1>10, MutateGoes DEF q

LEMMA ReworkGoes ==
    ASSUME FlowInv, CreateRework
    PROVE  FlowInv' /\ Follows(order.work, order'.work)
<1>1. PICK h \in Holders : \E i \in DOMAIN order.work[h] :
        Mutate([order EXCEPT !.work[h][i].rework = TRUE])
  BY DEF CreateRework
<1>2. PICK i \in DOMAIN order.work[h] : Mutate([order EXCEPT !.work[h][i].rework = TRUE])
  BY <1>1
<1> DEFINE old == order.work[h][i]
           e == [old EXCEPT !.rework = TRUE]
           o == [order EXCEPT !.work[h][i] = e]
<1>3. old \in Rows
  BY EntryIsRow
<1>4. /\ e \in Rows /\ e.stage = old.stage /\ e.confirmed = old.confirmed
      /\ e.returned = old.returned /\ e.rework /\ e = [old EXCEPT !.rework = e.rework]
  BY <1>3 DEF Rows
<1>5. Mutate(o)
  BY <1>2
<1>6. old.confirmed /\ old.stage \in KEEPER_CONFIRM_STAGES => old.returned # NotYet
  BY DEF FlowInv, CameBack
<1> HIDE DEF e
<1>7. Proper(o) /\ CameBack(o.work) /\ Follows(order.work, o.work)
  BY <1>4, <1>6, EntryGoes
<1> HIDE DEF o
<1> QED
  BY <1>5, <1>7, MutateGoes

-----------------------------------------------------------------------------
(* A correction that was read before the keeper confirmed finds the row     *)
(* changed and is refused.                                                  *)
LEMMA ReturnAskGoes ==
    ASSUME FlowInv, NEW c \in Clients, ReturnAsk(c)
    PROVE  FlowInv' /\ Follows(order.work, order'.work)
<1>1. PICK h \in Holders : \E i \in DOMAIN order.work[h] :
        LET e == order.work[h][i]
        IN  /\ e.returned = NotYet \/ ~e.confirmed
            /\ \E p \in GoodAndDefect(e) :
                Ask(c, [op |-> "return", h |-> h, i |-> i, good |-> p[1], defect |-> p[2],
                        revise |-> e.returned # NotYet, fresh |-> TRUE])
  BY DEF ReturnAsk
<1>2. PICK i \in DOMAIN order.work[h] :
        /\ order.work[h][i].returned = NotYet \/ ~order.work[h][i].confirmed
        /\ \E p \in GoodAndDefect(order.work[h][i]) :
            Ask(c, [op |-> "return", h |-> h, i |-> i, good |-> p[1], defect |-> p[2],
                    revise |-> order.work[h][i].returned # NotYet, fresh |-> TRUE])
  BY <1>1
<1>3. PICK p \in Amount \X Amount :
        Ask(c, [op |-> "return", h |-> h, i |-> i, good |-> p[1], defect |-> p[2],
                revise |-> order.work[h][i].returned # NotYet, fresh |-> TRUE])
  BY <1>2 DEF GoodAndDefect
<1> DEFINE r == [op |-> "return", h |-> h, i |-> i, good |-> p[1], defect |-> p[2],
                 revise |-> order.work[h][i].returned # NotYet, fresh |-> TRUE]
<1>4. r \in ReturnRequests
  BY EntryIsRow DEF ReturnRequests
<1>5. order.work[h][i].stage \in KEEPER_CONFIRM_STAGES => ~order.work[h][i].confirmed
  BY <1>2 DEF FlowInv, CameBack
<1>6. Knows(r, order.work)
  BY <1>4, <1>5 DEF Knows
<1> HIDE DEF r
<1> QED
  BY <1>3, <1>6, AskGoes DEF r

LEMMA ReturnSaveGoes ==
    ASSUME FlowInv, NEW c \in Clients, ReturnSave(c)
    PROVE  FlowInv' /\ Follows(order.work, order'.work)
<1> DEFINE r == req[c]
           old == order.work[r.h][r.i]
           keeper == old.stage \in KEEPER_CONFIRM_STAGES
           e == [old EXCEPT !.returned = r.good, !.defect = r.defect, !.confirmed = ~keeper,
                            !.tries = IF r.revise THEN old.tries + 1 ELSE old.tries]
           saved == [order EXCEPT !.work[r.h][r.i] = e]
           nothing == ~keeper /\ r.good = 0
           o == IF keeper THEN saved
                ELSE IF ~nothing THEN AdvanceAfterQc(saved, r.h, e)
                ELSE IF r.h = Parent THEN saved
                ELSE SyncOrderAfterStage(Close(saved, r.h, "DEFECT"), TRUE)
<1>1. CASE Refuse(c)
  BY <1>1, RefuseSame
<1>2. ASSUME Unchanged(r), r.op = "return", NEW next, Save(c, o, next)
      PROVE  FlowInv' /\ Follows(order.work, order'.work)
  <2>1. /\ r \in ReturnRequests /\ r.i \in DOMAIN order.work[r.h]
        /\ keeper => ~old.confirmed
    BY Zenon, <1>2 DEF FlowInv, Knows, Unchanged
  <2>2. r.h \in Holders /\ r.good \in Nat /\ r.defect \in Int /\ r.good # NotYet
    BY <2>1, SizeAssumption DEF ReturnRequests, Amount, NotYet
  <2>3. old \in Rows
    BY <2>1, <2>2, EntryIsRow
  <2> DEFINE n == IF r.revise THEN old.tries + 1 ELSE old.tries
  <2>4. n \in Int
    BY <2>3 DEF Rows
  <2>5. e \in Rows /\ e.stage = old.stage /\ e.returned = r.good
    <3>1. (~keeper) \in BOOLEAN
      OBVIOUS
    <3>2. e = [old EXCEPT !.returned = r.good, !.defect = r.defect, !.confirmed = ~keeper,
                          !.tries = n]
      BY Zenon DEF n
    <3> HIDE DEF e, keeper, n, old, r
    <3> DEFINE ok == ~keeper
               good == r.good
               defect == r.defect
    <3>3. ok \in BOOLEAN /\ good \in Int /\ defect \in Int
      BY <2>2, <3>1
    <3>4. e = [old EXCEPT !.returned = good, !.defect = defect, !.confirmed = ok, !.tries = n]
      BY <3>2
    <3> HIDE DEF ok, good, defect
    <3> DEFINE a == [old EXCEPT !.returned = good]
               b == [a EXCEPT !.defect = defect]
               d == [b EXCEPT !.confirmed = ok]
               f == [d EXCEPT !.tries = n]
    <3>5. e = f
      BY <3>4
    <3>6. a \in Rows /\ a.stage = old.stage /\ a.returned = good
      BY <2>3, <3>3 DEF Rows
    <3> HIDE DEF a
    <3>7. b \in Rows /\ b.stage = old.stage /\ b.returned = good
      BY <3>3, <3>6 DEF Rows
    <3> HIDE DEF b
    <3>8. d \in Rows /\ d.stage = old.stage /\ d.returned = good
      BY <3>3, <3>7 DEF Rows
    <3> HIDE DEF d
    <3>9. f \in Rows /\ f.stage = old.stage /\ f.returned = good
      BY <2>4, <3>8 DEF Rows
    <3> HIDE DEF f
    <3> QED
      BY <3>5, <3>9 DEF good
  <2> HIDE DEF e
  <2>6. Proper(saved) /\ CameBack(saved.work) /\ Follows(order.work, saved.work)
    BY <2>1, <2>2, <2>5, EntryGoes
  <2> HIDE DEF saved, old, keeper, nothing, n
  <2>7. Proper(AdvanceAfterQc(saved, r.h, e)) /\ AdvanceAfterQc(saved, r.h, e).work = saved.work
    BY <2>2, <2>5, <2>6, ProperAdvance
  <2>8. Proper(Close(saved, r.h, "DEFECT")) /\ Close(saved, r.h, "DEFECT").work = saved.work
    BY <2>2, <2>6, ProperClose DEF Outcomes
  <2>9. /\ Proper(SyncOrderAfterStage(Close(saved, r.h, "DEFECT"), TRUE))
        /\ SyncOrderAfterStage(Close(saved, r.h, "DEFECT"), TRUE).work = saved.work
    BY <2>8, ProperSyncAfter
  <2>10. Proper(o) /\ o.work = saved.work
    BY Zenon, <2>6, <2>7, <2>9
  <2> HIDE DEF o
  <2> QED
    BY <1>2, <2>6, <2>10, SaveGoes
<1>3. \/ Refuse(c)
      \/ Unchanged(r) /\ r.op = "return" /\ \E next : Save(c, o, next)
  <2> HIDE DEF o
  <2>1. \/ Unchanged(r) /\ Save(c, o, IF nothing /\ r.h = Parent THEN DefectOf(e.stage) ELSE DeriveStatus(o))
        \/ Refuse(c)
    BY Zenon DEF ReturnSave, o
  <2>2. r.op = "return"
    BY Zenon DEF ReturnSave
  <2> HIDE DEF r, nothing, e
  <2> QED
    BY <2>1, <2>2
<1> QED
  BY Zenon, <1>1, <1>2, <1>3

LEMMA UndoAskGoes ==
    ASSUME FlowInv, NEW c \in Clients, UndoAsk(c)
    PROVE  FlowInv' /\ Follows(order.work, order'.work)
<1>1. PICK h \in Holders, auto \in BOOLEAN :
        /\ Len(order.work[h]) > 0
        /\ order.work[h][Len(order.work[h])].stage \notin KEEPER_CONFIRM_STAGES
        /\ Ask(c, [op |-> "undo", h |-> h, i |-> Len(order.work[h]), auto |-> auto])
  BY DEF UndoAsk
<1>2. order.work[h] \in Seq(Rows)
  BY DEF FlowInv, Proper
<1> DEFINE i == Len(order.work[h])
           r == [op |-> "undo", h |-> h, i |-> i, auto |-> auto]
<1>3. i \in Nat /\ i \in DOMAIN order.work[h]
  BY <1>1, <1>2
<1>4. r \in UndoRequests /\ r.h = h /\ r.i = i /\ r.op = "undo"
  BY <1>3 DEF UndoRequests
<1> HIDE DEF r
<1>5. Knows(r, order.work)
  BY <1>1, <1>3, <1>4 DEF Knows
<1> QED
  BY <1>1, <1>5, AskGoes DEF r

(* An undo touches an entry no keeper ever confirms.                        *)
LEMMA UndoSaveGoes ==
    ASSUME FlowInv, NEW c \in Clients, UndoSave(c)
    PROVE  FlowInv' /\ Follows(order.work, order'.work)
<1> DEFINE r == req[c]
           old == order.work[r.h][r.i]
           e == [old EXCEPT !.returned = NotYet]
           saved == [order EXCEPT !.work[r.h][r.i] = e]
           card == [order.sheet[r.h] EXCEPT
                        !.pending = IF r.auto THEN 0 ELSE order.sheet[r.h].pending]
           o == [saved EXCEPT !.sheet[r.h] = card]
           wrote == [order EXCEPT !.work[r.h][r.i].returned = NotYet,
                         !.sheet[r.h].pending = IF r.auto THEN 0 ELSE order.sheet[r.h].pending]
<1>1. /\ r \in UndoRequests /\ r.h \in Holders /\ r.i \in DOMAIN order.work[r.h]
      /\ old.stage \notin KEEPER_CONFIRM_STAGES
  BY Zenon DEF FlowInv, Knows, UndoSave, UndoRequests
<1>2. PICK next : Save(c, wrote, next)
  BY DEF UndoSave
<1>3. old \in Rows
  BY <1>1, EntryIsRow
<1>4. e \in Rows /\ e.stage = old.stage
  BY <1>3 DEF Rows, NotYet
<1>5. /\ order.sheet \in [Holders -> Cards] /\ order.sheet[r.h] \in Cards
      /\ order.work \in [Holders -> Seq(Rows)]
  BY <1>1 DEF FlowInv, Proper
<1>6. card \in Cards
  <2> DEFINE n == IF r.auto THEN 0 ELSE order.sheet[r.h].pending
  <2>1. n \in Int
    BY <1>5 DEF Cards
  <2> HIDE DEF n
  <2>2. [order.sheet[r.h] EXCEPT !.pending = n] \in Cards
    BY <1>5, <2>1 DEF Cards
  <2> QED
    BY <2>2 DEF n
<1>7. wrote = o
  <2>1. /\ DOMAIN order = {"status", "skip", "receipt", "sheet", "work"}
        /\ order = [status |-> order.status, skip |-> order.skip, receipt |-> order.receipt,
                    sheet |-> order.sheet, work |-> order.work]
    BY DEF FlowInv, Proper
  <2> QED
    BY <2>1
<1> HIDE DEF e, card, wrote, r, old
<1>8. Proper(saved) /\ CameBack(saved.work) /\ Follows(order.work, saved.work)
  BY <1>1, <1>4, EntryGoes DEF old
<1> HIDE DEF saved
<1>9. Proper(o) /\ o.work = saved.work
  BY <1>1, <1>6, <1>8, OneSheetGoes
<1> HIDE DEF o
<1> QED
  BY <1>2, <1>7, <1>8, <1>9, SaveGoes

LEMMA FinishesGo ==
    ASSUME FlowInv, NEW c \in Clients,
           \/ FinishAsk(c) \/ UndoFinishAsk(c) \/ ChangeStatusAsk(c)
           \/ FinishSave(c) \/ UndoFinishSave(c)
    PROVE  FlowInv' /\ Follows(order.work, order'.work)
<1>1. CASE FinishAsk(c) \/ UndoFinishAsk(c) \/ ChangeStatusAsk(c)
  <2>1. PICK r : Ask(c, r) /\ r.op \notin {"return", "undo"}
    <3>1. ASSUME FinishAsk(c)
          PROVE  \E r : Ask(c, r) /\ r.op \notin {"return", "undo"}
      <4> DEFINE r == [op |-> "finish", qty |-> Available(order, Parent)]
      <4>1. Ask(c, r) /\ r.op = "finish"
        BY <3>1 DEF FinishAsk
      <4> HIDE DEF r
      <4> QED
        BY <4>1
    <3>2. ASSUME UndoFinishAsk(c)
          PROVE  \E r : Ask(c, r) /\ r.op \notin {"return", "undo"}
      <4> DEFINE last == LastStage(order.work[Parent])
                 r == [op |-> "undoFinish", to |-> IF last = 0 THEN CASTING ELSE At(last)]
      <4>1. Ask(c, r) /\ r.op = "undoFinish"
        BY <3>2 DEF UndoFinishAsk
      <4> HIDE DEF r
      <4> QED
        BY <4>1
    <3>3. ASSUME ChangeStatusAsk(c)
          PROVE  \E r : Ask(c, r) /\ r.op \notin {"return", "undo"}
      <4>1. PICK to :
              Ask(c, [op |-> "change", to |-> to, leave |-> order.receipt.qty > 0,
                      cleared |-> {h \in Holders : order.sheet[h].pending # 0}])
        BY <3>3 DEF ChangeStatusAsk
      <4> DEFINE r == [op |-> "change", to |-> to, leave |-> order.receipt.qty > 0,
                       cleared |-> {h \in Holders : order.sheet[h].pending # 0}]
      <4>2. r.op = "change"
        OBVIOUS
      <4> HIDE DEF r
      <4> QED
        BY <4>1, <4>2 DEF r
    <3> QED
      BY <1>1, <3>1, <3>2, <3>3
  <2>2. Knows(r, order.work)
    BY <2>1 DEF Knows
  <2> QED
    BY <2>1, <2>2, AskGoes
<1>2. CASE FinishSave(c) \/ UndoFinishSave(c)
  <2>1. CASE Refuse(c)
    BY <2>1, RefuseSame
  <2>2. ASSUME ~Refuse(c)
        PROVE  \E x, y, next : Save(c, [order EXCEPT !.status = x, !.receipt = y], next)
    BY Zenon, <1>2, <2>2 DEF FinishSave, UndoFinishSave
  <2>3. CASE ~Refuse(c)
    <3>1. PICK x, y, next : Save(c, [order EXCEPT !.status = x, !.receipt = y], next)
      BY Zenon, <2>2, <2>3
    <3> DEFINE o == [order EXCEPT !.status = x, !.receipt = y]
    <3>2. Proper(o) /\ o.work = order.work
      BY DEF FlowInv, Proper
    <3> QED
      BY <3>1, <3>2, SaveSame
  <2> QED
    BY <2>1, <2>3
<1> QED
  BY <1>1, <1>2

LEMMA StatusesGo ==
    ASSUME FlowInv, NEW c \in Clients, StatusSave(c) \/ ChangeStatusSave(c)
    PROVE  FlowInv' /\ Follows(order.work, order'.work)
<1>1. Proper(order)
  BY DEF FlowInv
<1>2. CASE StatusSave(c)
  <2>1. /\ order' = [order EXCEPT !.status = req[c].to]
        /\ req' = [d \in Clients |-> IF d = c THEN Idle ELSE Stale(req[d])]
    BY <1>2 DEF StatusSave
  <2>2. Proper(order') /\ order'.work = order.work
    BY <1>1, <2>1, ProperStatus
  <2>3. Idle.op \notin {"return", "undo"}
    BY DEF Idle
  <2>4. \A d \in Clients : req'[d].op \notin {"return", "undo"} \/ req'[d] = Stale(req[d])
    BY <2>1, <2>3
  <2>5. req' = [d \in Clients |-> req'[d]]
    BY <2>1
  <2> QED
    BY <1>1, <2>2, <2>4, <2>5, RequestsGo, SameFollows DEF FlowInv
<1>3. CASE ChangeStatusSave(c)
  <2> DEFINE r == req[c]
             sheets == [h \in Holders |-> IF h \in ClearSeen(r) THEN ClearPending(order.sheet[h])
                                          ELSE order.sheet[h]]
             receipt == IF r.leave THEN NoReceipt ELSE order.receipt
             o == [order EXCEPT !.status = r.to, !.receipt = receipt, !.sheet = sheets]
  <2>1. Refuse(c) \/ \E next : Save(c, o, next)
    BY Zenon, <1>3 DEF ChangeStatusSave
  <2>2. sheets \in [Holders -> Cards]
    BY <1>1, ClearedIsCard DEF Proper
  <2> HIDE DEF sheets, receipt, r
  <2>3. Proper(o) /\ o.work = order.work
    BY <1>1, <2>2 DEF Proper
  <2> HIDE DEF o
  <2> QED
    BY <2>1, <2>3, RefuseSame, SaveSame
<1> QED
  BY <1>2, <1>3

-----------------------------------------------------------------------------
LEMMA FlowInit == Init => FlowInv
<1> SUFFICES ASSUME Init PROVE FlowInv
  OBVIOUS
<1>1. \A h \in Holders : (IF h = Parent THEN Sheet(OrderQty) ELSE Sheet(0)) \in Cards
  BY SheetIsCard, SizeAssumption
<1>2. <<>> \in Seq(Rows)
  OBVIOUS
<1> DEFINE sheets == [h \in Holders |-> IF h = Parent THEN Sheet(OrderQty) ELSE Sheet(0)]
           works == [h \in Holders |-> <<>>]
<1>3. /\ sheets \in [Holders -> Cards] /\ works \in [Holders -> Seq(Rows)]
      /\ order = [status |-> Wait(FILING), skip |-> FALSE, receipt |-> NoReceipt,
                  sheet |-> sheets, work |-> works]
      /\ req = [c \in Clients |-> Idle]
  BY <1>1, <1>2 DEF Init
<1>4. CameBack(works)
  BY DEF CameBack
<1> HIDE DEF sheets, works
<1>5. Proper(order) /\ order.work = works
  BY <1>3 DEF Proper
<1>6. \A c \in Clients : Knows(req[c], order.work)
  BY <1>3 DEF Knows, Idle
<1> QED
  BY <1>3, <1>4, <1>5, <1>6 DEF FlowInv

LEMMA FlowStep ==
    ASSUME FlowInv, [Next]_flow
    PROVE  FlowInv' /\ Follows(order.work, order'.work)
<1>1. CASE Office
  BY <1>1, SplitGoes, UpdateTicketGoes, PendingGoes, OutcomeGoes, ReworkGoes DEF Office
<1>2. CASE Workshop
  BY <1>2, WorkersGo, ReportsGo, ConfirmGoes, OutcomeGoes DEF Workshop
<1>3. CASE \E c \in Clients : Request(c)
  BY <1>3, ReturnAskGoes, ReturnSaveGoes, UndoAskGoes, UndoSaveGoes, FinishesGo, StatusesGo
  DEF Request
<1>4. CASE UNCHANGED flow
  <2>1. order' = order /\ req' = req
    BY <1>4 DEF flow
  <2> QED
    BY <2>1, RequestsGo, SameFollows DEF FlowInv
<1> QED
  BY <1>1, <1>2, <1>3, <1>4 DEF Next

(* What the keeper confirmed does not change any more, whichever correction *)
(* of the result was read before (returnStage with revise).                 *)
THEOREM ConfirmedResultsStay == Spec => ConfirmedStays
<1> DEFINE Kept == \A h \in Holders : \A i \in DOMAIN order.work[h] :
               LET e == order.work[h][i]
                   later == order'.work[h][i]
               IN  e.confirmed /\ e.stage \in KEEPER_CONFIRM_STAGES /\ i \in DOMAIN order'.work[h] =>
                       later = [e EXCEPT !.rework = later.rework] /\ (e.rework => later.rework)
<1>1. FlowInv /\ [Next]_flow => FlowInv'
  BY FlowStep
<1>2. FlowInv /\ [Next]_flow => Kept
  BY FlowStep DEF Follows
<1> HIDE DEF Kept
<1>3. Spec => [][Kept]_flow
  BY <1>1, <1>2, FlowInit, PTL DEF Spec
<1> QED
  BY <1>3 DEF ConfirmedStays, Kept

-----------------------------------------------------------------------------
(* The order with its sheets and entries, the types of all its columns.     *)
Receipts == [qty : Nat, stocked : Nat]
Orders == [status : NEW_ORDER..FINISHING, skip : BOOLEAN, receipt : Receipts,
           sheet : [Holders -> SheetValues], work : [Holders -> Seq(EntryValues)]]

LEMMA OrderParts ==
    ASSUME NEW o \in Orders
    PROVE  /\ o.status \in NEW_ORDER..FINISHING /\ o.skip \in BOOLEAN
           /\ o.receipt \in Receipts
           /\ o.sheet \in [Holders -> SheetValues]
           /\ o.work \in [Holders -> Seq(EntryValues)]
  BY DEF Orders

LEMMA SheetParts ==
    ASSUME NEW o \in Orders, NEW h \in Holders
    PROVE  /\ o.sheet[h] \in SheetValues /\ o.work[h] \in Seq(EntryValues)
           /\ o.sheet[h].live \in BOOLEAN /\ o.sheet[h].qty \in Amount
           /\ o.sheet[h].pending \in Stages \cup {0} /\ o.sheet[h].claimed \in BOOLEAN
           /\ o.sheet[h].give \in Amount /\ o.sheet[h].outcome \in Outcomes
           /\ o.sheet[h].good \in Amount
<1>1. o.sheet[h] \in SheetValues /\ o.work[h] \in Seq(EntryValues)
  BY OrderParts
<1> QED
  BY <1>1 DEF SheetValues

LEMMA EntryParts ==
    ASSUME NEW o \in Orders, NEW h \in Holders, NEW i \in DOMAIN o.work[h]
    PROVE  /\ o.work[h][i] \in EntryValues /\ i \in 1..Len(o.work[h]) /\ i \in Nat
           /\ Len(o.work[h]) \in Nat
           /\ o.work[h][i].stage \in Stages /\ o.work[h][i].handed \in Amount
           /\ o.work[h][i].done \in BOOLEAN /\ o.work[h][i].returned \in Amount \cup {NotYet}
           /\ o.work[h][i].defect \in Amount /\ o.work[h][i].confirmed \in BOOLEAN
           /\ o.work[h][i].tries \in Nat /\ o.work[h][i].rework \in BOOLEAN
<1>1. o.work[h] \in Seq(EntryValues)
  BY SheetParts
<1>2. o.work[h][i] \in EntryValues
  BY <1>1
<1> QED
  BY <1>1, <1>2 DEF EntryValues

LEMMA LastParts ==
    ASSUME NEW o \in Orders, NEW h \in Holders, o.work[h] # <<>>
    PROVE  /\ Len(o.work[h]) \in DOMAIN o.work[h]
           /\ LastOf(o.work[h]) = o.work[h][Len(o.work[h])]
<1>1. o.work[h] \in Seq(EntryValues)
  BY SheetParts
<1> QED
  BY <1>1 DEF LastOf

LEMMA AmountIsNat == Amount \subseteq Nat /\ 0 \in Amount /\ OrderQty \in Amount
  BY SizeAssumption DEF Amount

LEMMA StageNumbers ==
    /\ Stages = {1, 2, 3, 4, 5} /\ FILING = 1 /\ STONE_SETTING = 2 /\ ENGRAVING = 3
    /\ POLISHING = 4 /\ PLATING = 5
    /\ KEEPER_CONFIRM_STAGES = {1, 2} /\ SELF_TAKE_STAGES = {4, 5}
    /\ DEFECT_REPORT_STAGES = {1, 2, 4}
  BY DEF Stages, FILING, STONE_SETTING, ENGRAVING, POLISHING, PLATING, KEEPER_CONFIRM_STAGES,
         SELF_TAKE_STAGES, DEFECT_REPORT_STAGES

LEMMA StatusNumbers ==
    /\ IN_STAGE_STATUSES = 1..10 /\ FINISHED_STATUSES = {11, 12} /\ DEFECT_STATUSES = {0, -1, -2}
    /\ PLATED = 11 /\ FINISHING = 12 /\ CASTING = -3 /\ NEW_ORDER = -4
    /\ DEFECT = 0 /\ FILING_DEFECT = -1 /\ STONE_DEFECT = -2
    /\ \A s \in Int : At(s) = 2 * s /\ Wait(s) = 2 * s - 1
  BY DEF IN_STAGE_STATUSES, FINISHED_STATUSES, DEFECT_STATUSES, PLATED, FINISHING, CASTING,
         NEW_ORDER, DEFECT, FILING_DEFECT, STONE_DEFECT, At, Wait

LEMMA OrderIsProper ==
    ASSUME NEW o \in Orders
    PROVE  Proper(o)
<1> DEFINE pendings == Stages \cup {0}
           returns == Amount \cup {NotYet}
<1>0. Amount \subseteq Int /\ Nat \subseteq Int /\ pendings \subseteq Int /\ returns \subseteq Int
      /\ Stages \subseteq Int
  BY AmountIsNat, StageNumbers DEF NotYet
<1>1. SheetValues \subseteq Cards
  <2> SUFFICES ASSUME NEW c \in SheetValues PROVE c \in Cards
    OBVIOUS
  <2>1. c \in [live : BOOLEAN, qty : Amount, pending : pendings, claimed : BOOLEAN,
                give : Amount, outcome : Outcomes, good : Amount]
    BY DEF SheetValues
  <2> HIDE DEF pendings
  <2> QED
    BY <1>0, <2>1 DEF Cards
<1>2. EntryValues \subseteq Rows
  <2> SUFFICES ASSUME NEW e \in EntryValues PROVE e \in Rows
    OBVIOUS
  <2>1. e \in [stage : Stages, handed : Amount, done : BOOLEAN, returned : returns,
                defect : Amount, confirmed : BOOLEAN, tries : Nat, rework : BOOLEAN]
    BY DEF EntryValues
  <2> HIDE DEF returns
  <2> QED
    BY <1>0, <2>1 DEF Rows
<1>3. \A s \in Seq(EntryValues) : s \in Seq(Rows)
  BY <1>2
<1>4. o.sheet \in [Holders -> Cards] /\ o.work \in [Holders -> Seq(Rows)]
  BY <1>1, <1>3, OrderParts
<1> QED
  BY <1>4 DEF Proper, Orders

-----------------------------------------------------------------------------
(* The greatest of finitely many numbers.                                   *)
LEMMA MaxIsMember ==
    ASSUME NEW S, IsFiniteSet(S), S # {}, S \subseteq Int
    PROVE  Max(S) \in S /\ \A x \in S : Max(S) >= x
<1> DEFINE B == {T \in SUBSET S : T = {} \/ \E x \in T : \A y \in T : x >= y}
<1>1. ASSUME NEW T \in SUBSET S, \A x \in T : T \ {x} \in B
      PROVE  T \in B
  <2>1. CASE T = {}
    BY <2>1
  <2>2. CASE T # {}
    <3>1. PICK z \in T : TRUE
      BY <2>2
    <3>2. T \ {z} \in B
      BY <1>1
    <3>3. CASE T \ {z} = {}
      <4>1. \A y \in T : z >= y
        BY <3>3
      <4> QED
        BY <4>1
    <3>4. CASE T \ {z} # {}
      <4>1. PICK x \in T \ {z} : \A y \in T \ {z} : x >= y
        BY <3>2, <3>4
      <4>2. x \in Int /\ z \in Int
        OBVIOUS
      <4>3. CASE x >= z
        <5>1. \A y \in T : x >= y
          BY <4>1, <4>3
        <5> QED
          BY <5>1
      <4>4. CASE z >= x
        <5>1. \A y \in T : z >= y
          BY <4>1, <4>2, <4>4
        <5> QED
          BY <5>1
      <4> QED
        BY <4>2, <4>3, <4>4
    <3> QED
      BY <3>3, <3>4
  <2> QED
    BY <2>1, <2>2
<1> HIDE DEF B
<1>2. S \in B
  BY <1>1, OneByOne
<1>3. \E x \in S : \A y \in S : x >= y
  BY <1>2 DEF B
<1> QED
  BY <1>3 DEF Max

LEMMA MinOfTwo ==
    ASSUME NEW a \in Nat, NEW b \in Nat
    PROVE  Min({a, b}) \in {a, b} /\ Min({a, b}) <= a /\ Min({a, b}) <= b
  BY MinIsMember

LEMMA MaxOfTwo ==
    ASSUME NEW a \in Int, NEW b \in Int
    PROVE  Max({a, b}) \in {a, b} /\ Max({a, b}) >= a /\ Max({a, b}) >= b
<1>1. IsFiniteSet({a, b})
  <2>1. {a, b} = {a} \cup {b}
    OBVIOUS
  <2>2. IsFiniteSet({a})
    BY FS_Singleton
  <2> QED
    BY <2>1, <2>2, FS_AddElement
<1> QED
  BY <1>1, MaxIsMember

-----------------------------------------------------------------------------
(* Where a sheet stands, in numbers.                                        *)
LEMMA LiveAreTickets ==
    ASSUME NEW o
    PROVE  /\ Live(o) \subseteq Tickets /\ Running(o) \subseteq Live(o)
           /\ \A end : Ended(o, end) \subseteq Live(o)
           /\ IsFiniteSet(Live(o)) /\ IsFiniteSet(Running(o))
           /\ \A end : IsFiniteSet(Ended(o, end))
           /\ Tickets \subseteq Holders /\ Parent \in Holders /\ Parent \notin Tickets
<1>1. Live(o) \subseteq Tickets /\ Running(o) \subseteq Live(o) /\ \A end : Ended(o, end) \subseteq Live(o)
  BY DEF Live, Running, Ended
<1>2. IsFiniteSet(Live(o)) /\ IsFiniteSet(Running(o)) /\ \A end : IsFiniteSet(Ended(o, end))
  <2>1. \A T \in SUBSET Tickets : IsFiniteSet(T)
    BY TicketsAssumption, FS_Subset
  <2> QED
    BY <1>1, <2>1
<1> QED
  BY <1>1, <1>2, FlowAssumption DEF Holders

LEMMA BusyEntries ==
    ASSUME NEW o \in Orders, NEW h \in Holders
    PROVE  /\ OpenAt(o, h) \subseteq DOMAIN o.work[h]
           /\ Unconfirmed(o, h) \subseteq DOMAIN o.work[h]
           /\ DOMAIN o.work[h] \in SUBSET Nat
           /\ Busy(o, h) = OpenAt(o, h) \cup Unconfirmed(o, h)
           /\ OpenAt(o, h) \cap Unconfirmed(o, h) = {}
<1>1. DOMAIN o.work[h] = 1..Len(o.work[h])
  BY SheetParts
<1> QED
  BY <1>1 DEF OpenAt, Unconfirmed, Busy

LEMMA LastStageType ==
    ASSUME NEW o \in Orders, NEW h \in Holders
    PROVE  /\ LastStage(o.work[h]) \in 0..5
           /\ LastStage(o.work[h]) = 0 <=> o.work[h] = <<>>
           /\ o.work[h] # <<>> => LastStage(o.work[h]) = LastOf(o.work[h]).stage
<1>1. CASE o.work[h] = <<>>
  BY <1>1 DEF LastStage
<1>2. CASE o.work[h] # <<>>
  <2>1. LastOf(o.work[h]).stage \in Stages
    BY <1>2, LastParts, EntryParts
  <2> QED
    BY <1>2, <2>1, StageNumbers DEF LastStage
<1> QED
  BY <1>1, <1>2

LEMMA AvailableType ==
    ASSUME NEW o \in Orders, NEW h \in Holders
    PROVE  Available(o, h) \in Amount
<1>1. CASE o.work[h] = <<>>
  BY <1>1, SheetParts DEF Available
<1>2. CASE o.work[h] # <<>>
  <2>1. /\ LastOf(o.work[h]).handed \in Amount
        /\ LastOf(o.work[h]).returned \in Amount \cup {NotYet}
    BY <1>2, LastParts, EntryParts
  <2> QED
    BY <1>2, <2>1 DEF Available
<1> QED
  BY <1>1, <1>2

LEMMA NextWaitType ==
    ASSUME NEW s \in 0..5, NEW skip
    PROVE  NextWait(s, skip) \in IN_STAGE_STATUSES
<1>1. s \in Int /\ (s # FILING /\ s # PLATING => s + 1 \in 1..5)
  BY StageNumbers
<1> QED
  BY <1>1, StageNumbers, StatusNumbers DEF NextWait

LEMMA TicketStatusType ==
    ASSUME NEW o \in Orders, NEW h \in Holders
    PROVE  TicketStatus(o, h) \in IN_STAGE_STATUSES
<1> DEFINE busy == IF OpenAt(o, h) # {} THEN OpenAt(o, h) ELSE Unconfirmed(o, h)
           own == LastStage(o.work[h])
           behind == IF own = 0 THEN LastStage(o.work[Parent]) ELSE own
<1>1. TicketStatus(o, h) = IF busy # {} THEN At(o.work[h][Min(busy)].stage)
                           ELSE IF o.sheet[h].pending # 0 THEN Wait(o.sheet[h].pending)
                           ELSE NextWait(behind, o.skip)
  BY DEF TicketStatus
<1>2. ASSUME busy # {} PROVE At(o.work[h][Min(busy)].stage) \in IN_STAGE_STATUSES
  <2>1. busy \in SUBSET Nat /\ busy \subseteq DOMAIN o.work[h]
    BY BusyEntries
  <2> HIDE DEF busy
  <2>2. Min(busy) \in DOMAIN o.work[h]
    BY <1>2, <2>1, MinIsMember
  <2>3. o.work[h][Min(busy)].stage \in Stages
    BY <2>2, EntryParts
  <2> QED
    BY <2>3, StageNumbers, StatusNumbers
<1>3. o.sheet[h].pending # 0 => Wait(o.sheet[h].pending) \in IN_STAGE_STATUSES
  <2>1. o.sheet[h].pending \in Stages \cup {0}
    BY SheetParts
  <2> QED
    BY <2>1, StageNumbers, StatusNumbers
<1>4. NextWait(behind, o.skip) \in IN_STAGE_STATUSES
  <2>1. behind \in 0..5
    BY LastStageType, LiveAreTickets
  <2> QED
    BY <2>1, NextWaitType
<1> HIDE DEF busy, behind
<1> QED
  BY <1>1, <1>2, <1>3, <1>4

LEMMA FurthestRunning ==
    ASSUME NEW o \in Orders, Running(o) # {}
    PROVE  LET all == {TicketStatus(o, t) : t \in Running(o)}
           IN  /\ Furthest(all) \in IN_STAGE_STATUSES /\ Furthest(all) \in all
               /\ \A t \in Running(o) : Furthest(all) >= TicketStatus(o, t)
<1> DEFINE all == {TicketStatus(o, t) : t \in Running(o)}
<1>1. all \subseteq IN_STAGE_STATUSES /\ all # {}
  BY TicketStatusType, LiveAreTickets
<1>2. IN_STAGE_STATUSES \subseteq Nat /\ \A x \in IN_STAGE_STATUSES : x <= 10
  BY StatusNumbers
<1>3. IsFiniteSet(all)
  <2> HIDE DEF all
  <2>1. all \in SUBSET Nat /\ 10 \in Nat /\ \A x \in all : x <= 10
    BY <1>1, <1>2
  <2> QED
    BY <2>1, FS_BoundedSetOfNaturals
<1>4. \A t \in Running(o) : TicketStatus(o, t) \in all
  OBVIOUS
<1> HIDE DEF all
<1>5. Max(all) \in all /\ \A x \in all : Max(all) >= x
  <2>1. all \subseteq Int
    BY <1>1, <1>2
  <2> QED
    BY <1>1, <1>3, <2>1, MaxIsMember
<1> QED
  BY <1>1, <1>4, <1>5 DEF Furthest, all

LEMMA DeriveStatusType ==
    ASSUME NEW o \in Orders
    PROVE  /\ DeriveStatus(o) \in NEW_ORDER..FINISHING
           /\ o.status \notin IN_STAGE_STATUSES => DeriveStatus(o) = o.status
           /\ o.status \in IN_STAGE_STATUSES => DeriveStatus(o) \in IN_STAGE_STATUSES
<1>1. o.status \in NEW_ORDER..FINISHING /\ IN_STAGE_STATUSES \subseteq NEW_ORDER..FINISHING
  BY OrderParts, StatusNumbers
<1>2. o.status \in IN_STAGE_STATUSES => DeriveStatus(o) \in IN_STAGE_STATUSES
  BY TicketStatusType, FurthestRunning, LiveAreTickets DEF DeriveStatus
<1>3. o.status \notin IN_STAGE_STATUSES => DeriveStatus(o) = o.status
  BY DEF DeriveStatus
<1> QED
  BY <1>1, <1>2, <1>3

-----------------------------------------------------------------------------
(* What waits for the finished-goods store, said of any state of the order. *)
SumReceipt(o) ==
    /\ o.receipt.stocked <= o.receipt.qty
    /\ o.receipt.qty > 0 /\ Live(o) # {} => o.receipt.qty = FinishedQty(o)
    /\ o.status \in FINISHED_STATUSES =>
           o.receipt.qty > 0 /\ o.status = FinishedStatus(o.receipt)

LEMMA FinishedQtyType ==
    ASSUME NEW o \in Orders
    PROVE  FinishedQty(o) \in Nat
<1> DEFINE f == [t \in Tickets |-> o.sheet[t].good]
           S == Ended(o, "FINISH")
<1>1. S \subseteq Tickets /\ IsFiniteSet(S)
  BY LiveAreTickets
<1>2. \A t \in S : f[t] \in Nat
  BY <1>1, SheetParts, LiveAreTickets, AmountIsNat
<1> HIDE DEF f, S
<1>3. SumFunctionOnSet(f, S) \in Nat
  BY <1>1, <1>2, SumIsNat
<1> QED
  BY <1>3 DEF FinishedQty, f, S

(* The sum depends on the finished tickets alone.                           *)
LEMMA FinishedQtySame ==
    ASSUME NEW o \in Orders, NEW p, p.sheet \in [Holders -> SheetValues],
           \A t \in Tickets : \/ p.sheet[t] = o.sheet[t]
                              \/ /\ ~(o.sheet[t].live /\ o.sheet[t].outcome = "FINISH")
                                 /\ ~(p.sheet[t].live /\ p.sheet[t].outcome = "FINISH")
                              \/ /\ p.sheet[t].live = o.sheet[t].live
                                 /\ p.sheet[t].outcome = o.sheet[t].outcome
                                 /\ p.sheet[t].good = o.sheet[t].good
    PROVE  FinishedQty(p) = FinishedQty(o)
<1>1. Ended(p, "FINISH") = Ended(o, "FINISH")
  BY DEF Ended, Live
<1> DEFINE f == [t \in Tickets |-> o.sheet[t].good]
           g == [t \in Tickets |-> p.sheet[t].good]
           S == Ended(o, "FINISH")
<1>2. S \subseteq Tickets /\ IsFiniteSet(S)
  BY LiveAreTickets
<1>3. \A t \in S : g[t] = f[t]
  <2> TAKE t \in S
  <2>1. t \in Tickets /\ o.sheet[t].live /\ o.sheet[t].outcome = "FINISH"
    BY <1>2 DEF Ended, Live
  <2> QED
    BY <2>1
<1> HIDE DEF f, g, S
<1>4. SumFunctionOnSet(g, S) = SumFunctionOnSet(f, S)
  BY <1>2, <1>3, SumSame
<1> QED
  BY <1>1, <1>4 DEF FinishedQty, f, g, S

LEMMA NoTicketsFinish ==
    ASSUME NEW o, Ended(o, "FINISH") = {}
    PROVE  FinishedQty(o) = 0
<1>1. IsFiniteSet({})
  BY FS_EmptySet
<1> DEFINE f == [t \in Tickets |-> o.sheet[t].good]
<1>2. \A x \in {} : f[x] = 0
  OBVIOUS
<1> HIDE DEF f
<1>3. SumFunctionOnSet(f, {}) = 0
  BY <1>1, <1>2, SumOfZeros
<1> QED
  BY <1>3 DEF FinishedQty, f

LEMMA NewReceiptType ==
    ASSUME NEW old \in Receipts, NEW n \in Nat
    PROVE  /\ NewReceipt(old, n) \in Receipts
           /\ NewReceipt(old, n).qty = n /\ NewReceipt(old, n).stocked <= n
<1>1. old.stocked \in Nat
  BY DEF Receipts
<1>2. Min({old.stocked, n}) \in {old.stocked, n} /\ Min({old.stocked, n}) <= n
  BY <1>1, MinOfTwo
<1> DEFINE m == Min({old.stocked, n})
<1>3. m \in Nat /\ m <= n
  BY <1>1, <1>2
<1>4. NewReceipt(old, n) = [qty |-> n, stocked |-> m]
  BY DEF NewReceipt
<1> HIDE DEF m
<1> QED
  BY <1>3, <1>4 DEF Receipts

LEMMA FinishedStatusType ==
    ASSUME NEW r
    PROVE  FinishedStatus(r) \in FINISHED_STATUSES
  BY StatusNumbers DEF FinishedStatus

LEMMA DefectOfType ==
    ASSUME NEW s
    PROVE  DefectOf(s) \in DEFECT_STATUSES
  BY StatusNumbers, StageNumbers DEF DefectOf

LEMMA DefectStatusType ==
    ASSUME NEW o \in Orders
    PROVE  DefectStatus(o) \in DEFECT_STATUSES
<1> DEFINE kinds == {DefectOf(LastStage(o.work[t])) : t \in Live(o)}
<1>1. kinds \subseteq DEFECT_STATUSES /\ DEFECT \in DEFECT_STATUSES /\ DEFECT_STATUSES \subseteq Int
  BY DefectOfType, StatusNumbers
<1>2. DefectStatus(o) = IF Cardinality(kinds) = 1 THEN Max(kinds) ELSE DEFECT
  BY DEF DefectStatus
<1> HIDE DEF kinds
<1>3. ASSUME Cardinality(kinds) = 1 PROVE Max(kinds) \in kinds
  <2>1. IsFiniteSet(DEFECT_STATUSES)
    <3>1. IsFiniteSet({DEFECT})
      BY FS_Singleton
    <3>2. IsFiniteSet({DEFECT} \cup {FILING_DEFECT})
      BY <3>1, FS_AddElement
    <3>3. IsFiniteSet(({DEFECT} \cup {FILING_DEFECT}) \cup {STONE_DEFECT})
      BY <3>2, FS_AddElement
    <3>4. ({DEFECT} \cup {FILING_DEFECT}) \cup {STONE_DEFECT} = DEFECT_STATUSES
      BY Zenon DEF DEFECT_STATUSES
    <3> QED
      BY <3>3, <3>4
  <2>2. IsFiniteSet(kinds)
    BY <1>1, <2>1, FS_Subset
  <2>3. kinds # {}
    BY <1>3, FS_EmptySet
  <2>4. kinds \subseteq Int
    BY <1>1
  <2> QED
    BY <2>2, <2>3, <2>4, MaxIsMember
<1> QED
  BY <1>1, <1>2, <1>3

-----------------------------------------------------------------------------
(* What the ends of the transactions do: nothing to sheets and entries, and *)
(* the receipt agrees with the tickets behind it.                           *)
LEMMA StatusShape ==
    ASSUME NEW o \in Orders, NEW x \in NEW_ORDER..FINISHING, NEW p, p = [o EXCEPT !.status = x]
    PROVE  /\ p \in Orders /\ p.status = x
           /\ p.sheet = o.sheet /\ p.work = o.work /\ p.skip = o.skip /\ p.receipt = o.receipt
  BY DEF Orders

LEMMA SyncShape ==
    ASSUME NEW o \in Orders, NEW p, p = SyncOrder(o)
    PROVE  /\ p \in Orders
           /\ p.sheet = o.sheet /\ p.work = o.work /\ p.skip = o.skip
           /\ SumReceipt(p)
           /\ p.status \in IN_STAGE_STATUSES =>
                \/ p.status = o.status
                \/ Running(o) # {} /\ p.status = Furthest({TicketStatus(o, t) : t \in Running(o)})
<1> DEFINE total == FinishedQty(o)
           receipt == NewReceipt(o.receipt, total)
           front == Furthest({TicketStatus(o, t) : t \in Running(o)})
           status ==
               IF Running(o) = {} /\ Live(o) # {}
               THEN IF total > 0 THEN FinishedStatus(receipt) ELSE DefectStatus(o)
               ELSE IF o.status \notin FINISHED_STATUSES \cup DEFECT_STATUSES THEN o.status
               ELSE IF Running(o) = {} THEN CASTING
               ELSE front
<1>1. total \in Nat
  BY FinishedQtyType
<1>2. receipt \in Receipts /\ receipt.qty = total /\ receipt.stocked <= total
  BY <1>1, NewReceiptType, OrderParts
<1>3. p = [o EXCEPT !.receipt = receipt, !.status = status]
  BY DEF SyncOrder
<1>4. Running(o) # {} => front \in IN_STAGE_STATUSES
  BY FurthestRunning
<1> HIDE DEF front
<1>5. /\ status \in NEW_ORDER..FINISHING
      /\ status \in FINISHED_STATUSES => total > 0 /\ status = FinishedStatus(receipt)
      /\ status \in IN_STAGE_STATUSES => status = o.status \/ (Running(o) # {} /\ status = front)
  <2>1. /\ DefectStatus(o) \in DEFECT_STATUSES /\ FinishedStatus(receipt) \in FINISHED_STATUSES
        /\ o.status \in NEW_ORDER..FINISHING
    BY DefectStatusType, FinishedStatusType, OrderParts
  <2> HIDE DEF total, receipt
  <2>2. \/ total > 0 /\ status = FinishedStatus(receipt)
        \/ status = DefectStatus(o)
        \/ status = o.status /\ o.status \notin FINISHED_STATUSES
        \/ status = CASTING
        \/ Running(o) # {} /\ status = front
    OBVIOUS
  <2> HIDE DEF status
  <2>3. /\ FINISHED_STATUSES \subseteq NEW_ORDER..FINISHING
        /\ DEFECT_STATUSES \subseteq NEW_ORDER..FINISHING
        /\ IN_STAGE_STATUSES \subseteq NEW_ORDER..FINISHING
        /\ CASTING \in NEW_ORDER..FINISHING
        /\ CASTING \notin IN_STAGE_STATUSES /\ CASTING \notin FINISHED_STATUSES
        /\ FINISHED_STATUSES \cap IN_STAGE_STATUSES = {}
        /\ DEFECT_STATUSES \cap IN_STAGE_STATUSES = {}
        /\ FINISHED_STATUSES \cap DEFECT_STATUSES = {}
    BY StatusNumbers
  <2>4. CASE total > 0 /\ status = FinishedStatus(receipt)
    BY <2>1, <2>3, <2>4
  <2>5. CASE status = DefectStatus(o)
    BY <2>1, <2>3, <2>5
  <2>6. CASE status = o.status /\ o.status \notin FINISHED_STATUSES
    BY <2>1, <2>6
  <2>7. CASE status = CASTING
    BY <2>3, <2>7
  <2>8. CASE Running(o) # {} /\ status = front
    BY <1>4, <2>3, <2>8
  <2> QED
    BY <2>2, <2>4, <2>5, <2>6, <2>7, <2>8
<1> HIDE DEF total, receipt, status
<1>6. /\ p \in Orders /\ p.sheet = o.sheet /\ p.work = o.work /\ p.skip = o.skip
      /\ p.receipt = receipt /\ p.status = status
  BY <1>2, <1>3, <1>5 DEF Orders
<1>7. FinishedQty(p) = total
  BY <1>6 DEF FinishedQty, Ended, Live, total
<1>8. SumReceipt(p)
  BY <1>2, <1>5, <1>6, <1>7 DEF SumReceipt
<1> QED
  BY <1>5, <1>6, <1>8 DEF front

LEMMA DeriveShape ==
    ASSUME NEW o \in Orders, NEW p, p = [o EXCEPT !.status = DeriveStatus(o)]
    PROVE  /\ p \in Orders /\ p.status = DeriveStatus(o)
           /\ p.sheet = o.sheet /\ p.work = o.work /\ p.skip = o.skip /\ p.receipt = o.receipt
           /\ SumReceipt(o) => SumReceipt(p)
<1>1. /\ p \in Orders /\ p.status = DeriveStatus(o)
      /\ p.sheet = o.sheet /\ p.work = o.work /\ p.skip = o.skip /\ p.receipt = o.receipt
  BY StatusShape, DeriveStatusType
<1>2. p.status \in FINISHED_STATUSES => p.status = o.status
  BY <1>1, DeriveStatusType, StatusNumbers
<1>3. Live(p) = Live(o) /\ FinishedQty(p) = FinishedQty(o)
  BY <1>1 DEF FinishedQty, Ended, Live
<1> QED
  BY <1>1, <1>2, <1>3 DEF SumReceipt

LEMMA SyncAfterShape ==
    ASSUME NEW o \in Orders, NEW closed \in BOOLEAN, NEW p, p = SyncOrderAfterStage(o, closed)
    PROVE  /\ p \in Orders
           /\ p.sheet = o.sheet /\ p.work = o.work /\ p.skip = o.skip
           /\ SumReceipt(o) \/ (closed /\ Live(o) # {}) => SumReceipt(p)
<1> DEFINE q == IF Live(o) # {} /\ (closed \/ o.status \in DEFECT_STATUSES \cup FINISHED_STATUSES)
                THEN SyncOrder(o) ELSE o
<1>1. /\ q \in Orders /\ q.sheet = o.sheet /\ q.work = o.work /\ q.skip = o.skip
      /\ SumReceipt(o) \/ (closed /\ Live(o) # {}) => SumReceipt(q)
  BY SyncShape
<1>2. p = [q EXCEPT !.status = DeriveStatus(q)]
  BY DEF SyncOrderAfterStage
<1> HIDE DEF q
<1> QED
  BY <1>1, <1>2, DeriveShape

LEMMA ClearedShape ==
    ASSUME NEW c \in SheetValues
    PROVE  /\ ClearPending(c) \in SheetValues
           /\ ClearPending(c).pending = 0 /\ ~ClearPending(c).claimed /\ ClearPending(c).give = 0
           /\ ClearPending(c).live = c.live /\ ClearPending(c).qty = c.qty
           /\ ClearPending(c).outcome = c.outcome /\ ClearPending(c).good = c.good
<1> DEFINE zero == 0
           pendings == Stages \cup {0}
<1>1. c \in [live : BOOLEAN, qty : Amount, pending : pendings, claimed : BOOLEAN,
             give : Amount, outcome : Outcomes, good : Amount]
  BY DEF SheetValues
<1>2. 0 \in Amount /\ 0 \in pendings
  BY AmountIsNat
<1>3. ClearPending(c) = [c EXCEPT !.pending = 0, !.claimed = FALSE, !.give = 0]
  BY DEF ClearPending
<1> HIDE DEF pendings
<1>4. /\ ClearPending(c) \in [live : BOOLEAN, qty : Amount, pending : pendings, claimed : BOOLEAN,
                              give : Amount, outcome : Outcomes, good : Amount]
      /\ ClearPending(c).pending = 0 /\ ~ClearPending(c).claimed /\ ClearPending(c).give = 0
      /\ ClearPending(c).live = c.live /\ ClearPending(c).qty = c.qty
      /\ ClearPending(c).outcome = c.outcome /\ ClearPending(c).good = c.good
  BY <1>1, <1>2, <1>3
<1> QED
  BY <1>4 DEF SheetValues, pendings

LEMMA OneSheetShape ==
    ASSUME NEW o \in Orders, NEW h \in Holders, NEW card \in SheetValues
    PROVE  LET p == [o EXCEPT !.sheet[h] = card]
           IN  /\ p \in Orders
               /\ p.work = o.work /\ p.skip = o.skip
               /\ p.receipt = o.receipt /\ p.status = o.status
               /\ p.sheet[h] = card /\ \A g \in Holders : g # h => p.sheet[g] = o.sheet[g]
<1> DEFINE p == [o EXCEPT !.sheet[h] = card]
<1>1. o.sheet \in [Holders -> SheetValues]
  BY OrderParts
<1>2. /\ p.sheet = [o.sheet EXCEPT ![h] = card] /\ p.work = o.work /\ p.skip = o.skip
      /\ p.receipt = o.receipt /\ p.status = o.status
  BY DEF Orders
<1>3. p.sheet \in [Holders -> SheetValues]
  BY <1>1, <1>2
<1>4. p \in Orders
  BY <1>3 DEF Orders
<1> HIDE DEF p
<1>5. /\ p \in Orders
      /\ p.work = o.work /\ p.skip = o.skip
      /\ p.receipt = o.receipt /\ p.status = o.status
      /\ p.sheet[h] = card /\ \A g \in Holders : g # h => p.sheet[g] = o.sheet[g]
  BY <1>1, <1>2, <1>4
<1> QED
  BY <1>5 DEF p

LEMMA CloseShape ==
    ASSUME NEW o \in Orders, NEW t \in Holders, NEW end \in Outcomes,
           NEW p, p = Close(o, t, end)
    PROVE  /\ p \in Orders
           /\ p.work = o.work /\ p.skip = o.skip /\ p.receipt = o.receipt /\ p.status = o.status
           /\ p.sheet[t].live = o.sheet[t].live /\ p.sheet[t].qty = o.sheet[t].qty
           /\ p.sheet[t].pending = 0 /\ ~p.sheet[t].claimed /\ p.sheet[t].outcome = end
           /\ end = "FINISH" => p.sheet[t].good = Available(o, t)
           /\ \A g \in Holders : g # t => p.sheet[g] = o.sheet[g]
<1> DEFINE c == ClearPending(o.sheet[t])
           n == IF end = "FINISH" THEN Available(o, t) ELSE 0
           card == [c EXCEPT !.outcome = end, !.good = n]
<1>1. /\ c \in SheetValues /\ n \in Amount
      /\ c.pending = 0 /\ ~c.claimed /\ c.live = o.sheet[t].live /\ c.qty = o.sheet[t].qty
  BY ClearedShape, SheetParts, AvailableType, AmountIsNat
<1>2. p = [o EXCEPT !.sheet[t] = card]
  BY DEF Close
<1>3. n = IF end = "FINISH" THEN Available(o, t) ELSE 0
  OBVIOUS
<1> HIDE DEF c, n
<1>5. /\ card \in SheetValues /\ card.live = o.sheet[t].live /\ card.qty = o.sheet[t].qty
      /\ card.pending = 0 /\ ~card.claimed /\ card.outcome = end /\ card.good = n
  BY <1>1 DEF SheetValues
<1> HIDE DEF card
<1>6. /\ p \in Orders /\ p.work = o.work /\ p.skip = o.skip
      /\ p.receipt = o.receipt /\ p.status = o.status
      /\ p.sheet[t] = card /\ \A g \in Holders : g # t => p.sheet[g] = o.sheet[g]
  <2> DEFINE q == [o EXCEPT !.sheet[t] = card]
  <2>1. /\ q \in Orders /\ q.work = o.work /\ q.skip = o.skip
        /\ q.receipt = o.receipt /\ q.status = o.status
        /\ q.sheet[t] = card /\ \A g \in Holders : g # t => q.sheet[g] = o.sheet[g]
    BY <1>5, OneSheetShape
  <2>2. p = q
    BY <1>2
  <2> HIDE DEF q
  <2> QED
    BY <2>1, <2>2
<1> QED
  BY <1>3, <1>5, <1>6

LEMMA SheetsShape ==
    ASSUME NEW o \in Orders, NEW f \in [Holders -> SheetValues]
    PROVE  LET p == [o EXCEPT !.sheet = f]
           IN  /\ p \in Orders
               /\ p.sheet = f /\ p.work = o.work /\ p.skip = o.skip
               /\ p.receipt = o.receipt /\ p.status = o.status
  BY DEF Orders

LEMMA EntriesShape ==
    ASSUME NEW o \in Orders, NEW f \in [Holders -> Seq(EntryValues)]
    PROVE  LET p == [o EXCEPT !.work = f]
           IN  /\ p \in Orders
               /\ p.work = f /\ p.sheet = o.sheet /\ p.skip = o.skip
               /\ p.receipt = o.receipt /\ p.status = o.status
  BY DEF Orders

(* One entry of one sheet is rewritten.                                     *)
LEMMA OneEntryShape ==
    ASSUME NEW o \in Orders, NEW h \in Holders, NEW i \in DOMAIN o.work[h], NEW e \in EntryValues
    PROVE  LET p == [o EXCEPT !.work[h][i] = e]
           IN  /\ p \in Orders
               /\ p.sheet = o.sheet /\ p.skip = o.skip
               /\ p.receipt = o.receipt /\ p.status = o.status
               /\ p.work[h][i] = e /\ Len(p.work[h]) = Len(o.work[h])
               /\ DOMAIN p.work[h] = DOMAIN o.work[h]
               /\ \A j \in DOMAIN o.work[h] : j # i => p.work[h][j] = o.work[h][j]
               /\ \A g \in Holders : g # h => p.work[g] = o.work[g]
<1> DEFINE s == [o.work[h] EXCEPT ![i] = e]
           f == [o.work EXCEPT ![h] = s]
           p == [o EXCEPT !.work[h][i] = e]
<1>1. o.work \in [Holders -> Seq(EntryValues)] /\ o.work[h] \in Seq(EntryValues)
  BY OrderParts
<1>2. /\ s \in Seq(EntryValues) /\ s[i] = e /\ Len(s) = Len(o.work[h])
      /\ DOMAIN s = DOMAIN o.work[h]
      /\ \A j \in DOMAIN o.work[h] : j # i => s[j] = o.work[h][j]
  BY <1>1
<1>3. p = [o EXCEPT !.work = f]
  OBVIOUS
<1> HIDE DEF s
<1>4. f \in [Holders -> Seq(EntryValues)] /\ f[h] = s /\ \A g \in Holders : g # h => f[g] = o.work[g]
  BY <1>1, <1>2
<1> HIDE DEF f
<1> DEFINE q == [o EXCEPT !.work = f]
<1>5. /\ q \in Orders /\ q.work = f /\ q.sheet = o.sheet /\ q.skip = o.skip
      /\ q.receipt = o.receipt /\ q.status = o.status
  BY <1>4, EntriesShape
<1>6. p = q
  BY <1>3
<1> HIDE DEF p, q
<1>7. /\ p \in Orders
      /\ p.sheet = o.sheet /\ p.skip = o.skip
      /\ p.receipt = o.receipt /\ p.status = o.status
      /\ p.work[h][i] = e /\ Len(p.work[h]) = Len(o.work[h])
      /\ DOMAIN p.work[h] = DOMAIN o.work[h]
      /\ \A j \in DOMAIN o.work[h] : j # i => p.work[h][j] = o.work[h][j]
      /\ \A g \in Holders : g # h => p.work[g] = o.work[g]
  BY <1>2, <1>4, <1>5, <1>6
<1> QED
  BY <1>7 DEF p

-----------------------------------------------------------------------------
(* Which sheets can have entries: a ticket that is there, or the order's    *)
(* own sheet while there are no tickets; a ticket is closed as good only    *)
(* after it was worked on.                                                  *)
Whole(o) ==
    /\ \A t \in Tickets : ~o.sheet[t].live => o.work[t] = <<>>
    /\ Live(o) # {} => o.work[Parent] = <<>> /\ o.sheet[Parent].pending = 0
    /\ \A t \in Tickets : o.sheet[t].outcome = "FINISH" => o.work[t] # <<>>

(* What no keeper confirms is confirmed when it comes back, and where        *)
(* quality control cannot report a defect something always comes back.      *)
Sane(w) == \A h \in Holders : \A i \in DOMAIN w[h] :
    w[h][i].returned # NotYet =>
        /\ w[h][i].stage \notin KEEPER_CONFIRM_STAGES => w[h][i].confirmed
        /\ w[h][i].stage \notin DEFECT_REPORT_STAGES => w[h][i].returned > 0

StatusRequests == [op : {"status"}, to : (NEW_ORDER..FINISHING) \ FINISHED_STATUSES]
ChangeRequests == [op : {"change"}, to : {DEFECT, NEW_ORDER}, leave : BOOLEAN,
                   cleared : SUBSET Holders]
FinishRequests == [op : {"finish"}, qty : Amount \ {0}]
UndoFinishRequests == [op : {"undoFinish"}, to : {CASTING} \cup IN_STAGE_STATUSES]

(* What a request in flight brings: its type, and what stays true of the    *)
(* entry or the order it read, whatever happens meanwhile.                  *)
Brings(r, o) ==
    /\ r.op \in {"idle", "return", "undo", "status", "change", "finish", "undoFinish"}
    /\ r.op = "idle" => r = Idle
    /\ r.op = "return" =>
        /\ r \in ReturnRequests /\ r.i \in DOMAIN o.work[r.h]
        /\ r.good > 0 \/ o.work[r.h][r.i].stage \in DEFECT_REPORT_STAGES
        /\ r.fresh => r.i \in Busy(o, r.h)
    /\ r.op = "undo" => /\ r \in UndoRequests /\ r.i \in DOMAIN o.work[r.h] /\ Corrections
                        /\ o.work[r.h][r.i].stage \notin KEEPER_CONFIRM_STAGES
    /\ r.op = "status" => r \in StatusRequests
    /\ r.op = "change" => r \in ChangeRequests
    /\ r.op = "finish" => r \in FinishRequests /\ o.work[Parent] # <<>>
    /\ r.op = "undoFinish" => r \in UndoFinishRequests /\ Corrections

CoreInv ==
    /\ order \in Orders /\ Whole(order) /\ Sane(order.work) /\ SumReceipt(order)
    /\ req = [c \in Clients |-> req[c]]
    /\ \A c \in Clients : Brings(req[c], order)

(* Steps keep the entries that are there, and their stages.                 *)
Grows(w, v) == \A h \in Holders :
    /\ DOMAIN w[h] \subseteq DOMAIN v[h]
    /\ \A i \in DOMAIN w[h] : v[h][i].stage = w[h][i].stage

(* No entry is newly confirmed by the keeper, and none that is changes.     *)
NothingConfirmed(w, v) == \A h \in Holders : \A i \in DOMAIN v[h] :
    v[h][i].stage \in KEEPER_CONFIRM_STAGES /\ v[h][i].confirmed =>
        /\ i \in DOMAIN w[h] /\ w[h][i].stage = v[h][i].stage
        /\ w[h][i].confirmed /\ w[h][i].returned = v[h][i].returned

LEMMA GrowsSame ==
    ASSUME NEW w
    PROVE  Grows(w, w) /\ NothingConfirmed(w, w)
  BY DEF Grows, NothingConfirmed

LEMMA StaleBrings ==
    ASSUME NEW r, NEW o \in Orders, NEW p \in Orders, Brings(r, o), Grows(o.work, p.work)
    PROVE  Brings(Stale(r), p)
<1>1. CASE r.op = "return"
  <2>1. /\ r \in ReturnRequests /\ r.i \in DOMAIN o.work[r.h] /\ r.h \in Holders
        /\ r.good > 0 \/ o.work[r.h][r.i].stage \in DEFECT_REPORT_STAGES
    BY <1>1 DEF Brings, ReturnRequests
  <2> DEFINE s == [r EXCEPT !.fresh = FALSE]
  <2>2. s \in ReturnRequests /\ s.op = "return" /\ ~s.fresh /\ s.h = r.h /\ s.i = r.i /\ s.good = r.good
    BY <2>1 DEF ReturnRequests
  <2>3. Stale(r) = s
    BY <1>1 DEF Stale
  <2>4. r.i \in DOMAIN p.work[r.h] /\ p.work[r.h][r.i].stage = o.work[r.h][r.i].stage
    BY <2>1 DEF Grows
  <2> HIDE DEF s
  <2> QED
    BY <2>1, <2>2, <2>3, <2>4 DEF Brings
<1>2. CASE r.op # "return"
  <2>1. Stale(r) = r
    BY <1>2 DEF Stale
  <2>2. ASSUME r.op = "undo"
        PROVE  r.i \in DOMAIN p.work[r.h] /\ p.work[r.h][r.i].stage \notin KEEPER_CONFIRM_STAGES
    <3>1. r \in UndoRequests /\ r.i \in DOMAIN o.work[r.h] /\ r.h \in Holders
          /\ o.work[r.h][r.i].stage \notin KEEPER_CONFIRM_STAGES
      BY <2>2 DEF Brings, UndoRequests
    <3> QED
      BY <3>1 DEF Grows
  <2>3. ASSUME r.op = "finish" PROVE p.work[Parent] # <<>>
    <3>1. o.work[Parent] # <<>> /\ Parent \in Holders
      BY <2>3, LiveAreTickets DEF Brings
    <3>2. Len(o.work[Parent]) \in DOMAIN o.work[Parent]
      BY <3>1, LastParts
    <3>3. DOMAIN p.work[Parent] # {}
      BY <3>1, <3>2 DEF Grows
    <3> QED
      BY <3>3
  <2> QED
    BY <1>2, <2>1, <2>2, <2>3 DEF Brings
<1> QED
  BY <1>1, <1>2

(* Only the sheets changed: what a request saw of the entries still holds.  *)
LEMMA SameBrings ==
    ASSUME NEW r, NEW o, NEW p, Brings(r, o), p.work = o.work
    PROVE  Brings(r, p)
  BY DEF Brings, Busy, OpenAt, Unconfirmed

-----------------------------------------------------------------------------
(* A step under the lock, and the two ends of a request.                    *)
CoreOf(o) == o \in Orders /\ Whole(o) /\ Sane(o.work) /\ SumReceipt(o)

LEMMA MutateCore ==
    ASSUME CoreInv, NEW o, Mutate(o), CoreOf(o), Grows(order.work, o.work)
    PROVE  CoreInv'
<1>1. order' = o /\ req' = [c \in Clients |-> Stale(req[c])]
  BY DEF Mutate
<1>2. ASSUME NEW c \in Clients PROVE Brings(req'[c], order')
  BY <1>1, StaleBrings DEF CoreInv, CoreOf
<1> QED
  BY <1>1, <1>2 DEF CoreInv, CoreOf

LEMMA SameMutateCore ==
    ASSUME CoreInv, NEW o, Mutate(o), CoreOf(o), o.work = order.work
    PROVE  CoreInv' /\ order'.work = order.work
<1>1. order' = o /\ Grows(order.work, o.work)
  BY GrowsSame DEF Mutate
<1> QED
  BY <1>1, MutateCore

LEMMA TicketCore ==
    ASSUME CoreInv, NEW o, MutateTicket(o), CoreOf(o), o.work = order.work
    PROVE  CoreInv' /\ order'.work = order.work
<1>1. order' = o /\ req' = req
  BY DEF MutateTicket
<1>2. ASSUME NEW c \in Clients PROVE Brings(req'[c], order')
  BY <1>1, SameBrings DEF CoreInv
<1> QED
  BY <1>1, <1>2 DEF CoreInv, CoreOf

LEMMA SaveCore ==
    ASSUME CoreInv, NEW c \in Clients, NEW o, NEW next, Save(c, o, next),
           CoreOf(o), Grows(order.work, o.work),
           next \in NEW_ORDER..FINISHING, next \in FINISHED_STATUSES => next = o.status
    PROVE  CoreInv'
<1>1. order' = o /\ req' = [d \in Clients |-> IF d # c THEN Stale(req[d])
                                 ELSE IF next = o.status THEN Idle
                                 ELSE [op |-> "status", to |-> next]]
  BY DEF Save
<1>2. ASSUME NEW d \in Clients PROVE Brings(req'[d], order')
  <2>1. CASE d # c
    BY <1>1, <2>1, StaleBrings DEF CoreInv, CoreOf
  <2>2. CASE d = c /\ next = o.status
    BY <1>1, <2>2 DEF Brings, Idle
  <2>3. CASE d = c /\ next # o.status
    <3> DEFINE r == [op |-> "status", to |-> next]
    <3>1. req'[d] = r
      BY <1>1, <2>3
    <3>2. r \in StatusRequests /\ r.op = "status"
      BY <2>3 DEF StatusRequests
    <3> HIDE DEF r
    <3> QED
      BY <3>1, <3>2 DEF Brings
  <2> QED
    BY <2>1, <2>2, <2>3
<1>3. req' = [d \in Clients |-> req'[d]]
  BY <1>1
<1> QED
  BY <1>1, <1>2, <1>3 DEF CoreInv, CoreOf

LEMMA AskCore ==
    ASSUME CoreInv, NEW c \in Clients, NEW r, Ask(c, r) \/ (r = Idle /\ Refuse(c)), Brings(r, order)
    PROVE  CoreInv'
<1>1. order' = order /\ req' = [req EXCEPT ![c] = r]
  BY DEF Ask, Refuse
<1>2. \A d \in Clients : req'[d] = IF d = c THEN r ELSE req[d]
  BY <1>1 DEF CoreInv
<1>3. req' = [d \in Clients |-> req'[d]]
  BY <1>1 DEF CoreInv
<1>4. \A d \in Clients : Brings(req'[d], order')
  BY <1>1, <1>2 DEF CoreInv
<1> QED
  BY <1>1, <1>3, <1>4 DEF CoreInv

LEMMA RefuseCore ==
    ASSUME CoreInv, NEW c \in Clients, Refuse(c)
    PROVE  CoreInv'
<1>1. Brings(Idle, order)
  BY DEF Brings, Idle
<1> QED
  BY <1>1, AskCore

(* The receipt and the status are as before, or the status is no finished   *)
(* one, and no finished ticket changed.                                     *)
LEMMA ReceiptFrame ==
    ASSUME NEW o \in Orders, NEW p \in Orders, SumReceipt(o),
           p.receipt = o.receipt, p.status = o.status \/ p.status \notin FINISHED_STATUSES,
           Live(p) # {} /\ o.receipt.qty > 0 => Live(o) # {},
           \A t \in Tickets : \/ p.sheet[t] = o.sheet[t]
                              \/ /\ ~(o.sheet[t].live /\ o.sheet[t].outcome = "FINISH")
                                 /\ ~(p.sheet[t].live /\ p.sheet[t].outcome = "FINISH")
                              \/ /\ p.sheet[t].live = o.sheet[t].live
                                 /\ p.sheet[t].outcome = o.sheet[t].outcome
                                 /\ p.sheet[t].good = o.sheet[t].good
    PROVE  SumReceipt(p)
<1>1. p.sheet \in [Holders -> SheetValues]
  BY OrderParts
<1>2. FinishedQty(p) = FinishedQty(o)
  BY <1>1, FinishedQtySame
<1> QED
  BY <1>2 DEF SumReceipt

-----------------------------------------------------------------------------
(* Only sheets changed, and none a finished ticket has its pieces from.     *)
LEMMA CardsCore ==
    ASSUME NEW o, CoreOf(o), NEW p \in Orders, p.work = o.work,
           p.receipt = o.receipt, p.status = o.status \/ p.status \notin FINISHED_STATUSES,
           Live(p) # {} => /\ Live(o) # {} \/ (o.receipt.qty = 0 /\ o.work[Parent] = <<>>)
                           /\ p.sheet[Parent].pending = 0,
           \A t \in Tickets :
               /\ p.sheet[t].live \/ p.sheet[t].live = o.sheet[t].live \/ o.work[t] = <<>>
               /\ p.sheet[t].outcome = "FINISH" => o.sheet[t].outcome = "FINISH"
               /\ \/ p.sheet[t] = o.sheet[t]
                  \/ /\ ~(o.sheet[t].live /\ o.sheet[t].outcome = "FINISH")
                     /\ ~(p.sheet[t].live /\ p.sheet[t].outcome = "FINISH")
                  \/ /\ p.sheet[t].live = o.sheet[t].live
                     /\ p.sheet[t].outcome = o.sheet[t].outcome
                     /\ p.sheet[t].good = o.sheet[t].good
    PROVE  CoreOf(p) /\ p.work = o.work
<1>1. o \in Orders /\ Whole(o) /\ Sane(o.work) /\ SumReceipt(o)
  BY DEF CoreOf
<1>2. o.receipt.qty \in Nat
  BY <1>1, OrderParts DEF Receipts
<1>3. SumReceipt(p)
  BY <1>1, <1>2, ReceiptFrame
<1>4. Whole(p)
  BY <1>1 DEF Whole
<1> QED
  BY <1>1, <1>3, <1>4 DEF CoreOf

LEMMA EntryCore ==
    ASSUME NEW o, CoreOf(o), NEW h \in Holders, NEW i \in DOMAIN o.work[h], NEW e \in EntryValues,
           e.stage = o.work[h][i].stage,
           e.returned # NotYet => /\ e.stage \notin KEEPER_CONFIRM_STAGES => e.confirmed
                                  /\ e.stage \notin DEFECT_REPORT_STAGES => e.returned > 0
    PROVE  LET p == [o EXCEPT !.work[h][i] = e]
           IN  /\ CoreOf(p) /\ Grows(o.work, p.work)
               /\ (e.stage \in KEEPER_CONFIRM_STAGES /\ e.confirmed =>
                       o.work[h][i].confirmed /\ e.returned = o.work[h][i].returned)
                  => NothingConfirmed(o.work, p.work)
<1> DEFINE p == [o EXCEPT !.work[h][i] = e]
<1>1. o \in Orders /\ Whole(o) /\ Sane(o.work) /\ SumReceipt(o)
  BY DEF CoreOf
<1>2. /\ p \in Orders
      /\ p.sheet = o.sheet /\ p.skip = o.skip
      /\ p.receipt = o.receipt /\ p.status = o.status
      /\ p.work[h][i] = e /\ Len(p.work[h]) = Len(o.work[h])
      /\ DOMAIN p.work[h] = DOMAIN o.work[h]
      /\ \A j \in DOMAIN o.work[h] : j # i => p.work[h][j] = o.work[h][j]
      /\ \A g \in Holders : g # h => p.work[g] = o.work[g]
  BY <1>1, OneEntryShape
<1> HIDE DEF p
<1>3. \A g \in Holders : p.work[g] = <<>> <=> o.work[g] = <<>>
  <2>1. p.work[h] \in Seq(EntryValues) /\ o.work[h] \in Seq(EntryValues)
    BY <1>1, <1>2, SheetParts
  <2>2. p.work[h] = <<>> <=> o.work[h] = <<>>
    BY <1>2, <2>1
  <2> QED
    BY <1>2, <2>2
<1>4. Live(p) = Live(o)
  BY <1>2 DEF Live
<1>5. Whole(p)
  BY <1>1, <1>2, <1>3, <1>4, LiveAreTickets DEF Whole
<1>6. SumReceipt(p)
  BY <1>1, <1>2, <1>4, ReceiptFrame
<1>7. Sane(p.work)
  BY <1>1, <1>2 DEF Sane
<1>8. Grows(o.work, p.work)
  BY <1>1, <1>2 DEF Grows
<1>9. (e.stage \in KEEPER_CONFIRM_STAGES /\ e.confirmed =>
           o.work[h][i].confirmed /\ e.returned = o.work[h][i].returned)
      => NothingConfirmed(o.work, p.work)
  BY <1>2 DEF NothingConfirmed
<1> QED
  BY <1>2, <1>5, <1>6, <1>7, <1>8, <1>9 DEF CoreOf, p

-----------------------------------------------------------------------------
LEMMA SheetShape ==
    ASSUME NEW n \in Amount
    PROVE  /\ Sheet(n) \in SheetValues /\ Sheet(n).live = (n > 0) /\ Sheet(n).qty = n
           /\ Sheet(n).pending = 0 /\ ~Sheet(n).claimed /\ Sheet(n).give = 0
           /\ Sheet(n).outcome = "NONE" /\ Sheet(n).good = 0
<1> DEFINE pendings == Stages \cup {0}
           live == n > 0
<1>1. 0 \in Amount /\ 0 \in pendings /\ live \in BOOLEAN /\ "NONE" \in Outcomes
  BY AmountIsNat DEF Outcomes
<1>2. Sheet(n) = [live |-> live, qty |-> n, pending |-> 0, claimed |-> FALSE, give |-> 0,
                  outcome |-> "NONE", good |-> 0]
  BY DEF Sheet
<1> HIDE DEF pendings, live
<1>3. /\ Sheet(n) \in [live : BOOLEAN, qty : Amount, pending : pendings, claimed : BOOLEAN,
                       give : Amount, outcome : Outcomes, good : Amount]
      /\ Sheet(n).live = live /\ Sheet(n).qty = n
      /\ Sheet(n).pending = 0 /\ ~Sheet(n).claimed /\ Sheet(n).give = 0
      /\ Sheet(n).outcome = "NONE" /\ Sheet(n).good = 0
  BY <1>1, <1>2
<1> QED
  BY <1>3 DEF SheetValues, pendings, live

(* The order is active while nothing waits for the store, or a ticket runs. *)
LEMMA ActiveParent ==
    ASSUME CoreInv, Active(order), Live(order) = {}
    PROVE  order.receipt.qty = 0
  BY LiveAreTickets DEF Active

LEMMA DivideCore ==
    ASSUME CoreInv, Split \/ CreateTicket \/ ClearSplit \/ RemoveTicket
    PROVE  CoreInv' /\ order'.work = order.work
<1>1. CoreOf(order) /\ order \in Orders /\ Whole(order)
  BY DEF CoreInv, CoreOf
<1>2. order.sheet \in [Holders -> SheetValues]
  BY <1>1, OrderParts
<1>3. /\ Tickets \subseteq Holders /\ Parent \in Holders /\ Parent \notin Tickets
      /\ Live(order) \subseteq Tickets
  BY LiveAreTickets
<1>4. \A n \in 1..OrderQty : n \in Amount /\ n > 0
  BY SizeAssumption DEF Amount
<1>5. 0 \in Amount /\ ~(0 > 0)
  BY AmountIsNat
<1>6. CASE Split
  <2>1. /\ Live(order) = {} /\ Active(order)
        /\ order.sheet[Parent].pending = 0 /\ order.work[Parent] = <<>>
        /\ \E ts \in SUBSET Tickets : \E f \in [ts -> 1..OrderQty] :
              Mutate([order EXCEPT !.sheet =
                  [h \in Holders |-> IF h \in ts THEN Sheet(f[h]) ELSE order.sheet[h]]])
    BY <1>6 DEF Split
  <2>2. PICK ts \in SUBSET Tickets : \E f \in [ts -> 1..OrderQty] :
          Mutate([order EXCEPT !.sheet =
              [h \in Holders |-> IF h \in ts THEN Sheet(f[h]) ELSE order.sheet[h]]])
    BY <2>1
  <2>3. PICK f \in [ts -> 1..OrderQty] :
          Mutate([order EXCEPT !.sheet =
              [h \in Holders |-> IF h \in ts THEN Sheet(f[h]) ELSE order.sheet[h]]])
    BY <2>2
  <2> DEFINE g == [h \in Holders |-> IF h \in ts THEN Sheet(f[h]) ELSE order.sheet[h]]
             p == [order EXCEPT !.sheet = g]
  <2>4. \A t \in ts : /\ Sheet(f[t]) \in SheetValues /\ Sheet(f[t]).live
                      /\ Sheet(f[t]).outcome = "NONE"
    BY <1>4, SheetShape
  <2>5. /\ g \in [Holders -> SheetValues]
        /\ \A h \in Holders \ ts : g[h] = order.sheet[h]
        /\ \A t \in ts : g[t].live /\ g[t].outcome = "NONE"
    BY <1>2, <1>3, <2>4
  <2> HIDE DEF g
  <2>6. /\ p \in Orders /\ p.sheet = g /\ p.work = order.work
        /\ p.receipt = order.receipt /\ p.status = order.status
    BY <1>1, <2>5, SheetsShape
  <2>7. Mutate(p)
    BY <2>3 DEF g
  <2> HIDE DEF p
  <2>8. order.receipt.qty = 0
    BY <2>1, ActiveParent
  <2>9. \A t \in Tickets :
          /\ p.sheet[t].live \/ p.sheet[t].live = order.sheet[t].live \/ order.work[t] = <<>>
          /\ p.sheet[t].outcome = "FINISH" => order.sheet[t].outcome = "FINISH"
          /\ \/ p.sheet[t] = order.sheet[t]
             \/ /\ ~(order.sheet[t].live /\ order.sheet[t].outcome = "FINISH")
                /\ ~(p.sheet[t].live /\ p.sheet[t].outcome = "FINISH")
    <3> SUFFICES ASSUME NEW t \in Tickets
                 PROVE  /\ p.sheet[t].live \/ p.sheet[t].live = order.sheet[t].live
                        /\ p.sheet[t].outcome = "FINISH" => order.sheet[t].outcome = "FINISH"
                        /\ \/ p.sheet[t] = order.sheet[t]
                           \/ ~order.sheet[t].live /\ p.sheet[t].outcome # "FINISH"
      OBVIOUS
    <3>1. ~order.sheet[t].live
      BY <2>1 DEF Live
    <3> QED
      BY <1>3, <2>5, <2>6, <3>1
  <2>10. p.sheet[Parent].pending = 0
    BY <1>3, <2>1, <2>5, <2>6
  <2>11. CoreOf(p) /\ p.work = order.work
    BY <1>1, <2>1, <2>6, <2>8, <2>9, <2>10, CardsCore
  <2> QED
    BY <2>7, <2>11, SameMutateCore
<1>7. CASE CreateTicket \/ RemoveTicket
  <2>1. PICK t \in Tickets, n \in Amount :
          /\ Mutate([order EXCEPT !.sheet[t] = Sheet(n)])
          /\ Live(order) # {}
          /\ order.sheet[t].live => order.work[t] = <<>>
          /\ n = 0 => order.work[t] = <<>>
    <3>1. CASE CreateTicket
      BY <1>4, <3>1 DEF CreateTicket, Live
    <3>2. CASE RemoveTicket
      BY <1>3, <1>5, <3>2 DEF RemoveTicket, Started
    <3> QED
      BY <1>7, <3>1, <3>2
  <2> DEFINE card == Sheet(n)
             p == [order EXCEPT !.sheet[t] = card]
  <2>2. card \in SheetValues /\ card.outcome = "NONE" /\ card.live = (n > 0)
    BY SheetShape
  <2> HIDE DEF card
  <2>3. /\ p \in Orders /\ p.work = order.work /\ p.receipt = order.receipt
        /\ p.status = order.status
        /\ p.sheet[t] = card /\ \A g \in Holders : g # t => p.sheet[g] = order.sheet[g]
    BY <1>1, <1>3, <2>2, OneSheetShape
  <2>4. Mutate(p)
    BY <2>1 DEF card
  <2> HIDE DEF p
  <2>5. ~(order.sheet[t].live /\ order.sheet[t].outcome = "FINISH")
    BY <1>1, <2>1 DEF Whole
  <2>6. card.live \/ order.work[t] = <<>>
    <3>1. n = 0 \/ n > 0
      BY AmountIsNat
    <3>2. CASE n > 0
      <4>1. (n > 0) = TRUE
        BY <3>2
      <4> QED
        BY <2>2, <4>1
    <3> QED
      BY <2>1, <3>1, <3>2
  <2>7. p.sheet[Parent].pending = 0
    BY <1>1, <1>3, <2>1, <2>3 DEF Whole
  <2>8. \A u \in Tickets :
          /\ p.sheet[u].live \/ p.sheet[u].live = order.sheet[u].live \/ order.work[u] = <<>>
          /\ p.sheet[u].outcome = "FINISH" => order.sheet[u].outcome = "FINISH"
          /\ \/ p.sheet[u] = order.sheet[u]
             \/ /\ ~(order.sheet[u].live /\ order.sheet[u].outcome = "FINISH")
                /\ ~(p.sheet[u].live /\ p.sheet[u].outcome = "FINISH")
    BY <1>3, <2>2, <2>3, <2>5, <2>6
  <2>9. CoreOf(p) /\ p.work = order.work
    BY <1>1, <2>1, <2>3, <2>7, <2>8, CardsCore
  <2> QED
    BY <2>4, <2>9, SameMutateCore
<1>8. CASE ClearSplit
  <2> DEFINE g == [h \in Holders |-> IF h = Parent THEN order.sheet[h] ELSE Sheet(0)]
             p == [order EXCEPT !.sheet = g]
  <2>1. /\ Mutate(p)
        /\ \A t \in Live(order) : order.work[t] = <<>>
    BY <1>8 DEF ClearSplit, Started
  <2>2. Sheet(0) \in SheetValues /\ Sheet(0).outcome = "NONE" /\ ~Sheet(0).live
    BY <1>5, SheetShape
  <2>3. /\ g \in [Holders -> SheetValues]
        /\ \A t \in Tickets : g[t].outcome = "NONE" /\ ~g[t].live
    BY <1>2, <1>3, <2>2
  <2> HIDE DEF g
  <2>4. /\ p \in Orders /\ p.sheet = g /\ p.work = order.work
        /\ p.receipt = order.receipt /\ p.status = order.status
    BY <1>1, <2>3, SheetsShape
  <2> HIDE DEF p
  <2>5. \A t \in Tickets : order.work[t] = <<>> /\ order.sheet[t].outcome # "FINISH"
    BY <1>1, <2>1 DEF Whole, Live
  <2>6. Live(p) = {}
    BY <2>3, <2>4 DEF Live
  <2>7. CoreOf(p) /\ p.work = order.work
    BY <1>1, <2>3, <2>4, <2>5, <2>6, CardsCore
  <2> QED
    BY <2>1, <2>7, SameMutateCore
<1> QED
  BY <1>6, <1>7, <1>8

LEMMA UpdateTicketCore ==
    ASSUME CoreInv, UpdateTicket
    PROVE  /\ CoreInv' /\ order'.work = order.work
           /\ \A h \in Holders : /\ order'.sheet[h].live = order.sheet[h].live
                                 /\ order'.sheet[h].outcome = order.sheet[h].outcome
                                 /\ order'.sheet[h].good = order.sheet[h].good
                                 /\ order'.sheet[h].pending = order.sheet[h].pending
<1>1. CoreOf(order) /\ order \in Orders /\ Whole(order)
  BY DEF CoreInv, CoreOf
<1>2. order.sheet \in [Holders -> SheetValues]
  BY <1>1, OrderParts
<1>3. /\ Tickets \subseteq Holders /\ Parent \in Holders /\ Parent \notin Tickets
      /\ Live(order) \subseteq Tickets /\ IsFiniteSet(Live(order))
  BY LiveAreTickets
<1>4. PICK t \in Live(order), n \in 1..OrderQty :
        LET others == Live(order) \ {t}
            share == (OrderQty - n) \div Cardinality(others)
            extra == (OrderQty - n) % Cardinality(others)
        IN  /\ others # {}
            /\ \E more \in kSubset(extra, others) :
                Mutate([order EXCEPT !.sheet = [h \in Holders |->
                    IF h = t THEN [@[h] EXCEPT !.qty = n]
                    ELSE IF h \in others
                         THEN [@[h] EXCEPT !.qty = share + (IF h \in more THEN 1 ELSE 0)]
                    ELSE @[h]]])
  BY DEF UpdateTicket
<1> DEFINE others == Live(order) \ {t}
           share == (OrderQty - n) \div Cardinality(others)
<1>5. share \in Nat /\ share < OrderQty
  <2>1. IsFiniteSet(others)
    BY <1>3, FS_Subset
  <2>2. Cardinality(others) \in Nat /\ Cardinality(others) # 0
    BY <1>4, <2>1, FS_CardinalityType, FS_EmptySet
  <2> DEFINE k == Cardinality(others)
             left == OrderQty - n
  <2>3. k \in Nat /\ k > 0 /\ left \in Nat /\ left < OrderQty
    BY <2>2, SizeAssumption
  <2> HIDE DEF k, left
  <2>4. left \div k \in 0..left
    BY <2>3
  <2> QED
    BY <2>3, <2>4, SizeAssumption DEF k, left
<1>6. PICK more :
        Mutate([order EXCEPT !.sheet = [h \in Holders |->
            IF h = t THEN [@[h] EXCEPT !.qty = n]
            ELSE IF h \in others
                 THEN [@[h] EXCEPT !.qty = share + (IF h \in more THEN 1 ELSE 0)]
            ELSE @[h]]])
  BY <1>4
<1> HIDE DEF others, share
<1> DEFINE part(h) == share + (IF h \in more THEN 1 ELSE 0)
           f == [h \in Holders |->
                    IF h = t THEN [order.sheet[h] EXCEPT !.qty = n]
                    ELSE IF h \in others THEN [order.sheet[h] EXCEPT !.qty = part(h)]
                    ELSE order.sheet[h]]
           p == [order EXCEPT !.sheet = f]
<1>7. ASSUME NEW c \in SheetValues, NEW q \in Amount
      PROVE  LET d == [c EXCEPT !.qty = q]
             IN  /\ d \in SheetValues /\ d.live = c.live /\ d.outcome = c.outcome
                 /\ d.good = c.good /\ d.pending = c.pending
  BY DEF SheetValues
<1>8. /\ f \in [Holders -> SheetValues]
      /\ \A h \in Holders : /\ f[h].live = order.sheet[h].live
                            /\ f[h].outcome = order.sheet[h].outcome
                            /\ f[h].good = order.sheet[h].good
                            /\ f[h].pending = order.sheet[h].pending
  <2>1. n \in Amount /\ \A h \in Holders : part(h) \in Amount
    BY <1>5, SizeAssumption DEF Amount
  <2> HIDE DEF part
  <2> SUFFICES ASSUME NEW h \in Holders
               PROVE  /\ f[h] \in SheetValues
                      /\ f[h].live = order.sheet[h].live
                      /\ f[h].outcome = order.sheet[h].outcome
                      /\ f[h].good = order.sheet[h].good
                      /\ f[h].pending = order.sheet[h].pending
    OBVIOUS
  <2>2. order.sheet[h] \in SheetValues
    BY <1>2
  <2> DEFINE a == [order.sheet[h] EXCEPT !.qty = n]
             b == [order.sheet[h] EXCEPT !.qty = part(h)]
  <2>3. f[h] = a \/ f[h] = b \/ f[h] = order.sheet[h]
    OBVIOUS
  <2>4. /\ a \in SheetValues /\ a.live = order.sheet[h].live /\ a.outcome = order.sheet[h].outcome
        /\ a.good = order.sheet[h].good /\ a.pending = order.sheet[h].pending
    BY <1>7, <2>1, <2>2
  <2>5. /\ b \in SheetValues /\ b.live = order.sheet[h].live /\ b.outcome = order.sheet[h].outcome
        /\ b.good = order.sheet[h].good /\ b.pending = order.sheet[h].pending
    BY <1>7, <2>1, <2>2
  <2> HIDE DEF a, b, f
  <2> QED
    BY <2>2, <2>3, <2>4, <2>5
<1>9. Mutate(p)
  BY <1>6
<1> HIDE DEF f
<1>10. /\ p \in Orders /\ p.sheet = f /\ p.work = order.work
       /\ p.receipt = order.receipt /\ p.status = order.status
  BY <1>1, <1>8, SheetsShape
<1> HIDE DEF p
<1>11. Live(p) = Live(order)
  BY <1>3, <1>8, <1>10 DEF Live
<1>12. Live(order) # {} => p.sheet[Parent].pending = 0
  BY <1>1, <1>3, <1>8, <1>10 DEF Whole
<1>13. CoreOf(p) /\ p.work = order.work
  BY <1>1, <1>3, <1>8, <1>10, <1>11, <1>12, CardsCore
<1>14. CoreInv' /\ order'.work = order.work
  BY <1>9, <1>13, SameMutateCore
<1>15. order'.sheet = f
  BY <1>9, <1>10 DEF Mutate
<1> QED
  BY <1>8, <1>14, <1>15

(* A sheet is opened, assigned or taken back.                               *)
LEMMA PendingShape ==
    ASSUME NEW o, CoreOf(o), NEW h \in Holders, NEW card \in SheetValues,
           card.live = o.sheet[h].live, card.outcome = o.sheet[h].outcome,
           card.good = o.sheet[h].good,
           h = Parent => Live(o) = {} \/ card.pending = 0
    PROVE  LET p == [o EXCEPT !.sheet[h] = card]
           IN  CoreOf(p) /\ p.work = o.work
<1> DEFINE p == [o EXCEPT !.sheet[h] = card]
<1>1. o \in Orders /\ Whole(o)
  BY DEF CoreOf
<1>2. /\ p \in Orders /\ p.work = o.work /\ p.receipt = o.receipt /\ p.status = o.status
      /\ p.sheet[h] = card /\ \A g \in Holders : g # h => p.sheet[g] = o.sheet[g]
  BY <1>1, OneSheetShape
<1> HIDE DEF p
<1>3. Live(p) = Live(o)
  BY <1>2, LiveAreTickets DEF Live
<1>4. Live(p) # {} => p.sheet[Parent].pending = 0
  BY <1>1, <1>2, <1>3, LiveAreTickets DEF Whole
<1>5. CoreOf(p)
  BY <1>1, <1>2, <1>3, <1>4, LiveAreTickets, CardsCore
<1> QED
  BY <1>2, <1>5 DEF p

(* What is prepared on a sheet: the stage, whether for a worker named, and   *)
(* how many pieces for him.                                                 *)
Prepared(c, s, k, g) == [c EXCEPT !.pending = s, !.claimed = k, !.give = g]

LEMMA PreparedShape ==
    ASSUME NEW c \in SheetValues, NEW s \in Stages \cup {0}, NEW k \in BOOLEAN, NEW g \in Amount
    PROVE  /\ Prepared(c, s, k, g) \in SheetValues
           /\ Prepared(c, s, k, g).live = c.live /\ Prepared(c, s, k, g).outcome = c.outcome
           /\ Prepared(c, s, k, g).good = c.good /\ Prepared(c, s, k, g).qty = c.qty
           /\ Prepared(c, s, k, g).pending = s /\ Prepared(c, s, k, g).claimed = k
           /\ Prepared(c, s, k, g).give = g
<1> DEFINE pendings == Stages \cup {0}
           d == [c EXCEPT !.pending = s, !.claimed = k, !.give = g]
<1>1. /\ c \in [live : BOOLEAN, qty : Amount, pending : pendings, claimed : BOOLEAN,
                give : Amount, outcome : Outcomes, good : Amount]
      /\ s \in pendings
  BY DEF SheetValues
<1> HIDE DEF pendings
<1>2. /\ d \in [live : BOOLEAN, qty : Amount, pending : pendings, claimed : BOOLEAN,
                give : Amount, outcome : Outcomes, good : Amount]
      /\ d.live = c.live /\ d.outcome = c.outcome /\ d.good = c.good /\ d.qty = c.qty
      /\ d.pending = s /\ d.claimed = k /\ d.give = g
  BY <1>1
<1> QED
  BY <1>2 DEF SheetValues, pendings, Prepared

LEMMA PreparedStage ==
    ASSUME NEW c \in SheetValues, NEW s
    PROVE  Prepared(c, s, c.claimed, c.give) = [c EXCEPT !.pending = s]
  BY DEF SheetValues, Prepared

LEMMA PendingCore ==
    ASSUME CoreInv,
           \/ OpenOrderStage \/ AssignOrder \/ Assign
           \/ CancelPending \/ CancelOrderPending \/ Unclaim \/ UnclaimOrder
    PROVE  CoreInv' /\ order'.work = order.work
<1>1. CoreOf(order) /\ order \in Orders
  BY DEF CoreInv, CoreOf
<1>2. /\ Tickets \subseteq Holders /\ Parent \in Holders /\ Parent \notin Tickets
      /\ Live(order) \subseteq Tickets
  BY LiveAreTickets
<1>3. /\ Opens \subseteq Stages \cup {0} /\ SELF_TAKE_STAGES \subseteq Stages
      /\ 1..OrderQty \subseteq Amount
  BY FlowAssumption, SizeAssumption, StageNumbers DEF Amount
<1>4. \A h \in Holders : order.sheet[h] \in SheetValues /\ order.sheet[h].give \in Amount
                         /\ order.sheet[h].pending \in Stages \cup {0}
                         /\ order.sheet[h].claimed \in BOOLEAN
  BY <1>1, SheetParts
<1>6. CASE OpenOrderStage
  <2>1. PICK s \in Opens : Mutate([order EXCEPT !.sheet[Parent].pending = s]) /\ Live(order) = {}
    BY <1>6 DEF OpenOrderStage
  <2> DEFINE c == order.sheet[Parent]
             card == Prepared(c, s, c.claimed, c.give)
             p == [order EXCEPT !.sheet[Parent] = card]
  <2>2. card = [c EXCEPT !.pending = s]
    BY <1>2, <1>4 DEF SheetValues, Prepared
  <2>3. /\ card \in SheetValues /\ card.live = c.live /\ card.outcome = c.outcome
        /\ card.good = c.good
    <3>1. c \in SheetValues /\ s \in Stages \cup {0} /\ c.claimed \in BOOLEAN /\ c.give \in Amount
      BY <1>2, <1>3, <1>4
    <3> HIDE DEF c
    <3> QED
      BY <3>1, PreparedShape
  <2> HIDE DEF card
  <2>4. CoreOf(p) /\ p.work = order.work
    BY <1>1, <1>2, <2>1, <2>3, PendingShape
  <2>5. Mutate(p)
    BY <2>1, <2>2
  <2> HIDE DEF p
  <2> QED
    BY <2>4, <2>5, SameMutateCore
<1>7. CASE AssignOrder
  <2>1. PICK s \in Opens, n \in 1..OrderQty :
          /\ Mutate([order EXCEPT !.sheet[Parent].pending = s, !.sheet[Parent].claimed = TRUE,
                                  !.sheet[Parent].give = n])
          /\ Live(order) = {}
    BY Zenon, <1>7 DEF AssignOrder
  <2> DEFINE c == order.sheet[Parent]
             card == Prepared(c, s, TRUE, n)
             p == [order EXCEPT !.sheet[Parent] = card]
  <2>2. [order EXCEPT !.sheet[Parent].pending = s, !.sheet[Parent].claimed = TRUE,
                      !.sheet[Parent].give = n] = p
    BY <1>1, <1>2, OrderParts DEF Orders, Prepared
  <2>3. /\ card \in SheetValues /\ card.live = c.live /\ card.outcome = c.outcome
        /\ card.good = c.good
    <3>1. c \in SheetValues /\ s \in Stages \cup {0} /\ n \in Amount
      BY <1>2, <1>3, <1>4
    <3> HIDE DEF c
    <3>2. PICK k \in BOOLEAN : k = TRUE
      OBVIOUS
    <3>3. card = Prepared(c, s, k, n)
      BY <3>2
    <3> HIDE DEF card
    <3> QED
      BY <3>1, <3>3, PreparedShape
  <2>4. Mutate(p)
    BY <2>1, <2>2
  <2> HIDE DEF card
  <2>5. CoreOf(p) /\ p.work = order.work
    BY <1>1, <1>2, <2>1, <2>3, PendingShape
  <2> HIDE DEF p
  <2> QED
    BY <2>4, <2>5, SameMutateCore
<1>8. CASE Assign
  <2>1. PICK t \in Live(order), s \in Opens :
          MutateTicket([order EXCEPT !.sheet[t].pending = s, !.sheet[t].claimed = TRUE])
    BY Zenon, <1>8 DEF Assign
  <2> DEFINE c == order.sheet[t]
             card == Prepared(c, s, TRUE, c.give)
             p == [order EXCEPT !.sheet[t] = card]
  <2>2. card = [c EXCEPT !.pending = s, !.claimed = TRUE]
    BY <1>2, <1>4 DEF SheetValues, Prepared
  <2>3. [order EXCEPT !.sheet[t].pending = s, !.sheet[t].claimed = TRUE]
            = [order EXCEPT !.sheet[t] = [c EXCEPT !.pending = s, !.claimed = TRUE]]
    BY <1>1, <1>2, OrderParts DEF Orders
  <2>4. /\ card \in SheetValues /\ card.live = c.live /\ card.outcome = c.outcome
        /\ card.good = c.good
    <3>1. c \in SheetValues /\ s \in Stages \cup {0} /\ c.give \in Amount
      BY <1>2, <1>3, <1>4
    <3> HIDE DEF c
    <3>2. PICK k \in BOOLEAN : k = TRUE
      OBVIOUS
    <3>3. card = Prepared(c, s, k, c.give)
      BY <3>2
    <3> HIDE DEF card
    <3> QED
      BY <3>1, <3>3, PreparedShape
  <2>5. MutateTicket(p)
    BY <2>1, <2>2, <2>3
  <2> HIDE DEF card
  <2>6. CoreOf(p) /\ p.work = order.work
    BY <1>1, <1>2, <2>4, PendingShape
  <2> HIDE DEF p
  <2> QED
    BY <2>5, <2>6, TicketCore
<1>9. CASE CancelPending \/ Unclaim
  <2>1. PICK t \in Live(order), d \in BOOLEAN :
          MutateTicket([order EXCEPT !.sheet[t] =
              IF d THEN ClearPending(order.sheet[t]) ELSE [order.sheet[t] EXCEPT !.claimed = FALSE]])
    <3>1. CASE CancelPending
      BY <3>1 DEF CancelPending
    <3>2. CASE Unclaim
      BY <3>2 DEF Unclaim
    <3> QED
      BY <1>9, <3>1, <3>2
  <2> DEFINE c == order.sheet[t]
             free == Prepared(c, c.pending, FALSE, c.give)
             card == IF d THEN ClearPending(c) ELSE [c EXCEPT !.claimed = FALSE]
             p == [order EXCEPT !.sheet[t] = card]
  <2>2. free = [c EXCEPT !.claimed = FALSE]
    BY <1>2, <1>4 DEF SheetValues, Prepared
  <2>3. /\ free \in SheetValues /\ free.live = c.live /\ free.outcome = c.outcome
        /\ free.good = c.good
    <3>1. c \in SheetValues /\ c.pending \in Stages \cup {0} /\ c.give \in Amount
      BY <1>2, <1>4
    <3> HIDE DEF c
    <3>2. PICK k \in BOOLEAN : k = FALSE
      OBVIOUS
    <3>3. free = Prepared(c, c.pending, k, c.give)
      BY <3>2
    <3> HIDE DEF free
    <3> QED
      BY <3>1, <3>3, PreparedShape
  <2>4. /\ ClearPending(c) \in SheetValues /\ ClearPending(c).live = c.live
        /\ ClearPending(c).outcome = c.outcome /\ ClearPending(c).good = c.good
    BY <1>2, <1>4, ClearedShape
  <2>5. card = ClearPending(c) \/ card = free
    BY <2>2
  <2>6. MutateTicket(p)
    BY <2>1
  <2> HIDE DEF card, free
  <2>7. /\ card \in SheetValues /\ card.live = c.live /\ card.outcome = c.outcome
        /\ card.good = c.good
    BY <2>3, <2>4, <2>5
  <2>8. CoreOf(p) /\ p.work = order.work
    BY <1>1, <1>2, <2>7, PendingShape
  <2> HIDE DEF p
  <2> QED
    BY <2>6, <2>8, TicketCore
<1>10. CASE CancelOrderPending \/ UnclaimOrder
  <2> DEFINE c == order.sheet[Parent]
             card == ClearPending(c)
             p == [order EXCEPT !.sheet[Parent] = card]
  <2>1. Mutate(p)
    BY <1>10 DEF CancelOrderPending, UnclaimOrder
  <2>2. /\ card \in SheetValues /\ card.live = c.live /\ card.outcome = c.outcome
        /\ card.good = c.good /\ card.pending = 0
    BY <1>2, <1>4, ClearedShape
  <2> HIDE DEF card
  <2>3. CoreOf(p) /\ p.work = order.work
    BY <1>1, <1>2, <2>2, PendingShape
  <2> HIDE DEF p
  <2> QED
    BY <2>1, <2>3, SameMutateCore
<1> QED
  BY <1>6, <1>7, <1>8, <1>9, <1>10

-----------------------------------------------------------------------------
(* A ticket is closed, and the receipt and the status follow.               *)
LEMMA SyncedCore ==
    ASSUME NEW o \in Orders, Whole(o), Sane(o.work)
    PROVE  CoreOf(SyncOrder(o)) /\ SyncOrder(o).work = o.work
<1> DEFINE p == SyncOrder(o)
<1>1. /\ p \in Orders /\ p.sheet = o.sheet /\ p.work = o.work /\ p.skip = o.skip /\ SumReceipt(p)
  BY SyncShape
<1> HIDE DEF p
<1>2. Whole(p)
  BY <1>1 DEF Whole, Live
<1> QED
  BY <1>1, <1>2 DEF CoreOf, p

LEMMA ClosedCore ==
    ASSUME NEW o \in Orders, Whole(o), Sane(o.work), NEW t \in Live(o),
           NEW end \in {"FINISH", "DEFECT"}, end = "FINISH" => o.work[t] # <<>>
    PROVE  LET p == Close(o, t, end)
           IN  p \in Orders /\ Whole(p) /\ Sane(p.work) /\ p.work = o.work /\ Live(p) = Live(o)
<1> DEFINE p == Close(o, t, end)
<1>1. t \in Holders /\ t \in Tickets /\ t # Parent /\ Parent \in Holders /\ Tickets \subseteq Holders
  BY LiveAreTickets
<1> HIDE DEF p
<1>2. /\ p \in Orders /\ p.work = o.work
      /\ p.sheet[t].live = o.sheet[t].live /\ p.sheet[t].outcome = end
      /\ \A g \in Holders : g # t => p.sheet[g] = o.sheet[g]
  <2>1. p = Close(o, t, end) /\ end \in Outcomes
    BY DEF p, Outcomes
  <2> QED
    BY <1>1, <2>1, CloseShape
<1>3. Live(p) = Live(o)
  BY <1>1, <1>2 DEF Live
<1>4. Whole(p)
  <2>1. \A u \in Tickets : ~p.sheet[u].live => p.work[u] = <<>>
    BY <1>1, <1>2 DEF Whole
  <2>2. Live(p) # {} => p.work[Parent] = <<>> /\ p.sheet[Parent].pending = 0
    BY <1>1, <1>2, <1>3 DEF Whole
  <2>3. \A u \in Tickets : p.sheet[u].outcome = "FINISH" => p.work[u] # <<>>
    BY <1>1, <1>2 DEF Whole
  <2> QED
    BY <2>1, <2>2, <2>3 DEF Whole
<1> QED
  BY <1>2, <1>3, <1>4 DEF p

LEMMA OutcomeCore ==
    ASSUME CoreInv, SetOutcome \/ ClearOutcome \/ SetStoneSkipped \/ StockReceipt
    PROVE  CoreInv' /\ order'.work = order.work
<1>1. CoreOf(order) /\ order \in Orders /\ Whole(order) /\ Sane(order.work) /\ SumReceipt(order)
  BY DEF CoreInv, CoreOf
<1>2. /\ Tickets \subseteq Holders /\ Parent \in Holders /\ Parent \notin Tickets
      /\ Live(order) \subseteq Tickets
  BY LiveAreTickets
<1>3. CASE SetOutcome
  <2>1. PICK t \in Live(order), end \in {"FINISH", "DEFECT"} :
          /\ end = "FINISH" => LastStageDone(order.work[t])
          /\ Mutate(SyncOrder(Close(order, t, end)))
    BY <1>3 DEF SetOutcome
  <2>2. end = "FINISH" => order.work[t] # <<>>
    BY <2>1, StageNumbers DEF LastStageDone, LastStage
  <2> DEFINE o == Close(order, t, end)
             p == SyncOrder(o)
  <2>3. o \in Orders /\ Whole(o) /\ Sane(o.work) /\ o.work = order.work
    BY <1>1, <2>2, ClosedCore
  <2> HIDE DEF o
  <2>4. CoreOf(p) /\ p.work = o.work
    BY <2>3, SyncedCore
  <2>5. Mutate(p)
    BY <2>1 DEF o
  <2> HIDE DEF p
  <2> QED
    BY <2>3, <2>4, <2>5, SameMutateCore
<1>4. CASE ClearOutcome
  <2>1. PICK t \in Live(order) :
          Mutate(SyncOrder([order EXCEPT !.sheet[t].outcome = "NONE", !.sheet[t].good = 0]))
    BY Zenon, <1>4 DEF ClearOutcome, Ended
  <2> DEFINE c == order.sheet[t]
             card == [c EXCEPT !.outcome = "NONE", !.good = 0]
             o == [order EXCEPT !.sheet[t] = card]
             p == SyncOrder(o)
  <2>2. c \in SheetValues /\ t \in Holders /\ t \in Tickets
    BY <1>1, <1>2, SheetParts
  <2>3. [order EXCEPT !.sheet[t].outcome = "NONE", !.sheet[t].good = 0] = o
    BY <1>1, <2>2, OrderParts DEF Orders
  <2>4. /\ card \in SheetValues /\ card.live = c.live /\ card.outcome = "NONE"
        /\ card.pending = c.pending
    <3>1. 0 \in Amount /\ "NONE" \in Outcomes
      BY AmountIsNat DEF Outcomes
    <3> HIDE DEF c
    <3> QED
      BY <2>2, <3>1 DEF SheetValues
  <2>5. Mutate(p)
    BY <2>1, <2>3
  <2> HIDE DEF card
  <2>6. /\ o \in Orders /\ o.work = order.work
        /\ o.sheet[t] = card /\ \A g \in Holders : g # t => o.sheet[g] = order.sheet[g]
    BY <1>1, <2>2, <2>4, OneSheetShape
  <2> HIDE DEF o
  <2>7. Live(o) = Live(order)
    BY <1>2, <2>2, <2>4, <2>6 DEF Live
  <2>8. Whole(o)
    BY <1>1, <1>2, <2>4, <2>6, <2>7 DEF Whole
  <2>9. CoreOf(p) /\ p.work = o.work
    BY <1>1, <2>6, <2>8, SyncedCore
  <2> HIDE DEF p
  <2> QED
    BY <2>5, <2>6, <2>9, SameMutateCore
<1>5. CASE SetStoneSkipped
  <2> DEFINE skip == ~order.skip
             o == [order EXCEPT !.skip = skip]
             p == [o EXCEPT !.status = DeriveStatus(o)]
  <2>1. Mutate(p)
    BY <1>5 DEF SetStoneSkipped
  <2>2. skip \in BOOLEAN
    OBVIOUS
  <2> HIDE DEF skip
  <2>3. /\ o \in Orders /\ o.sheet = order.sheet /\ o.work = order.work
        /\ o.receipt = order.receipt /\ o.status = order.status
    BY <1>1, <2>2 DEF Orders
  <2> HIDE DEF o
  <2>4. Live(o) = Live(order) /\ FinishedQty(o) = FinishedQty(order)
    BY <2>3 DEF FinishedQty, Ended, Live
  <2>5. SumReceipt(o)
    BY <1>1, <2>3, <2>4 DEF SumReceipt
  <2>6. p \in Orders /\ p.sheet = o.sheet /\ p.work = o.work /\ SumReceipt(p)
    BY <2>3, <2>5, DeriveShape
  <2> HIDE DEF p
  <2>7. Whole(p)
    BY <1>1, <2>3, <2>6 DEF Whole, Live
  <2>8. CoreOf(p) /\ p.work = order.work
    BY <1>1, <2>3, <2>6, <2>7 DEF CoreOf
  <2> QED
    BY <2>1, <2>8, SameMutateCore
<1>6. CASE StockReceipt
  <2>1. PICK n \in order.receipt.stocked + 1..order.receipt.qty :
          LET receipt == [order.receipt EXCEPT !.stocked = n]
          IN  Mutate([order EXCEPT !.receipt = receipt,
                         !.status = IF @ \in FINISHED_STATUSES THEN FinishedStatus(receipt) ELSE @])
    BY Zenon, <1>6 DEF StockReceipt
  <2> DEFINE r == [order.receipt EXCEPT !.stocked = n]
             x == IF order.status \in FINISHED_STATUSES THEN FinishedStatus(r) ELSE order.status
             p == [order EXCEPT !.receipt = r, !.status = x]
  <2>2. order.receipt \in Receipts /\ order.receipt.qty \in Nat /\ order.receipt.stocked \in Nat
    BY <1>1, OrderParts DEF Receipts
  <2>3. n \in Nat /\ n <= order.receipt.qty /\ n > 0
    BY <2>2
  <2>4. r \in Receipts /\ r.qty = order.receipt.qty /\ r.stocked = n
    BY <2>2, <2>3 DEF Receipts
  <2>5. Mutate(p)
    BY <2>1
  <2> HIDE DEF r
  <2>6. /\ x \in NEW_ORDER..FINISHING
        /\ x \in FINISHED_STATUSES => order.status \in FINISHED_STATUSES /\ x = FinishedStatus(r)
    <3>1. order.status \in NEW_ORDER..FINISHING /\ FINISHED_STATUSES \subseteq NEW_ORDER..FINISHING
      BY <1>1, OrderParts, StatusNumbers
    <3>2. FinishedStatus(r) \in FINISHED_STATUSES
      BY FinishedStatusType
    <3> QED
      BY <3>1, <3>2
  <2> HIDE DEF x
  <2>7. /\ p \in Orders /\ p.receipt = r /\ p.status = x
        /\ p.sheet = order.sheet /\ p.work = order.work /\ p.skip = order.skip
    BY <1>1, <2>4, <2>6 DEF Orders
  <2> HIDE DEF p
  <2>8. Live(p) = Live(order) /\ FinishedQty(p) = FinishedQty(order)
    BY <2>7 DEF FinishedQty, Ended, Live
  <2>9. SumReceipt(p)
    BY <1>1, <2>3, <2>4, <2>6, <2>7, <2>8 DEF SumReceipt
  <2>10. Whole(p)
    BY <1>1, <2>7, <2>8 DEF Whole
  <2>11. CoreOf(p)
    BY <1>1, <2>7, <2>9, <2>10 DEF CoreOf
  <2> QED
    BY <2>5, <2>7, <2>11, SameMutateCore
<1> QED
  BY <1>3, <1>4, <1>5, <1>6

-----------------------------------------------------------------------------
(* Reports, and orders that make up for defects, rewrite one entry.         *)
LEMMA FirstOpenEntry ==
    ASSUME NEW o \in Orders, NEW h \in Holders, OpenAt(o, h) # {}
    PROVE  LET i == Min(OpenAt(o, h))
           IN  i \in DOMAIN o.work[h] /\ o.work[h][i].returned = NotYet /\ i \in OpenAt(o, h)
<1>1. OpenAt(o, h) \in SUBSET Nat
  BY BusyEntries
<1>2. Min(OpenAt(o, h)) \in OpenAt(o, h)
  BY <1>1, MinIsMember
<1> QED
  BY <1>2 DEF OpenAt

LEMMA ReportCore ==
    ASSUME FlowInv, CoreInv,
           \/ Submit \/ SubmitOrder \/ ReportStageDefect
           \/ Unsubmit \/ UnsubmitOrder \/ ClearStageDefect \/ CreateRework
    PROVE  CoreInv' /\ NothingConfirmed(order.work, order'.work)
<1>1. CoreOf(order) /\ order \in Orders /\ Sane(order.work)
  BY DEF CoreInv, CoreOf
<1>2. /\ Live(order) \subseteq Holders /\ Parent \in Holders /\ Sheets \subseteq Holders
  BY LiveAreTickets DEF Sheets
<1>3. CASE CreateRework
  <2>1. PICK h \in Holders : \E j \in DOMAIN order.work[h] :
          Mutate([order EXCEPT !.work[h][j].rework = TRUE])
    BY <1>3 DEF CreateRework
  <2>2. PICK i \in DOMAIN order.work[h] : Mutate([order EXCEPT !.work[h][i].rework = TRUE])
    BY <2>1
  <2> DEFINE old == order.work[h][i]
             e == [old EXCEPT !.rework = TRUE]
             p == [order EXCEPT !.work[h][i] = e]
  <2>3. old \in EntryValues
    BY <1>1, EntryParts
  <2>4. /\ e \in EntryValues /\ e.stage = old.stage /\ e.returned = old.returned
        /\ e.confirmed = old.confirmed
    <3> HIDE DEF old
    <3> QED
      BY <2>3 DEF EntryValues
  <2>5. Mutate(p)
    BY <2>2
  <2> HIDE DEF e
  <2>6. e.returned # NotYet => /\ e.stage \notin KEEPER_CONFIRM_STAGES => e.confirmed
                               /\ e.stage \notin DEFECT_REPORT_STAGES => e.returned > 0
    BY <1>1, <2>4 DEF Sane
  <2>7. /\ CoreOf(p) /\ Grows(order.work, p.work)
        /\ NothingConfirmed(order.work, p.work)
    BY <1>1, <2>4, <2>6, EntryCore
  <2> HIDE DEF p
  <2> QED
    BY <2>5, <2>7, MutateCore DEF Mutate
<1>4. CASE ~CreateRework
  <2>1. \E g \in Holders : ReportDone(g) \/ TakeBackDone(g)
    BY <1>2, <1>4 DEF Submit, SubmitOrder, ReportStageDefect, Unsubmit, UnsubmitOrder, ClearStageDefect
  <2>2. PICK h \in Holders : ReportDone(h) \/ TakeBackDone(h)
    BY <2>1
  <2> DEFINE i == FirstOpen(h)
             old == order.work[h][i]
  <2>3. PICK d \in BOOLEAN : Mutate([order EXCEPT !.work[h][i].done = d])
    BY <2>2 DEF ReportDone, TakeBackDone
  <2>4. OpenAt(order, h) # {}
    BY <2>2 DEF ReportDone, TakeBackDone
  <2>5. i \in DOMAIN order.work[h] /\ old.returned = NotYet
    BY <1>1, <2>4, FirstOpenEntry DEF FirstOpen
  <2> DEFINE e == [old EXCEPT !.done = d]
             p == [order EXCEPT !.work[h][i] = e]
  <2>6. old \in EntryValues
    BY <1>1, <2>5, EntryParts
  <2>7. /\ e \in EntryValues /\ e.stage = old.stage /\ e.returned = NotYet
        /\ e.confirmed = old.confirmed
    <3> HIDE DEF old
    <3> QED
      BY <2>5, <2>6 DEF EntryValues
  <2>8. old.stage \in KEEPER_CONFIRM_STAGES => ~old.confirmed
    BY <2>5 DEF FlowInv, CameBack
  <2>9. Mutate(p)
    BY <2>3
  <2> HIDE DEF e
  <2> HIDE DEF i
  <2>10. /\ CoreOf(p) /\ Grows(order.work, p.work)
        /\ NothingConfirmed(order.work, p.work)
    BY <1>1, <2>5, <2>7, <2>8, EntryCore
  <2> HIDE DEF p
  <2> QED
    BY <2>9, <2>10, MutateCore DEF Mutate
<1> QED
  BY <1>3, <1>4

-----------------------------------------------------------------------------
(* A stage begins.                                                          *)
LEMMA EntryShape ==
    ASSUME NEW s \in Stages, NEW n \in Amount
    PROVE  /\ Entry(s, n) \in EntryValues /\ Entry(s, n).stage = s /\ Entry(s, n).handed = n
           /\ Entry(s, n).returned = NotYet /\ ~Entry(s, n).confirmed /\ ~Entry(s, n).done
<1>1. 0 \in Amount
  BY AmountIsNat
<1> QED
  BY <1>1 DEF Entry, EntryValues

(* The order with one entry more on a sheet.                                *)
Begun(o, h, card, e, x) ==
    [o EXCEPT !.sheet[h] = card, !.work[h] = Append(@, e), !.status = x]

LEMMA BegunShape ==
    ASSUME NEW o \in Orders, NEW h \in Holders, NEW e \in EntryValues, NEW card \in SheetValues,
           NEW x \in NEW_ORDER..FINISHING
    PROVE  LET p == Begun(o, h, card, e, x)
           IN  /\ p \in Orders
               /\ p.skip = o.skip /\ p.receipt = o.receipt /\ p.status = x
               /\ p.sheet[h] = card /\ p.work[h] = Append(o.work[h], e)
               /\ \A g \in Holders : g # h => p.sheet[g] = o.sheet[g] /\ p.work[g] = o.work[g]
<1> DEFINE s == Append(o.work[h], e)
           f == [o.sheet EXCEPT ![h] = card]
           w == [o.work EXCEPT ![h] = s]
           p == [o EXCEPT !.sheet[h] = card, !.work[h] = s, !.status = x]
           q == [o EXCEPT !.sheet = f, !.work = w, !.status = x]
<1>1. /\ o.sheet \in [Holders -> SheetValues] /\ o.work \in [Holders -> Seq(EntryValues)]
      /\ o.work[h] \in Seq(EntryValues)
  BY OrderParts
<1>2. s \in Seq(EntryValues)
  BY <1>1
<1>3. p = q
  BY DEF Orders
<1> HIDE DEF s
<1>4. /\ f \in [Holders -> SheetValues] /\ f[h] = card /\ \A g \in Holders : g # h => f[g] = o.sheet[g]
      /\ w \in [Holders -> Seq(EntryValues)] /\ w[h] = s
      /\ \A g \in Holders : g # h => w[g] = o.work[g]
  BY <1>1, <1>2
<1> HIDE DEF f, w
<1>5. /\ q \in Orders /\ q.skip = o.skip /\ q.receipt = o.receipt /\ q.status = x
      /\ q.sheet = f /\ q.work = w
  BY <1>4 DEF Orders
<1> HIDE DEF p, q
<1>6. /\ p \in Orders
      /\ p.skip = o.skip /\ p.receipt = o.receipt /\ p.status = x
      /\ p.sheet[h] = card /\ p.work[h] = s
      /\ \A g \in Holders : g # h => p.sheet[g] = o.sheet[g] /\ p.work[g] = o.work[g]
  BY <1>3, <1>4, <1>5
<1> QED
  BY <1>6 DEF p, s, Begun

LEMMA BeginCore ==
    ASSUME CoreInv, NEW h \in Holders, NEW s \in Stages, NEW n \in Amount, Begin(h, s, n),
           h \in Live(order) \/ (h = Parent /\ Live(order) = {})
    PROVE  CoreInv' /\ NothingConfirmed(order.work, order'.work)
<1> DEFINE e == Entry(s, n)
           c == ClearPending(order.sheet[h])
           o == [order EXCEPT !.sheet[h] = c, !.work[h] = Append(order.work[h], e)]
           x == IF h = Parent THEN At(s) ELSE DeriveStatus([o EXCEPT !.status = At(FILING)])
           p == Begun(order, h, c, e, x)
<1>1. CoreOf(order) /\ order \in Orders /\ Whole(order) /\ Sane(order.work) /\ SumReceipt(order)
  BY DEF CoreInv, CoreOf
<1>2. Mutate(p)
  BY DEF Begin, Begun
<1>3. /\ c \in SheetValues /\ c.pending = 0 /\ c.live = order.sheet[h].live
      /\ c.outcome = order.sheet[h].outcome /\ c.good = order.sheet[h].good
  BY <1>1, SheetParts, ClearedShape
<1>4. e \in EntryValues /\ e.returned = NotYet /\ ~e.confirmed
  BY EntryShape
<1> HIDE DEF c, e
<1>5. x \in IN_STAGE_STATUSES
  <2>1. CASE h = Parent
    BY <2>1, StageNumbers, StatusNumbers
  <2>2. CASE h # Parent
    <3> DEFINE first == At(FILING)
               q == Begun(order, h, c, e, first)
    <3>1. first \in NEW_ORDER..FINISHING /\ first \in IN_STAGE_STATUSES
      BY StageNumbers, StatusNumbers
    <3> HIDE DEF first
    <3>2. q \in Orders /\ q.status = first
      BY <1>1, <1>3, <1>4, <3>1, BegunShape
    <3>3. x = DeriveStatus(q)
      BY <2>2 DEF first, Begun
    <3> HIDE DEF q
    <3> QED
      BY <3>1, <3>2, <3>3, DeriveStatusType
  <2> QED
    BY <2>1, <2>2
<1>6. x \in NEW_ORDER..FINISHING /\ x \notin FINISHED_STATUSES
  BY <1>5, StatusNumbers
<1> HIDE DEF x
<1>7. /\ p \in Orders
      /\ p.skip = order.skip /\ p.receipt = order.receipt /\ p.status = x
      /\ p.sheet[h] = c /\ p.work[h] = Append(order.work[h], e)
      /\ \A g \in Holders : g # h => p.sheet[g] = order.sheet[g] /\ p.work[g] = order.work[g]
  BY <1>1, <1>3, <1>4, <1>6, BegunShape
<1> HIDE DEF p
<1>8. Live(p) = Live(order)
  BY <1>3, <1>7, LiveAreTickets DEF Live
<1>9. SumReceipt(p)
  BY <1>1, <1>3, <1>6, <1>7, <1>8, LiveAreTickets, ReceiptFrame
<1>10. /\ order.work[h] \in Seq(EntryValues) /\ p.work[h] # <<>>
       /\ DOMAIN order.work[h] \subseteq DOMAIN p.work[h]
       /\ \A i \in DOMAIN order.work[h] : p.work[h][i] = order.work[h][i]
       /\ \A i \in DOMAIN p.work[h] : i \in DOMAIN order.work[h] \/ p.work[h][i] = e
  <2>1. order.work[h] \in Seq(EntryValues)
    BY <1>1, SheetParts
  <2> QED
    BY <1>4, <1>7, <2>1
<1>11. Whole(p)
  <2>1. \A t \in Tickets : ~p.sheet[t].live => p.work[t] = <<>>
    BY Zenon, <1>1, <1>3, <1>7, LiveAreTickets DEF Whole, Live
  <2>2. Live(p) # {} => p.work[Parent] = <<>> /\ p.sheet[Parent].pending = 0
    BY <1>1, <1>7, <1>8, LiveAreTickets DEF Whole
  <2>3. \A t \in Tickets : p.sheet[t].outcome = "FINISH" => p.work[t] # <<>>
    BY <1>1, <1>3, <1>7, <1>10, LiveAreTickets DEF Whole
  <2> QED
    BY <2>1, <2>2, <2>3 DEF Whole
<1>12. Sane(p.work)
  <2>1. ASSUME NEW g \in Holders, NEW i \in DOMAIN p.work[g], p.work[g][i].returned # NotYet
        PROVE  i \in DOMAIN order.work[g] /\ p.work[g][i] = order.work[g][i]
    BY <1>4, <1>7, <1>10, <2>1
  <2> QED
    BY <1>1, <2>1 DEF Sane
<1>13. Grows(order.work, p.work)
  BY <1>7, <1>10 DEF Grows
<1>14. NothingConfirmed(order.work, p.work)
  <2>1. ASSUME NEW g \in Holders, NEW i \in DOMAIN p.work[g], p.work[g][i].confirmed
        PROVE  i \in DOMAIN order.work[g] /\ p.work[g][i] = order.work[g][i]
    BY <1>4, <1>7, <1>10, <2>1
  <2> QED
    BY <2>1 DEF NothingConfirmed
<1>15. CoreOf(p)
  BY <1>7, <1>9, <1>11, <1>12 DEF CoreOf
<1> QED
  BY <1>2, <1>13, <1>14, <1>15, MutateCore DEF Mutate

(* Who begins a stage, with what.                                           *)
LEMMA WhoBegins ==
    ASSUME CoreInv, Accept \/ AcceptOrder \/ Take \/ TakeOrder
    PROVE  \E h \in Holders, s \in Stages, n \in Amount :
               /\ Begin(h, s, n)
               /\ s = order.sheet[h].pending
               /\ h \in Live(order) \/ (h = Parent /\ Live(order) = {})
               /\ StateOf(order, h) \in {"CLAIMED", "WAITING"}
               /\ s # FILING => n <= Available(order, h)
               /\ Active(order)
<1>1. order \in Orders
  BY DEF CoreInv
<1>2. /\ Live(order) \subseteq Holders /\ Parent \in Holders
  BY LiveAreTickets
<1>3. \A h \in Holders : /\ order.sheet[h].pending \in Stages \cup {0}
                         /\ order.sheet[h].qty \in Amount /\ order.sheet[h].give \in Amount
                         /\ Available(order, h) \in Amount /\ Available(order, h) \in Nat
  BY <1>1, SheetParts, AvailableType, AmountIsNat
<1>4. \A h \in Holders : StateOf(order, h) \in {"CLAIMED", "WAITING"} => order.sheet[h].pending \in Stages
  <2> SUFFICES ASSUME NEW h \in Holders, StateOf(order, h) \in {"CLAIMED", "WAITING"}
               PROVE  order.sheet[h].pending # 0
    BY <1>3
  <2>1. OutcomeOf(order, h) \in Outcomes
    BY <1>1, SheetParts DEF OutcomeOf, Outcomes
  <2> QED
    BY <2>1 DEF StateOf, Outcomes
<1>5. CASE Accept
  <2>1. PICK t \in Live(order) :
          /\ Active(order) /\ StateOf(order, t) = "CLAIMED"
          /\ Begin(t, order.sheet[t].pending,
                   IF order.sheet[t].pending = FILING THEN order.sheet[t].qty ELSE Available(order, t))
    BY <1>5 DEF Accept
  <2> DEFINE s == order.sheet[t].pending
             n == IF s = FILING THEN order.sheet[t].qty ELSE Available(order, t)
  <2>2. s \in Stages /\ t \in Holders
    BY <1>2, <1>4, <2>1
  <2>3. n \in Amount /\ (s # FILING => n <= Available(order, t))
    BY <1>3, <2>2
  <2>4. Begin(t, s, n)
    BY <2>1
  <2> HIDE DEF n
  <2> QED
    BY <2>1, <2>2, <2>3, <2>4
<1>6. CASE AcceptOrder
  <2> DEFINE s == order.sheet[Parent].pending
             n == order.sheet[Parent].give
  <2>1. /\ Live(order) = {} /\ Active(order) /\ StateOf(order, Parent) = "CLAIMED"
        /\ n <= Available(order, Parent) /\ Begin(Parent, s, n)
    BY <1>6 DEF AcceptOrder
  <2>2. s \in Stages /\ n \in Amount
    BY <1>2, <1>3, <1>4, <2>1
  <2> QED
    BY <1>2, <2>1, <2>2
<1>7. CASE Take \/ TakeOrder
  <2>1. PICK h \in Holders :
          /\ h \in Live(order) \/ (h = Parent /\ Live(order) = {})
          /\ Takeable(h) /\ Begin(h, order.sheet[h].pending, Available(order, h))
    BY <1>2, <1>7 DEF Take, TakeOrder, Carried
  <2> DEFINE s == order.sheet[h].pending
             n == Available(order, h)
  <2>2. Active(order) /\ StateOf(order, h) = "WAITING"
    BY <2>1 DEF Takeable
  <2>3. s \in Stages /\ n \in Amount /\ n <= n
    BY <1>3, <1>4, <2>2
  <2> QED
    BY <2>1, <2>2, <2>3
<1> QED
  BY <1>5, <1>6, <1>7

LEMMA WorkersCore ==
    ASSUME CoreInv, Accept \/ AcceptOrder \/ Take \/ TakeOrder
    PROVE  CoreInv' /\ NothingConfirmed(order.work, order'.work)
  BY WhoBegins, BeginCore

-----------------------------------------------------------------------------
(* The keeper confirms.                                                     *)
LEMMA AfterCore ==
    ASSUME NEW o \in Orders, Whole(o), Sane(o.work), NEW closed \in BOOLEAN,
           SumReceipt(o) \/ (closed /\ Live(o) # {})
    PROVE  CoreOf(SyncOrderAfterStage(o, closed)) /\ SyncOrderAfterStage(o, closed).work = o.work
<1> DEFINE p == SyncOrderAfterStage(o, closed)
<1>1. p = SyncOrderAfterStage(o, closed)
  OBVIOUS
<1> HIDE DEF p
<1>2. /\ p \in Orders /\ p.sheet = o.sheet /\ p.work = o.work /\ SumReceipt(p)
  BY <1>1, SyncAfterShape
<1>3. Whole(p)
  BY <1>2 DEF Whole, Live
<1>4. CoreOf(p) /\ p.work = o.work
  BY <1>2, <1>3 DEF CoreOf
<1> QED
  BY <1>4 DEF p

(* Entry i of sheet h is now confirmed; nothing else of the entries changed. *)
Confirms(w, v, h, i) ==
    /\ \A g \in Holders : /\ Len(v[g]) = Len(w[g]) /\ DOMAIN v[g] = DOMAIN w[g]
                          /\ g # h => v[g] = w[g]
    /\ \A j \in DOMAIN w[h] : j # i => v[h][j] = w[h][j]
    /\ v[h][i].stage = w[h][i].stage /\ v[h][i].returned = w[h][i].returned
    /\ v[h][i].confirmed

LEMMA ConfirmCore ==
    ASSUME CoreInv, ConfirmStage
    PROVE  /\ CoreInv'
           /\ \E h \in Holders : \E i \in Unconfirmed(order, h) :
                /\ order.work[h][i].stage \in KEEPER_CONFIRM_STAGES
                /\ Confirms(order.work, order'.work, h, i)
                /\ btp' = [btp EXCEPT ![order.work[h][i].stage] = @ + order.work[h][i].returned]
                /\ blanks' = blanks
<1>1. CoreOf(order) /\ order \in Orders /\ Whole(order) /\ Sane(order.work)
  BY DEF CoreInv, CoreOf
<1>2. PICK h \in Sheets : \E i \in Unconfirmed(order, h) :
        LET e == order.work[h][i]
            o == [order EXCEPT !.work[h][i].confirmed = TRUE]
            nothing == e.returned = 0
        IN  /\ e.stage \in KEEPER_CONFIRM_STAGES
            /\ btp' = [btp EXCEPT ![StoreOf(e.stage)] = @ + e.returned] /\ UNCHANGED blanks
            /\ Mutate(SyncOrderAfterStage(
               IF ~nothing THEN o
               ELSE IF h # Parent THEN Close(o, h, "DEFECT")
               ELSE [o EXCEPT !.sheet[h] = ClearPending(o.sheet[h]), !.status = DefectOf(e.stage)],
               nothing))
  BY Zenon DEF ConfirmStage
<1>3. PICK i \in Unconfirmed(order, h) :
        LET e == order.work[h][i]
            o == [order EXCEPT !.work[h][i].confirmed = TRUE]
            nothing == e.returned = 0
        IN  /\ e.stage \in KEEPER_CONFIRM_STAGES
            /\ btp' = [btp EXCEPT ![StoreOf(e.stage)] = @ + e.returned] /\ UNCHANGED blanks
            /\ Mutate(SyncOrderAfterStage(
               IF ~nothing THEN o
               ELSE IF h # Parent THEN Close(o, h, "DEFECT")
               ELSE [o EXCEPT !.sheet[h] = ClearPending(o.sheet[h]), !.status = DefectOf(e.stage)],
               nothing))
  BY Zenon, <1>2
<1> DEFINE old == order.work[h][i]
           e == [old EXCEPT !.confirmed = TRUE]
           o == [order EXCEPT !.work[h][i] = e]
           card == ClearPending(o.sheet[h])
           kind == DefectOf(old.stage)
           closed == Close(o, h, "DEFECT")
           cleared == [o EXCEPT !.sheet[h] = card, !.status = kind]
           p == IF old.returned # 0 THEN o ELSE IF h # Parent THEN closed ELSE cleared
           q == SyncOrderAfterStage(p, old.returned = 0)
<1>4. /\ h \in Live(order) \/ (h = Parent /\ Live(order) = {})
      /\ i \in DOMAIN order.work[h] /\ old.returned # NotYet /\ ~old.confirmed
  BY LiveAreTickets DEF Sheets, Unconfirmed
<1>5. h \in Holders
  BY <1>4, LiveAreTickets
<1>6. old \in EntryValues
  BY <1>1, <1>4, <1>5, EntryParts
<1>7. /\ e \in EntryValues /\ e.stage = old.stage /\ e.returned = old.returned
      /\ e.confirmed
  <2> HIDE DEF old
  <2> QED
    BY <1>6 DEF EntryValues
<1>8. Mutate(q) /\ old.stage \in KEEPER_CONFIRM_STAGES
  BY <1>3
<1>9. btp' = [btp EXCEPT ![old.stage] = btp[old.stage] + old.returned] /\ blanks' = blanks
  BY <1>3 DEF StoreOf
<1> HIDE DEF e
<1>10. /\ o \in Orders /\ o.sheet = order.sheet /\ o.receipt = order.receipt /\ o.status = order.status
       /\ o.work[h][i] = e /\ Len(o.work[h]) = Len(order.work[h])
       /\ DOMAIN o.work[h] = DOMAIN order.work[h]
       /\ \A j \in DOMAIN order.work[h] : j # i => o.work[h][j] = order.work[h][j]
       /\ \A g \in Holders : g # h => o.work[g] = order.work[g]
  BY <1>1, <1>4, <1>5, <1>7, OneEntryShape
<1>11. CoreOf(o) /\ Grows(order.work, o.work)
  <2>1. e.returned # NotYet => /\ e.stage \notin KEEPER_CONFIRM_STAGES => e.confirmed
                               /\ e.stage \notin DEFECT_REPORT_STAGES => e.returned > 0
    BY <1>1, <1>4, <1>5, <1>7 DEF Sane
  <2> QED
    BY <1>1, <1>4, <1>5, <1>7, <2>1, EntryCore
<1>12. Live(o) = Live(order)
  BY <1>10 DEF Live
<1>13. Confirms(order.work, o.work, h, i)
  BY <1>4, <1>7, <1>10 DEF Confirms
<1> HIDE DEF o
<1>14. CASE old.returned # 0
  <2>1. p = o /\ (old.returned = 0) = FALSE
    BY <1>14
  <2> HIDE DEF p, old
  <2>2. CoreOf(q) /\ q.work = o.work
    BY <1>11, <2>1, AfterCore DEF CoreOf
  <2> HIDE DEF q
  <2>3. CoreInv' /\ order' = q
    BY <1>8, <1>11, <2>2, MutateCore DEF Mutate
  <2> QED
    BY <1>5, <1>8, <1>9, <1>13, <2>2, <2>3 DEF old
<1>15. CASE old.returned = 0 /\ h # Parent
  <2>1. p = closed /\ (old.returned = 0) = TRUE
    BY <1>15
  <2>2. h \in Live(o)
    BY <1>4, <1>12, <1>15
  <2>3. closed \in Orders /\ Whole(closed) /\ Sane(closed.work) /\ closed.work = o.work /\ Live(closed) = Live(o)
    BY <1>11, <2>2, ClosedCore DEF CoreOf
  <2> HIDE DEF p, old, closed
  <2>4. CoreOf(q) /\ q.work = o.work
    BY <2>1, <2>2, <2>3, AfterCore DEF CoreOf
  <2> HIDE DEF q
  <2>5. CoreInv' /\ order' = q
    BY <1>8, <1>11, <2>4, MutateCore DEF Mutate
  <2> QED
    BY <1>5, <1>8, <1>9, <1>13, <2>4, <2>5 DEF old
<1>16. CASE old.returned = 0 /\ h = Parent
  <2>1. p = cleared /\ (old.returned = 0) = TRUE
    BY <1>16
  <2>2. /\ card \in SheetValues /\ card.live = o.sheet[h].live /\ card.outcome = o.sheet[h].outcome
        /\ card.good = o.sheet[h].good /\ card.pending = 0
    BY <1>5, <1>10, ClearedShape, SheetParts
  <2>3. kind \in NEW_ORDER..FINISHING /\ kind \notin FINISHED_STATUSES
    BY DefectOfType, StatusNumbers
  <2> HIDE DEF card, kind
  <2> DEFINE r == [o EXCEPT !.sheet[h] = card]
             s == [r EXCEPT !.status = kind]
  <2>4. CoreOf(r) /\ r.work = o.work
    BY <1>5, <1>11, <2>2, PendingShape
  <2>5. cleared = s
    OBVIOUS
  <2> HIDE DEF r
  <2>6. /\ s \in Orders /\ s.status = kind
        /\ s.sheet = r.sheet /\ s.work = r.work /\ s.receipt = r.receipt
    BY <2>3, <2>4, StatusShape DEF CoreOf
  <2> HIDE DEF s, cleared, p
  <2>7. Live(s) = Live(r) /\ FinishedQty(s) = FinishedQty(r)
    BY <2>6 DEF FinishedQty, Ended, Live
  <2>8. Whole(s) /\ Sane(s.work) /\ SumReceipt(s)
    BY <2>3, <2>4, <2>6, <2>7 DEF CoreOf, Whole, SumReceipt
  <2> HIDE DEF old
  <2>9. CoreOf(q) /\ q.work = o.work
    BY <2>1, <2>4, <2>5, <2>6, <2>8, AfterCore
  <2> HIDE DEF q
  <2>10. CoreInv' /\ order' = q
    BY <1>8, <1>11, <2>9, MutateCore DEF Mutate
  <2> QED
    BY <1>5, <1>8, <1>9, <1>13, <2>9, <2>10 DEF old
<1> QED
  BY <1>14, <1>15, <1>16

-----------------------------------------------------------------------------
(* The requests of the office and of quality control.                       *)
LEMMA AskedCore ==
    ASSUME CoreInv, NEW c \in Clients,
           ReturnAsk(c) \/ UndoAsk(c) \/ FinishAsk(c) \/ UndoFinishAsk(c) \/ ChangeStatusAsk(c)
    PROVE  CoreInv' /\ order'.work = order.work
<1>1. order \in Orders /\ Parent \in Holders
  BY LiveAreTickets DEF CoreInv
<1>2. SUFFICES ASSUME NEW r, Ask(c, r), Brings(r, order)
               PROVE  CoreInv' /\ order'.work = order.work
  <2>1. \E r : Ask(c, r) /\ Brings(r, order)
    <3>1. CASE ReturnAsk(c)
      <4>1. PICK h \in Holders : \E j \in DOMAIN order.work[h] :
              LET e == order.work[h][j]
              IN  /\ e.returned = NotYet \/ (e.returned # NotYet /\ ~e.confirmed)
                  /\ \E p \in GoodAndDefect(e) :
                      Ask(c, [op |-> "return", h |-> h, i |-> j, good |-> p[1], defect |-> p[2],
                              revise |-> e.returned # NotYet, fresh |-> TRUE])
        BY <3>1 DEF ReturnAsk
      <4>2. PICK i \in DOMAIN order.work[h] :
              LET e == order.work[h][i]
              IN  /\ e.returned = NotYet \/ (e.returned # NotYet /\ ~e.confirmed)
                  /\ \E p \in GoodAndDefect(e) :
                      Ask(c, [op |-> "return", h |-> h, i |-> i, good |-> p[1], defect |-> p[2],
                              revise |-> e.returned # NotYet, fresh |-> TRUE])
        BY <4>1
      <4> DEFINE e == order.work[h][i]
      <4>3. PICK p \in GoodAndDefect(e) :
              Ask(c, [op |-> "return", h |-> h, i |-> i, good |-> p[1], defect |-> p[2],
                      revise |-> e.returned # NotYet, fresh |-> TRUE])
        BY <4>2
      <4>4. /\ p[1] \in Amount /\ p[2] \in Amount
            /\ p[1] > 0 \/ e.stage \in DEFECT_REPORT_STAGES
        BY DEF GoodAndDefect
      <4>5. i \in Nat
        BY <1>1, EntryParts
      <4>6. i \in Busy(order, h)
        BY <4>2 DEF Busy, OpenAt, Unconfirmed
      <4> DEFINE again == e.returned # NotYet
                 good == p[1]
                 defect == p[2]
                 r == [op |-> "return", h |-> h, i |-> i, good |-> good, defect |-> defect,
                       revise |-> again, fresh |-> TRUE]
      <4>7. again \in BOOLEAN
        OBVIOUS
      <4> HIDE DEF again
      <4>8. /\ r \in ReturnRequests /\ r.op = "return" /\ r.h = h /\ r.i = i /\ r.good = p[1]
        BY <4>4, <4>5, <4>7 DEF ReturnRequests
      <4>9. Ask(c, r)
        BY <4>3 DEF again
      <4> HIDE DEF r
      <4>10. Brings(r, order)
        BY <4>4, <4>6, <4>8 DEF Brings
      <4> QED
        BY <4>9, <4>10
    <3>2. CASE UndoAsk(c)
      <4>1. PICK h \in Holders, auto \in BOOLEAN :
              /\ Len(order.work[h]) > 0 /\ Corrections
              /\ order.work[h][Len(order.work[h])].stage \notin KEEPER_CONFIRM_STAGES
              /\ Ask(c, [op |-> "undo", h |-> h, i |-> Len(order.work[h]), auto |-> auto])
        BY <3>2 DEF UndoAsk
      <4> DEFINE i == Len(order.work[h])
                 r == [op |-> "undo", h |-> h, i |-> i, auto |-> auto]
      <4>2. order.work[h] \in Seq(EntryValues)
        BY <1>1, SheetParts
      <4>3. i \in Nat /\ i \in DOMAIN order.work[h]
        BY <4>1, <4>2
      <4>4. r \in UndoRequests /\ r.op = "undo" /\ r.h = h /\ r.i = i
        BY <4>3 DEF UndoRequests
      <4>5. Ask(c, r)
        BY <4>1
      <4> HIDE DEF r
      <4>6. Brings(r, order)
        BY <4>1, <4>3, <4>4 DEF Brings
      <4> QED
        BY <4>5, <4>6
    <3>3. CASE FinishAsk(c)
      <4> DEFINE n == Available(order, Parent)
                 r == [op |-> "finish", qty |-> n]
      <4>1. Ask(c, r) /\ n > 0 /\ LastStage(order.work[Parent]) = PLATING
        BY <3>3 DEF FinishAsk, LastStageDone
      <4>2. n \in Amount \ {0} /\ order.work[Parent] # <<>>
        BY <1>1, <4>1, AvailableType, AmountIsNat, StageNumbers, LastStageType
      <4> HIDE DEF n
      <4>3. r \in FinishRequests /\ r.op = "finish"
        BY <4>2 DEF FinishRequests
      <4> HIDE DEF r
      <4>4. Brings(r, order)
        BY <4>2, <4>3 DEF Brings
      <4> QED
        BY <4>1, <4>4
    <3>4. CASE UndoFinishAsk(c)
      <4> DEFINE last == LastStage(order.work[Parent])
                 to == IF last = 0 THEN CASTING ELSE At(last)
                 r == [op |-> "undoFinish", to |-> to]
      <4>1. Ask(c, r) /\ Corrections
        BY <3>4 DEF UndoFinishAsk
      <4>2. last \in 0..5
        BY <1>1, LastStageType
      <4> HIDE DEF last
      <4>3. to \in {CASTING} \cup IN_STAGE_STATUSES
        BY <4>2, StatusNumbers
      <4> HIDE DEF to
      <4>4. r \in UndoFinishRequests /\ r.op = "undoFinish"
        BY <4>3 DEF UndoFinishRequests
      <4> HIDE DEF r
      <4>5. Brings(r, order)
        BY <4>1, <4>4 DEF Brings
      <4> QED
        BY <4>1, <4>5
    <3>5. CASE ChangeStatusAsk(c)
      <4>1. PICK to \in {DEFECT, NEW_ORDER} :
              Ask(c, [op |-> "change", to |-> to, leave |-> order.receipt.qty > 0,
                      cleared |-> {h \in Holders : order.sheet[h].pending # 0}])
        BY <3>5 DEF ChangeStatusAsk
      <4> DEFINE leave == order.receipt.qty > 0
                 seen == {h \in Holders : order.sheet[h].pending # 0}
                 r == [op |-> "change", to |-> to, leave |-> leave, cleared |-> seen]
      <4>2. leave \in BOOLEAN /\ seen \in SUBSET Holders
        OBVIOUS
      <4>3. Ask(c, r)
        BY <4>1
      <4> HIDE DEF leave, seen
      <4>4. r \in ChangeRequests /\ r.op = "change"
        BY <4>2 DEF ChangeRequests
      <4> HIDE DEF r
      <4>5. Brings(r, order)
        BY <4>4 DEF Brings
      <4> QED
        BY <4>3, <4>5
    <3> QED
      BY <3>1, <3>2, <3>3, <3>4, <3>5
  <2> QED
    BY <2>1
<1>3. CoreInv'
  BY <1>2, AskCore
<1>4. order' = order
  BY <1>2 DEF Ask
<1> QED
  BY <1>3, <1>4

(* What follows when a stage without a keeper comes back with something.    *)
LEMMA AdvanceCore ==
    ASSUME NEW o, CoreOf(o), NEW h \in Holders, NEW e \in EntryValues, o.work[h] # <<>>,
           e.stage \notin KEEPER_CONFIRM_STAGES, e.returned # NotYet, e.returned # 0
    PROVE  CoreOf(AdvanceAfterQc(o, h, e)) /\ AdvanceAfterQc(o, h, e).work = o.work
<1>1. o \in Orders /\ Whole(o) /\ Sane(o.work) /\ SumReceipt(o)
  BY DEF CoreOf
<1>2. /\ e.stage \in {ENGRAVING, POLISHING, PLATING} /\ e.returned \in Nat /\ e.returned > 0
  <2>1. e.stage \in Stages /\ e.returned \in Amount \cup {NotYet}
    BY DEF EntryValues
  <2>2. e.stage \in {ENGRAVING, POLISHING, PLATING}
    BY <2>1, StageNumbers
  <2>3. e.returned \in Nat
    BY <2>1, AmountIsNat
  <2>4. e.returned > 0
    BY <2>3
  <2> QED
    BY <2>2, <2>3, <2>4
<1> DEFINE next == e.stage + 1
           c == o.sheet[h]
           card == Prepared(c, next, FALSE, c.give)
           opened == [o EXCEPT !.sheet[h] = card]
           closed == Close(o, h, "FINISH")
           receipt == [qty |-> e.returned, stocked |-> 0]
           plated == [o EXCEPT !.receipt = receipt, !.status = PLATED]
           p == AdvanceAfterQc(o, h, e)
<1>3. \/ p = o
      \/ /\ ~(h = Parent /\ Live(o) # {}) /\ e.stage \in {ENGRAVING, POLISHING} /\ p = opened
      \/ h # Parent /\ p = SyncOrder(closed)
      \/ h = Parent /\ Live(o) = {} /\ p = plated
  <2>1. [o EXCEPT !.sheet[h].pending = next, !.sheet[h].claimed = FALSE] = opened
    <3>1. [o EXCEPT !.sheet[h].pending = next, !.sheet[h].claimed = FALSE]
             = [o EXCEPT !.sheet[h] = [c EXCEPT !.pending = next, !.claimed = FALSE]]
      BY <1>1, OrderParts DEF Orders
    <3>2. [c EXCEPT !.pending = next, !.claimed = FALSE] = card
      BY <1>1, SheetParts DEF SheetValues, Prepared
    <3> QED
      BY <3>1, <3>2
  <2> HIDE DEF opened, plated, next
  <2> QED
    BY <1>2, <2>1 DEF AdvanceAfterQc, next, plated
<1>4. CASE p = o
  BY <1>4
<1>5. CASE /\ ~(h = Parent /\ Live(o) # {}) /\ e.stage \in {ENGRAVING, POLISHING} /\ p = opened
  <2>1. next \in Stages \cup {0} /\ c \in SheetValues /\ c.give \in Amount
    BY <1>1, <1>5, SheetParts, StageNumbers
  <2>2. /\ card \in SheetValues /\ card.live = c.live /\ card.outcome = c.outcome
        /\ card.good = c.good
    <3>1. PICK k \in BOOLEAN : k = FALSE
      OBVIOUS
    <3>2. card = Prepared(c, next, k, c.give)
      BY <3>1
    <3> HIDE DEF card, c, next
    <3> QED
      BY <2>1, <3>2, PreparedShape
  <2> HIDE DEF card
  <2>3. CoreOf(opened) /\ opened.work = o.work
    BY <1>5, <2>2, PendingShape
  <2> HIDE DEF opened, p
  <2> QED
    BY <1>5, <2>3 DEF p
<1>6. CASE h # Parent /\ p = SyncOrder(closed)
  <2>1. h \in Live(o)
    BY <1>1, <1>6 DEF Whole, Live, Holders
  <2>2. closed \in Orders /\ Whole(closed) /\ Sane(closed.work) /\ closed.work = o.work
    BY <1>1, <2>1, ClosedCore
  <2> HIDE DEF closed
  <2> QED
    BY <1>6, <2>2, SyncedCore
<1>7. CASE h = Parent /\ Live(o) = {} /\ p = plated
  <2>1. receipt \in Receipts /\ receipt.qty = e.returned /\ receipt.stocked = 0
    BY <1>2 DEF Receipts
  <2>2. PLATED \in NEW_ORDER..FINISHING
    BY StatusNumbers
  <2>3. FinishedStatus(receipt) = PLATED
    BY <1>2, <2>1 DEF FinishedStatus
  <2> HIDE DEF receipt
  <2>4. /\ plated \in Orders /\ plated.receipt = receipt /\ plated.status = PLATED
        /\ plated.sheet = o.sheet /\ plated.work = o.work /\ plated.skip = o.skip
    BY <1>1, <2>1, <2>2 DEF Orders
  <2> HIDE DEF plated, p
  <2>5. Live(plated) = {}
    BY <1>7, <2>4 DEF Live
  <2>6. Whole(plated) /\ SumReceipt(plated)
    BY <1>1, <1>2, <2>1, <2>3, <2>4, <2>5 DEF Whole, SumReceipt
  <2> QED
    BY <1>1, <1>7, <2>4, <2>6 DEF CoreOf, p
<1> QED
  BY <1>3, <1>4, <1>5, <1>6, <1>7

LEMMA ReturnSaveCore ==
    ASSUME FlowInv, CoreInv, NEW c \in Clients, ReturnSave(c)
    PROVE  CoreInv' /\ NothingConfirmed(order.work, order'.work)
<1> DEFINE r == req[c]
           old == order.work[r.h][r.i]
           keeper == old.stage \in KEEPER_CONFIRM_STAGES
           e == [old EXCEPT !.returned = r.good, !.defect = r.defect, !.confirmed = ~keeper,
                            !.tries = IF r.revise THEN old.tries + 1 ELSE old.tries]
           saved == [order EXCEPT !.work[r.h][r.i] = e]
           nothing == ~keeper /\ r.good = 0
           o == IF keeper THEN saved
                ELSE IF ~nothing THEN AdvanceAfterQc(saved, r.h, e)
                ELSE IF r.h = Parent THEN saved
                ELSE SyncOrderAfterStage(Close(saved, r.h, "DEFECT"), TRUE)
           next == IF nothing /\ r.h = Parent THEN DefectOf(e.stage) ELSE DeriveStatus(o)
<1>1. CoreOf(order) /\ order \in Orders /\ Whole(order) /\ Sane(order.work)
  BY DEF CoreInv, CoreOf
<1>2. CASE Refuse(c)
  <2>1. CoreInv' /\ order' = order
    BY Zenon, <1>2, RefuseCore DEF Refuse
  <2> QED
    BY <2>1, GrowsSame
<1>3. ASSUME Unchanged(r), r.op = "return", Save(c, o, next)
      PROVE  CoreInv' /\ NothingConfirmed(order.work, order'.work)
  <2>1. /\ r \in ReturnRequests /\ r.i \in DOMAIN order.work[r.h]
        /\ r.good > 0 \/ old.stage \in DEFECT_REPORT_STAGES
    BY Zenon, <1>3 DEF CoreInv, Brings
  <2>2. keeper => ~old.confirmed
    BY Zenon, <1>3 DEF FlowInv, Knows, Unchanged
  <2>3. r.h \in Holders /\ r.good \in Amount /\ r.defect \in Amount /\ r.good # NotYet /\ r.good \in Nat
    <3>1. r.h \in Holders /\ r.good \in Amount /\ r.defect \in Amount
      BY <2>1 DEF ReturnRequests
    <3>2. r.good \in Nat
      BY <3>1, AmountIsNat
    <3>3. r.good # NotYet
      BY <3>2 DEF NotYet
    <3> QED
      BY <3>1, <3>2, <3>3
  <2>4. old \in EntryValues
    BY <1>1, <2>1, <2>3, EntryParts
  <2>5. e \in EntryValues /\ e.stage = old.stage /\ e.returned = r.good /\ e.confirmed = ~keeper
    <3> DEFINE ok == ~keeper
               good == r.good
               defect == r.defect
               n == IF r.revise THEN old.tries + 1 ELSE old.tries
               returns == Amount \cup {NotYet}
    <3>1. ok \in BOOLEAN /\ good \in returns /\ defect \in Amount
      BY <2>3
    <3>2. n \in Nat
      <4>1. old.tries \in Nat
        BY <2>4 DEF EntryValues
      <4> QED
        BY <4>1
    <3>3. old \in [stage : Stages, handed : Amount, done : BOOLEAN, returned : returns,
                   defect : Amount, confirmed : BOOLEAN, tries : Nat, rework : BOOLEAN]
      BY <2>4 DEF EntryValues
    <3> DEFINE f == [old EXCEPT !.returned = good, !.defect = defect, !.confirmed = ok, !.tries = n]
    <3>4. e = f
      BY Zenon DEF n, ok, good, defect
    <3> HIDE DEF ok, good, defect, n, returns, e, keeper, r, old
    <3>5. /\ f \in [stage : Stages, handed : Amount, done : BOOLEAN, returned : returns,
                    defect : Amount, confirmed : BOOLEAN, tries : Nat, rework : BOOLEAN]
          /\ f.stage = old.stage /\ f.returned = good /\ f.confirmed = ok
      BY <3>1, <3>2, <3>3
    <3> HIDE DEF f
    <3> QED
      BY <3>4, <3>5 DEF EntryValues, returns, ok, good
  <2> HIDE DEF e
  <2>6. /\ CoreOf(saved) /\ Grows(order.work, saved.work)
        /\ NothingConfirmed(order.work, saved.work)
    <3>1. /\ e.stage \notin KEEPER_CONFIRM_STAGES => e.confirmed
          /\ e.stage \notin DEFECT_REPORT_STAGES => e.returned > 0
      BY <2>1, <2>3, <2>5
    <3>2. e.stage \in KEEPER_CONFIRM_STAGES => ~e.confirmed
      BY <2>5
    <3> HIDE DEF r, old
    <3> QED
      BY <1>1, <2>1, <2>3, <2>5, <3>1, <3>2, EntryCore DEF old
  <2>7. saved.work[r.h] # <<>>
    <3>1. DOMAIN order.work[r.h] \subseteq DOMAIN saved.work[r.h]
      BY <2>3, <2>6 DEF Grows
    <3> HIDE DEF saved
    <3> QED
      BY <2>1, <3>1
  <2> HIDE DEF saved, r
  <2>8. CoreOf(o) /\ o.work = saved.work
    <3>1. CASE keeper
      BY <2>6, <3>1
    <3>2. CASE ~keeper /\ ~nothing
      <4> DEFINE p == AdvanceAfterQc(saved, r.h, e)
      <4>1. o = p
        BY <3>2
      <4>2. e.returned # NotYet /\ e.returned # 0 /\ e.stage \notin KEEPER_CONFIRM_STAGES
        BY <2>3, <2>5, <3>2
      <4>3. CoreOf(p) /\ p.work = saved.work
        BY <2>3, <2>5, <2>6, <2>7, <4>2, AdvanceCore
      <4> HIDE DEF p, o
      <4> QED
        BY <4>1, <4>3
    <3>3. CASE nothing /\ r.h = Parent
      BY <2>6, <3>3
    <3>4. CASE nothing /\ r.h # Parent
      <4> DEFINE q == Close(saved, r.h, "DEFECT")
                 p == SyncOrderAfterStage(q, TRUE)
      <4>1. o = p
        BY <3>4
      <4>2. r.h \in Live(saved)
        BY <2>3, <2>6, <2>7, <3>4 DEF CoreOf, Whole, Live, Holders
      <4>3. q \in Orders /\ Whole(q) /\ Sane(q.work) /\ q.work = saved.work /\ Live(q) = Live(saved)
        BY <2>6, <4>2, ClosedCore DEF CoreOf
      <4> HIDE DEF q
      <4>4. CoreOf(p) /\ p.work = q.work
        <5>1. PICK k \in BOOLEAN : k = TRUE
          OBVIOUS
        <5>2. p = SyncOrderAfterStage(q, k)
          BY <5>1
        <5> HIDE DEF p
        <5> QED
          BY <4>2, <4>3, <5>1, <5>2, AfterCore
      <4> HIDE DEF p, o
      <4> QED
        BY <4>1, <4>3, <4>4
    <3> QED
      BY <3>1, <3>2, <3>3, <3>4
  <2> HIDE DEF o
  <2>9. next \in NEW_ORDER..FINISHING /\ (next \in FINISHED_STATUSES => next = o.status)
    <3>1. /\ DeriveStatus(o) \in NEW_ORDER..FINISHING
          /\ DeriveStatus(o) \in FINISHED_STATUSES => DeriveStatus(o) = o.status
      BY <2>8, DeriveStatusType, StatusNumbers DEF CoreOf
    <3>2. DefectOf(e.stage) \in NEW_ORDER..FINISHING /\ DefectOf(e.stage) \notin FINISHED_STATUSES
      BY DefectOfType, StatusNumbers
    <3> QED
      BY <3>1, <3>2
  <2> HIDE DEF next
  <2>10. order' = o
    BY <1>3 DEF Save
  <2> QED
    BY <1>3, <2>6, <2>8, <2>9, <2>10, SaveCore
<1>4. \/ Refuse(c)
      \/ Unchanged(r) /\ r.op = "return" /\ Save(c, o, next)
  <2> HIDE DEF o, next
  <2>1. r.op = "return"
    BY Zenon DEF ReturnSave
  <2>2. Refuse(c) \/ (Unchanged(r) /\ Save(c, o, next))
    BY Zenon DEF ReturnSave, o, next
  <2> HIDE DEF r
  <2> QED
    BY <2>1, <2>2
<1> QED
  BY Zenon, <1>2, <1>3, <1>4

(* An undo touches no entry a keeper confirms, and puts nothing on a sheet.  *)
LEMMA UndoSaveCore ==
    ASSUME CoreInv, NEW c \in Clients, UndoSave(c)
    PROVE  CoreInv' /\ NothingConfirmed(order.work, order'.work)
<1> DEFINE r == req[c]
           old == order.work[r.h][r.i]
           e == [old EXCEPT !.returned = NotYet]
           saved == [order EXCEPT !.work[r.h][r.i] = e]
           open == order.sheet[r.h].pending
           pending == IF r.auto THEN 0 ELSE open
           sheet == saved.sheet[r.h]
           card == Prepared(sheet, pending, sheet.claimed, sheet.give)
           o == [saved EXCEPT !.sheet[r.h] = card]
           wrote == [order EXCEPT !.work[r.h][r.i].returned = NotYet,
                         !.sheet[r.h].pending = IF r.auto THEN 0 ELSE order.sheet[r.h].pending]
<1>1. CoreOf(order) /\ order \in Orders /\ Whole(order) /\ Sane(order.work)
  BY DEF CoreInv, CoreOf
<1>2. /\ r \in UndoRequests /\ r.h \in Holders /\ r.i \in DOMAIN order.work[r.h]
      /\ old.stage \notin KEEPER_CONFIRM_STAGES
  BY Zenon DEF CoreInv, Brings, UndoSave, UndoRequests
<1>3. Save(c, wrote, DeriveStatus(wrote))
  BY DEF UndoSave
<1>4. old \in EntryValues
  BY <1>1, <1>2, EntryParts
<1>5. e \in EntryValues /\ e.stage = old.stage /\ e.returned = NotYet
  <2> DEFINE returns == Amount \cup {NotYet}
  <2>1. old \in [stage : Stages, handed : Amount, done : BOOLEAN, returned : returns,
                 defect : Amount, confirmed : BOOLEAN, tries : Nat, rework : BOOLEAN]
        /\ NotYet \in returns
    BY <1>4 DEF EntryValues
  <2> HIDE DEF returns, old
  <2> QED
    BY <2>1 DEF EntryValues, returns
<1>6. wrote = o
  <2>1. order \in Orders /\ order.sheet[r.h] \in SheetValues
    BY <1>1, <1>2, SheetParts
  <2>2. saved.sheet = order.sheet
    BY <2>1 DEF Orders
  <2>3. card = [order.sheet[r.h] EXCEPT !.pending = pending]
    <3> HIDE DEF saved, pending, r
    <3> QED
      BY <2>1, <2>2, PreparedStage
  <2>4. wrote = [saved EXCEPT !.sheet[r.h] = [order.sheet[r.h] EXCEPT !.pending = pending]]
    BY <2>1 DEF Orders
  <2> HIDE DEF saved, wrote, card
  <2> QED
    BY <2>3, <2>4
<1> HIDE DEF e, wrote
<1>7. /\ saved \in Orders /\ saved.sheet = order.sheet
  BY <1>1, <1>2, <1>5, OneEntryShape
<1>8. /\ CoreOf(saved) /\ Grows(order.work, saved.work)
      /\ NothingConfirmed(order.work, saved.work)
  <2> HIDE DEF r, old
  <2> QED
    BY <1>1, <1>2, <1>5, EntryCore DEF old
<1>9. /\ sheet \in SheetValues /\ sheet.give \in Amount /\ sheet.claimed \in BOOLEAN
      /\ open \in Stages \cup {0} /\ sheet.pending = open
  BY <1>1, <1>2, <1>7, SheetParts
<1>10. pending \in Stages \cup {0}
  BY <1>9
<1> HIDE DEF saved, open
<1>11. /\ card \in SheetValues /\ card.live = sheet.live /\ card.outcome = sheet.outcome
       /\ card.good = sheet.good /\ card.pending = pending
  <2> HIDE DEF sheet, pending
  <2> QED
    BY <1>9, <1>10, PreparedShape
<1>12. r.h = Parent => Live(saved) = {} \/ card.pending = 0
  BY <1>8, <1>9, <1>11 DEF CoreOf, Whole
<1> HIDE DEF card
<1>13. CoreOf(o) /\ o.work = saved.work
  <2> HIDE DEF r
  <2> QED
    BY <1>2, <1>8, <1>11, <1>12, PendingShape
<1> HIDE DEF o
<1>14. DeriveStatus(o) \in NEW_ORDER..FINISHING /\ (DeriveStatus(o) \in FINISHED_STATUSES => DeriveStatus(o) = o.status)
  BY <1>13, DeriveStatusType, StatusNumbers DEF CoreOf
<1>15. order' = o
  BY <1>3, <1>6 DEF Save
<1> QED
  BY <1>3, <1>6, <1>8, <1>13, <1>14, <1>15, SaveCore

(* The status alone, or with the receipt, changes.                          *)
LEMMA EmptyReceiptCore ==
    ASSUME NEW o, CoreOf(o), NEW x \in NEW_ORDER..FINISHING, x \notin FINISHED_STATUSES
    PROVE  LET p == [o EXCEPT !.receipt = NoReceipt, !.status = x]
           IN  CoreOf(p) /\ p.work = o.work /\ p.sheet = o.sheet /\ p.status = x
<1> DEFINE none == NoReceipt
           p == [o EXCEPT !.receipt = none, !.status = x]
<1>1. none \in Receipts /\ none.qty = 0 /\ none.stocked = 0
  BY DEF NoReceipt, Receipts
<1>2. o \in Orders /\ Whole(o) /\ Sane(o.work)
  BY DEF CoreOf
<1> HIDE DEF none
<1>3. /\ p \in Orders /\ p.receipt = none /\ p.status = x
      /\ p.sheet = o.sheet /\ p.work = o.work /\ p.skip = o.skip
  BY <1>1, <1>2 DEF Orders
<1> HIDE DEF p
<1>4. Whole(p) /\ SumReceipt(p)
  BY <1>1, <1>2, <1>3 DEF Whole, SumReceipt, Live
<1> QED
  BY <1>2, <1>3, <1>4 DEF CoreOf, p, none

LEMMA StatusCore ==
    ASSUME NEW o, CoreOf(o), NEW x \in NEW_ORDER..FINISHING, x \notin FINISHED_STATUSES
    PROVE  LET p == [o EXCEPT !.status = x]
           IN  CoreOf(p) /\ p.work = o.work /\ p.sheet = o.sheet /\ p.receipt = o.receipt /\ p.status = x
<1> DEFINE p == [o EXCEPT !.status = x]
<1>1. o \in Orders /\ Whole(o) /\ Sane(o.work) /\ SumReceipt(o)
  BY DEF CoreOf
<1>2. p = [o EXCEPT !.status = x]
  OBVIOUS
<1> HIDE DEF p
<1>3. /\ p \in Orders /\ p.status = x
      /\ p.sheet = o.sheet /\ p.work = o.work /\ p.skip = o.skip /\ p.receipt = o.receipt
  BY <1>1, <1>2, StatusShape
<1>4. Live(p) = Live(o) /\ FinishedQty(p) = FinishedQty(o)
  BY <1>3 DEF FinishedQty, Ended, Live
<1>5. Whole(p) /\ SumReceipt(p)
  BY <1>1, <1>3, <1>4 DEF Whole, SumReceipt
<1> QED
  BY <1>1, <1>3, <1>5 DEF CoreOf, p

LEMMA FinishSaveCore ==
    ASSUME CoreInv, NEW c \in Clients, FinishSave(c) \/ UndoFinishSave(c)
    PROVE  CoreInv' /\ order'.work = order.work
<1>1. CoreOf(order) /\ order \in Orders /\ Whole(order) /\ Sane(order.work)
  BY DEF CoreInv, CoreOf
<1>2. CASE Refuse(c)
  BY <1>2, RefuseCore DEF Refuse
<1>3. CASE ~Refuse(c) /\ FinishSave(c)
  <2> DEFINE r == req[c]
             receipt == [qty |-> r.qty, stocked |-> 0]
             p == [order EXCEPT !.status = PLATED, !.receipt = receipt]
  <2>1. /\ Save(c, p, PLATED) /\ r.op = "finish"
    BY <1>3 DEF FinishSave
  <2>2. r \in FinishRequests /\ order.work[Parent] # <<>>
    BY <2>1 DEF CoreInv, Brings
  <2>3. r.qty \in Nat /\ r.qty > 0
    <3>1. r.qty \in Amount /\ r.qty # 0
      BY <2>2 DEF FinishRequests
    <3>2. r.qty \in Nat
      BY <3>1, AmountIsNat
    <3> QED
      BY <3>1, <3>2
  <2>4. Live(order) = {}
    BY <1>1, <2>2 DEF Whole
  <2>5. receipt \in Receipts /\ receipt.qty > 0 /\ receipt.stocked = 0 /\ receipt.stocked <= receipt.qty
    BY <2>3 DEF Receipts
  <2>6. FinishedStatus(receipt) = PLATED
    BY <2>3, <2>5 DEF FinishedStatus
  <2>7. PLATED \in NEW_ORDER..FINISHING
    BY StatusNumbers
  <2> HIDE DEF receipt
  <2>8. /\ p \in Orders /\ p.receipt = receipt /\ p.status = PLATED
        /\ p.sheet = order.sheet /\ p.work = order.work /\ p.skip = order.skip
    BY <1>1, <2>5, <2>7 DEF Orders
  <2> HIDE DEF p
  <2>9. Live(p) = {}
    BY <2>4, <2>8 DEF Live
  <2>10. Whole(p) /\ SumReceipt(p)
    BY <1>1, <2>5, <2>6, <2>8, <2>9 DEF Whole, SumReceipt
  <2>11. CoreOf(p)
    BY <1>1, <2>8, <2>10 DEF CoreOf
  <2>12. order' = p
    BY <2>1 DEF Save
  <2> QED
    BY <2>1, <2>7, <2>8, <2>11, <2>12, SaveCore, GrowsSame
<1>4. CASE ~Refuse(c) /\ UndoFinishSave(c)
  <2> DEFINE r == req[c]
             x == r.to
             p == [order EXCEPT !.receipt = NoReceipt, !.status = x]
  <2>1. r.op = "undoFinish" /\ Save(c, [order EXCEPT !.status = r.to, !.receipt = NoReceipt], r.to)
    BY <1>4 DEF UndoFinishSave
  <2>2. [order EXCEPT !.status = r.to, !.receipt = NoReceipt] = p
    BY <1>1 DEF Orders
  <2>3. x \in NEW_ORDER..FINISHING /\ x \notin FINISHED_STATUSES
    <3>1. r \in UndoFinishRequests
      BY <2>1 DEF CoreInv, Brings
    <3>2. x \in {CASTING} \cup IN_STAGE_STATUSES
      BY <3>1 DEF UndoFinishRequests
    <3> HIDE DEF x
    <3> QED
      BY <3>2, StatusNumbers
  <2>4. Save(c, p, x)
    BY <2>1, <2>2
  <2> HIDE DEF x
  <2>5. CoreOf(p) /\ p.work = order.work /\ p.status = x
    BY Zenon, <1>1, <2>3, EmptyReceiptCore
  <2> HIDE DEF p
  <2>6. order' = p
    BY <2>4 DEF Save
  <2> QED
    BY <2>3, <2>4, <2>5, <2>6, SaveCore, GrowsSame
<1> QED
  BY <1>2, <1>3, <1>4

LEMMA StatusSaveCore ==
    ASSUME CoreInv, NEW c \in Clients, StatusSave(c)
    PROVE  CoreInv' /\ order'.work = order.work
<1> DEFINE x == req[c].to
           p == [order EXCEPT !.status = x]
<1>1. CoreOf(order) /\ order \in Orders
  BY DEF CoreInv, CoreOf
<1>2. x \in NEW_ORDER..FINISHING /\ x \notin FINISHED_STATUSES
  BY DEF CoreInv, Brings, StatusSave, StatusRequests
<1>3. order' = p /\ req' = [d \in Clients |-> IF d = c THEN Idle ELSE Stale(req[d])]
  BY DEF StatusSave
<1> HIDE DEF x
<1>4. CoreOf(p) /\ p.work = order.work
  BY <1>1, <1>2, StatusCore
<1> HIDE DEF p
<1>5. Brings(Idle, p)
  BY DEF Brings, Idle
<1>6. ASSUME NEW d \in Clients PROVE Brings(req'[d], p)
  BY <1>1, <1>3, <1>4, <1>5, StaleBrings, GrowsSame DEF CoreInv, CoreOf
<1>7. req' = [d \in Clients |-> req'[d]]
  BY <1>3
<1> QED
  BY <1>3, <1>4, <1>6, <1>7 DEF CoreInv, CoreOf

LEMMA ChangeSaveCore ==
    ASSUME CoreInv, NEW c \in Clients, ChangeStatusSave(c)
    PROVE  CoreInv' /\ order'.work = order.work
<1> DEFINE r == req[c]
           x == r.to
           g == [h \in Holders |-> IF h \in ClearSeen(r) THEN ClearPending(order.sheet[h])
                                   ELSE order.sheet[h]]
           q == [order EXCEPT !.sheet = g]
           left == [q EXCEPT !.receipt = NoReceipt, !.status = x]
           kept == [q EXCEPT !.status = x]
           p == IF r.leave THEN left ELSE kept
<1>1. CoreOf(order) /\ order \in Orders /\ Whole(order) /\ Sane(order.work)
  BY DEF CoreInv, CoreOf
<1>2. CASE Refuse(c)
  BY <1>2, RefuseCore DEF Refuse
<1>3. CASE ~Refuse(c)
  <2>1. r.op = "change" /\ Save(c, [order EXCEPT !.status = r.to,
                                        !.receipt = IF r.leave THEN NoReceipt ELSE order.receipt,
                                        !.sheet = g], r.to)
    BY <1>3 DEF ChangeStatusSave
  <2>2. x \in NEW_ORDER..FINISHING /\ x \notin FINISHED_STATUSES
    <3>1. r \in ChangeRequests
      BY <2>1 DEF CoreInv, Brings
    <3>2. x \in {DEFECT, NEW_ORDER}
      BY <3>1 DEF ChangeRequests
    <3> HIDE DEF x
    <3> QED
      BY <3>2, StatusNumbers
  <2>3. \A h \in Holders : order.sheet[h] \in SheetValues
    BY <1>1, SheetParts
  <2>4. \A h \in Holders :
          /\ ClearPending(order.sheet[h]) \in SheetValues
          /\ ClearPending(order.sheet[h]).live = order.sheet[h].live
          /\ ClearPending(order.sheet[h]).outcome = order.sheet[h].outcome
          /\ ClearPending(order.sheet[h]).good = order.sheet[h].good
          /\ ClearPending(order.sheet[h]).pending = 0
    BY <2>3, ClearedShape
  <2>5. /\ g \in [Holders -> SheetValues]
        /\ \A h \in Holders : /\ g[h].live = order.sheet[h].live
                              /\ g[h].outcome = order.sheet[h].outcome
                              /\ g[h].good = order.sheet[h].good
                              /\ g[h].pending \in {0, order.sheet[h].pending}
    BY <2>3, <2>4
  <2>6. [order EXCEPT !.status = r.to, !.receipt = IF r.leave THEN NoReceipt ELSE order.receipt,
                      !.sheet = g] = p
    <3> HIDE DEF g, r
    <3>1. CASE r.leave
      BY <1>1, <3>1 DEF Orders
    <3>2. CASE ~r.leave
      BY <1>1, <3>2 DEF Orders
    <3> QED
      BY <3>1, <3>2
  <2>7. Save(c, p, x)
    BY <2>1, <2>6
  <2> HIDE DEF g, x
  <2>8. /\ q \in Orders /\ q.sheet = g /\ q.work = order.work
        /\ q.receipt = order.receipt /\ q.status = order.status
    BY <1>1, <2>5, SheetsShape
  <2> HIDE DEF q
  <2>9. Live(q) = Live(order)
    BY <2>5, <2>8, LiveAreTickets DEF Live
  <2>10. CoreOf(q)
    <3>1. Live(q) # {} => q.sheet[Parent].pending = 0
      BY <1>1, <2>5, <2>8, <2>9, LiveAreTickets DEF Whole
    <3> QED
      BY <1>1, <2>5, <2>8, <2>9, <3>1, LiveAreTickets, CardsCore
  <2>11. CoreOf(left) /\ left.work = q.work /\ left.status = x
    BY Zenon, <2>2, <2>10, EmptyReceiptCore
  <2>12. CoreOf(kept) /\ kept.work = q.work /\ kept.status = x
    BY <2>2, <2>10, StatusCore
  <2> HIDE DEF left, kept, r
  <2>13. CoreOf(p) /\ p.work = q.work /\ p.status = x
    BY <2>11, <2>12
  <2> HIDE DEF p
  <2>14. order' = p
    BY <2>7 DEF Save
  <2> QED
    BY <2>2, <2>7, <2>8, <2>13, <2>14, SaveCore, GrowsSame
<1> QED
  BY <1>2, <1>3

-----------------------------------------------------------------------------
(* What is stored covers what stands after filing and stone setting.        *)
StoredOf(w, s) == [h \in Holders |-> Stored(w[h], s)]

StoreInv ==
    /\ blanks \in Amount /\ btp \in [KEEPER_CONFIRM_STAGES -> Nat]
    /\ \A s \in KEEPER_CONFIRM_STAGES : SumFunctionOnSet(StoredOf(order.work, s), Holders) <= btp[s]

LEMMA HoldersFinite == IsFiniteSet(Holders)
  BY TicketsAssumption, FS_Singleton, FS_Union DEF Holders

LEMMA StoredType ==
    ASSUME NEW o \in Orders, CameBack(o.work), NEW h \in Holders, NEW s \in KEEPER_CONFIRM_STAGES
    PROVE  Stored(o.work[h], s) \in Nat /\ StoredOf(o.work, s)[h] = Stored(o.work[h], s)
<1> DEFINE i == Len(o.work[h])
<1>1. CASE o.work[h] # <<>> /\ LastStage(o.work[h]) = s /\ LastOf(o.work[h]).confirmed
  <2>1. i \in DOMAIN o.work[h] /\ LastOf(o.work[h]) = o.work[h][i]
    BY <1>1, LastParts
  <2>2. o.work[h][i].stage = s /\ o.work[h][i].confirmed
    BY <1>1, <2>1 DEF LastStage
  <2>3. o.work[h][i].returned # NotYet
    BY <2>1, <2>2 DEF CameBack
  <2>4. o.work[h][i].returned \in Nat
    BY <2>1, <2>3, EntryParts, AmountIsNat
  <2> QED
    BY <2>1, <2>4 DEF Stored, StoredOf
<1>2. CASE ~(o.work[h] # <<>> /\ LastStage(o.work[h]) = s /\ LastOf(o.work[h]).confirmed)
  <2>1. o.work[h] = <<>> => LastStage(o.work[h]) # s
    BY StageNumbers DEF LastStage
  <2>2. Stored(o.work[h], s) = 0
    BY <1>2, <2>1 DEF Stored
  <2> QED
    BY <2>2 DEF StoredOf
<1> QED
  BY <1>1, <1>2

LEMMA StoredNumbers ==
    ASSUME NEW o \in Orders, CameBack(o.work), NEW s \in KEEPER_CONFIRM_STAGES
    PROVE  \A h \in Holders : /\ StoredOf(o.work, s)[h] \in Nat /\ StoredOf(o.work, s)[h] \in Int
                              /\ StoredOf(o.work, s)[h] = Stored(o.work[h], s)
  BY StoredType

(* Without a new confirmation no sheet stands for more than before.         *)
LEMMA StoredNoMore ==
    ASSUME NEW o \in Orders, NEW p \in Orders, CameBack(o.work), CameBack(p.work),
           NEW h \in Holders, NEW s \in KEEPER_CONFIRM_STAGES,
           DOMAIN o.work[h] \subseteq DOMAIN p.work[h],
           \A i \in DOMAIN p.work[h] :
               p.work[h][i].stage \in KEEPER_CONFIRM_STAGES /\ p.work[h][i].confirmed =>
                   /\ i \in DOMAIN o.work[h] /\ o.work[h][i].stage = p.work[h][i].stage
                   /\ o.work[h][i].confirmed /\ o.work[h][i].returned = p.work[h][i].returned
    PROVE  Stored(p.work[h], s) <= Stored(o.work[h], s)
<1>1. Stored(o.work[h], s) \in Nat /\ Stored(p.work[h], s) \in Nat
  BY StoredType
<1>2. CASE Stored(p.work[h], s) = 0
  BY <1>1, <1>2
<1>3. CASE Stored(p.work[h], s) # 0
  <2> DEFINE i == Len(p.work[h])
             j == Len(o.work[h])
  <2>1. LastStage(p.work[h]) = s /\ LastOf(p.work[h]).confirmed /\ Stored(p.work[h], s) = LastOf(p.work[h]).returned
    BY <1>3 DEF Stored
  <2>2. p.work[h] # <<>>
    BY <2>1, StageNumbers DEF LastStage
  <2>3. i \in DOMAIN p.work[h] /\ LastOf(p.work[h]) = p.work[h][i] /\ p.work[h][i].stage = s
    BY <2>1, <2>2, LastParts DEF LastStage
  <2>4. /\ i \in DOMAIN o.work[h] /\ o.work[h][i].stage = s
        /\ o.work[h][i].confirmed /\ o.work[h][i].returned = p.work[h][i].returned
    BY <2>1, <2>3
  <2>5. o.work[h] # <<>>
    BY <2>4
  <2>6. j \in DOMAIN o.work[h] /\ LastOf(o.work[h]) = o.work[h][j]
    BY <2>5, LastParts
  <2>7. i = j
    <3>1. i \in Nat /\ j \in Nat /\ i <= j
      BY <2>4, EntryParts
    <3>2. j <= i
      BY <2>3, <2>6, EntryParts
    <3> HIDE DEF i, j
    <3> QED
      BY <3>1, <3>2
  <2>8. Stored(o.work[h], s) = o.work[h][i].returned
    BY <2>4, <2>5, <2>6, <2>7 DEF Stored, LastStage
  <2> QED
    BY <1>1, <2>1, <2>3, <2>4, <2>8
<1> QED
  BY <1>2, <1>3

(* All that is said of a step that leaves the store alone.                  *)
LEMMA StoreStays ==
    ASSUME FlowInv, FlowInv', CoreInv, CoreInv', StoreInv, Follows(order.work, order'.work),
           NothingConfirmed(order.work, order'.work), UNCHANGED <<blanks, btp>>
    PROVE  StoreInv'
<1>1. PICK w, p : w = order.work /\ p = order' /\ p \in Orders /\ CameBack(p.work)
                  /\ NothingConfirmed(w, p.work) /\ Follows(w, p.work)
  BY DEF CoreInv, FlowInv
<1>2. order \in Orders /\ CameBack(order.work)
  BY DEF CoreInv, FlowInv
<1>3. ASSUME NEW s \in KEEPER_CONFIRM_STAGES
      PROVE  SumFunctionOnSet(StoredOf(p.work, s), Holders) <= SumFunctionOnSet(StoredOf(w, s), Holders)
  <2> DEFINE f == StoredOf(order.work, s)
             g == StoredOf(p.work, s)
  <2>1. \A h \in Holders : f[h] \in Int /\ g[h] \in Int
    BY <1>1, <1>2, StoredNumbers
  <2>2. ASSUME NEW h \in Holders PROVE g[h] <= f[h]
    <3>1. DOMAIN order.work[h] \subseteq DOMAIN p.work[h]
      BY <1>1 DEF Follows
    <3>2. Stored(p.work[h], s) <= Stored(order.work[h], s)
      BY <1>1, <1>2, <3>1, StoredNoMore DEF NothingConfirmed
    <3> QED
      BY <1>1, <1>2, <3>2, StoredNumbers
  <2> HIDE DEF f, g
  <2>3. SumFunctionOnSet(g, Holders) <= SumFunctionOnSet(f, Holders)
    BY <2>1, <2>2, HoldersFinite, SumNotMore
  <2> QED
    BY <1>1, <2>3 DEF f, g
<1>4. ASSUME NEW s \in KEEPER_CONFIRM_STAGES
      PROVE  SumFunctionOnSet(StoredOf(p.work, s), Holders) <= btp[s]
  <2>1. SumFunctionOnSet(StoredOf(w, s), Holders) <= btp[s] /\ btp[s] \in Nat
    BY <1>1 DEF StoreInv
  <2>2. /\ SumFunctionOnSet(StoredOf(w, s), Holders) \in Int
        /\ SumFunctionOnSet(StoredOf(p.work, s), Holders) \in Int
    BY <1>1, <1>2, StoredNumbers, HoldersFinite, SumIsInt
  <2> QED
    BY <1>3, <2>1, <2>2
<1> QED
  BY <1>1, <1>4 DEF StoreInv

(* A new entry stands for nothing, and takes no more than what it began with *)
(* stood for.                                                               *)
LEMMA BeginStores ==
    ASSUME FlowInv, CoreInv, StoreInv, NEW h \in Holders, NEW s \in Stages, NEW n \in Amount,
           Begin(h, s, n), s # FILING => n <= Available(order, h), FlowInv', CoreInv',
           NothingConfirmed(order.work, order'.work)
    PROVE  StoreInv'
<1>1. PICK p : /\ p = order' /\ p \in Orders /\ CameBack(p.work)
               /\ p.work = [order.work EXCEPT ![h] = Append(order.work[h], Entry(s, n))]
  <2>1. order'.work = [order.work EXCEPT ![h] = Append(order.work[h], Entry(s, n))]
    BY DEF Begin, Mutate, CoreInv, Orders
  <2> QED
    BY <2>1 DEF CoreInv, FlowInv
<1>2. order \in Orders /\ CameBack(order.work) /\ order.work[h] \in Seq(EntryValues)
  BY SheetParts DEF CoreInv, FlowInv
<1>3. /\ p.work[h] = Append(order.work[h], Entry(s, n))
      /\ \A g \in Holders : g # h => p.work[g] = order.work[g]
  BY <1>1, <1>2, OrderParts
<1> DEFINE last == LastStage(order.work[h])
           have == Stored(order.work[h], last)
<1>4. LastOf(p.work[h]) = Entry(s, n) /\ ~LastOf(p.work[h]).confirmed
  BY <1>2, <1>3, EntryShape DEF LastOf
<1>5. \A k : Stored(p.work[h], k) = 0
  BY <1>4 DEF Stored
<1>6. ASSUME NEW k \in KEEPER_CONFIRM_STAGES
      PROVE  /\ SumFunctionOnSet(StoredOf(p.work, k), Holders)
                    = SumFunctionOnSet(StoredOf(order.work, k), Holders) - Stored(order.work[h], k)
             /\ SumFunctionOnSet(StoredOf(order.work, k), Holders) \in Int
             /\ SumFunctionOnSet(StoredOf(order.work, k), Holders) <= btp[k]
             /\ btp[k] \in Nat /\ Stored(order.work[h], k) \in Nat
  <2> DEFINE f == StoredOf(order.work, k)
             g == StoredOf(p.work, k)
  <2>1. \A x \in Holders : f[x] \in Int /\ g[x] \in Int
    BY <1>1, <1>2, StoredNumbers
  <2>2. \A x \in Holders : x # h => g[x] = f[x]
    BY <1>3 DEF StoredOf
  <2>3. g[h] = 0 /\ f[h] = Stored(order.work[h], k) /\ f[h] \in Nat
    BY <1>1, <1>2, <1>5, StoredNumbers
  <2>4. SumFunctionOnSet(f, Holders) <= btp[k] /\ btp[k] \in Nat
    BY DEF StoreInv
  <2> HIDE DEF f, g
  <2>5. \A x \in Holders : f[x] \in Int
    BY <2>1
  <2>6. SumFunctionOnSet(f, Holders) \in Int
    BY <2>5, HoldersFinite, SumIsInt
  <2>7. SumFunctionOnSet(g, Holders) = SumFunctionOnSet(f, Holders) - f[h] + g[h]
    BY <2>1, <2>2, HoldersFinite, SumOneChanges
  <2>8. SumFunctionOnSet(g, Holders) = SumFunctionOnSet(f, Holders) - f[h]
    BY <2>3, <2>6, <2>7
  <2> QED
    BY <2>3, <2>4, <2>6, <2>8 DEF f, g
<1>7. blanks \in Amount /\ btp \in [KEEPER_CONFIRM_STAGES -> Nat] /\ FromStore(h, s, n)
  BY DEF StoreInv, Begin
<1>8. \A k \in KEEPER_CONFIRM_STAGES : SumFunctionOnSet(StoredOf(p.work, k), Holders) <= btp[k]
  <2> SUFFICES ASSUME NEW k \in KEEPER_CONFIRM_STAGES
               PROVE  SumFunctionOnSet(StoredOf(p.work, k), Holders) <= btp[k]
    OBVIOUS
  <2> DEFINE a == SumFunctionOnSet(StoredOf(p.work, k), Holders)
             b == SumFunctionOnSet(StoredOf(order.work, k), Holders)
             d == Stored(order.work[h], k)
  <2>1. a = b - d /\ b \in Int /\ b <= btp[k] /\ btp[k] \in Nat /\ d \in Nat
    BY <1>6
  <2> HIDE DEF a, b, d
  <2>2. a <= btp[k]
    BY <2>1
  <2> QED
    BY <2>2 DEF a
<1>9. CASE s = FILING
  <2>1. n <= blanks /\ blanks' = blanks - n /\ btp' = btp
    BY <1>7, <1>9 DEF FromStore
  <2>2. blanks' \in Amount
    <3>1. n \in Nat /\ blanks \in Nat /\ blanks <= OrderQty
      BY <1>7, SizeAssumption DEF Amount
    <3> QED
      BY <2>1, <3>1, SizeAssumption DEF Amount
  <2> QED
    BY <1>1, <1>7, <1>8, <2>1, <2>2 DEF StoreInv
<1>10. CASE s # FILING /\ ~(have > 0)
  <2>1. UNCHANGED <<blanks, btp>>
    BY <1>7, <1>10 DEF FromStore
  <2> QED
    BY <1>1, <1>7, <1>8, <2>1 DEF StoreInv
<1>11. CASE s # FILING /\ have > 0
  <2>1. n <= btp[last] /\ btp' = [btp EXCEPT ![last] = btp[last] - n] /\ blanks' = blanks
    BY <1>7, <1>11 DEF FromStore
  <2>2. last \in KEEPER_CONFIRM_STAGES /\ have = LastOf(order.work[h]).returned
    BY <1>11 DEF Stored
  <2>3. order.work[h] # <<>>
    BY <2>2, StageNumbers DEF LastStage
  <2>4. have \in Nat /\ LastOf(order.work[h]).returned # NotYet
    BY <1>2, <2>2, StoredType DEF NotYet
  <2>5. Available(order, h) = have
    BY <2>2, <2>3, <2>4 DEF Available
  <2>6. n <= have /\ n \in Nat
    BY <1>11, <2>5, AmountIsNat
  <2>7. ASSUME NEW k \in KEEPER_CONFIRM_STAGES
        PROVE  SumFunctionOnSet(StoredOf(p.work, k), Holders) <= btp'[k]
    <3>1. CASE k # last
      BY <1>7, <1>8, <2>1, <3>1
    <3>2. CASE k = last
      <4> DEFINE a == SumFunctionOnSet(StoredOf(p.work, k), Holders)
                 b == SumFunctionOnSet(StoredOf(order.work, k), Holders)
      <4>1. a = b - have /\ b \in Int /\ b <= btp[k] /\ btp[k] \in Nat
        BY <1>6, <3>2
      <4>2. btp'[k] = btp[k] - n
        BY <1>7, <2>1, <3>2
      <4> HIDE DEF a, b, have
      <4>3. a <= btp'[k]
        BY <2>4, <2>6, <4>1, <4>2
      <4> QED
        BY <4>3 DEF a
    <3> QED
      BY <3>1, <3>2
  <2>8. btp' \in [KEEPER_CONFIRM_STAGES -> Nat]
    <3>1. btp[last] \in Nat
      BY <1>7, <2>2
    <3>2. btp[last] - n \in Nat
      BY <2>1, <2>6, <3>1
    <3> HIDE DEF last
    <3> QED
      BY <1>7, <2>1, <3>2
  <2> QED
    BY <1>1, <1>7, <2>1, <2>7, <2>8 DEF StoreInv
<1> QED
  BY <1>9, <1>10, <1>11

(* What the keeper confirms he stores.                                      *)
LEMMA ConfirmStores ==
    ASSUME FlowInv, CoreInv, StoreInv, FlowInv', CoreInv', NEW h \in Holders,
           NEW i \in Unconfirmed(order, h), order.work[h][i].stage \in KEEPER_CONFIRM_STAGES,
           Confirms(order.work, order'.work, h, i),
           btp' = [btp EXCEPT ![order.work[h][i].stage] = @ + order.work[h][i].returned],
           blanks' = blanks
    PROVE  StoreInv'
<1> DEFINE st == order.work[h][i].stage
           n == order.work[h][i].returned
<1>1. PICK p : /\ p = order' /\ p \in Orders /\ CameBack(p.work)
               /\ Confirms(order.work, p.work, h, i)
  BY DEF CoreInv, FlowInv
<1>2. order \in Orders /\ CameBack(order.work) /\ i \in DOMAIN order.work[h]
      /\ ~order.work[h][i].confirmed
  BY DEF CoreInv, FlowInv, Unconfirmed
<1>3. n \in Nat
  BY Zenon, <1>2, EntryParts, AmountIsNat DEF Unconfirmed
<1>4. ASSUME NEW k \in KEEPER_CONFIRM_STAGES
      PROVE  Stored(p.work[h], k) <= Stored(order.work[h], k) + (IF k = st THEN n ELSE 0)
  <2>1. Stored(p.work[h], k) \in Nat /\ Stored(order.work[h], k) \in Nat
    BY <1>1, <1>2, StoredType
  <2>2. Len(p.work[h]) = Len(order.work[h]) /\ DOMAIN p.work[h] = DOMAIN order.work[h]
    BY <1>1 DEF Confirms
  <2>3. CASE i # Len(order.work[h])
    <3>1. order.work[h] # <<>> /\ p.work[h] # <<>>
      BY <1>2, <2>2
    <3>2. LastOf(p.work[h]) = LastOf(order.work[h])
      BY <1>1, <1>2, <2>2, <2>3, <3>1, LastParts DEF Confirms
    <3>3. Stored(p.work[h], k) = Stored(order.work[h], k)
      BY <3>1, <3>2 DEF Stored, LastStage
    <3> HIDE DEF st, n
    <3> QED
      BY <1>3, <2>1, <3>3
  <2>4. CASE i = Len(order.work[h])
    <3>1. order.work[h] # <<>> /\ p.work[h] # <<>>
      BY <1>2, <2>2
    <3>2. LastOf(p.work[h]) = p.work[h][i] /\ p.work[h][i].stage = st /\ p.work[h][i].returned = n
      BY <1>1, <2>2, <2>4 DEF Confirms, LastOf
    <3>3. Stored(p.work[h], k) = 0 \/ (k = st /\ Stored(p.work[h], k) = n)
      BY <3>1, <3>2 DEF Stored, LastStage
    <3> HIDE DEF st, n
    <3> QED
      BY <1>3, <2>1, <3>3
  <2> QED
    BY <2>3, <2>4
<1>5. btp \in [KEEPER_CONFIRM_STAGES -> Nat] /\ blanks \in Amount
  BY DEF StoreInv
<1>6. /\ btp' \in [KEEPER_CONFIRM_STAGES -> Nat]
      /\ \A k \in KEEPER_CONFIRM_STAGES : btp'[k] = btp[k] + (IF k = st THEN n ELSE 0)
  <2>1. btp' = [btp EXCEPT ![st] = btp[st] + n] /\ st \in KEEPER_CONFIRM_STAGES
    OBVIOUS
  <2> HIDE DEF st, n
  <2> QED
    BY <1>3, <1>5, <2>1
<1>7. ASSUME NEW k \in KEEPER_CONFIRM_STAGES
      PROVE  SumFunctionOnSet(StoredOf(p.work, k), Holders) <= btp'[k]
  <2> DEFINE f == StoredOf(order.work, k)
             g == StoredOf(p.work, k)
             more == IF k = st THEN n ELSE 0
             b == [f EXCEPT ![h] = f[h] + more]
  <2>1. \A x \in Holders : f[x] \in Int /\ g[x] \in Int
    BY <1>1, <1>2, StoredNumbers
  <2>2. more \in Nat
    BY <1>3
  <2>3. DOMAIN f = Holders
    BY DEF StoredOf
  <2>4. \A x \in Holders : x # h => g[x] = f[x]
    BY <1>1 DEF StoredOf, Confirms
  <2>5. g[h] <= f[h] + more
    BY <1>1, <1>2, <1>4, StoredNumbers
  <2>6. SumFunctionOnSet(f, Holders) <= btp[k] /\ btp[k] \in Nat
    BY DEF StoreInv
  <2>7. btp'[k] = btp[k] + more
    BY <1>6
  <2> HIDE DEF f, g, more
  <2>8. /\ b[h] = f[h] + more
        /\ \A x \in Holders : b[x] \in Int
        /\ \A x \in Holders : x # h => b[x] = f[x]
    BY <2>1, <2>2, <2>3
  <2> HIDE DEF b
  <2>9. ASSUME NEW x \in Holders PROVE b[x] \in Int /\ g[x] \in Int /\ g[x] <= b[x]
    <3>1. CASE x = h
      BY <2>1, <2>5, <2>8, <3>1
    <3>2. CASE x # h
      <4>1. g[x] = b[x]
        BY <2>4, <2>8, <3>2
      <4> QED
        BY <2>1, <2>8, <4>1
    <3> QED
      BY <3>1, <3>2
  <2>10. SumFunctionOnSet(g, Holders) <= SumFunctionOnSet(b, Holders)
    BY <2>9, HoldersFinite, SumNotMore
  <2>11. SumFunctionOnSet(b, Holders) = SumFunctionOnSet(f, Holders) - f[h] + b[h]
    <3>1. \A x \in Holders : f[x] \in Int /\ b[x] \in Int
      BY <2>1, <2>8
    <3>2. \A x \in Holders : x # h => b[x] = f[x]
      BY <2>8
    <3> QED
      BY <3>1, <3>2, HoldersFinite, SumOneChanges
  <2>12. SumFunctionOnSet(f, Holders) \in Int /\ SumFunctionOnSet(g, Holders) \in Int
    BY <2>1, HoldersFinite, SumIsInt
  <2>13. SumFunctionOnSet(b, Holders) = SumFunctionOnSet(f, Holders) + more
    BY <2>1, <2>2, <2>8, <2>11, <2>12
  <2>14. SumFunctionOnSet(g, Holders) <= btp'[k]
    BY <2>2, <2>6, <2>7, <2>10, <2>12, <2>13
  <2> QED
    BY <2>14 DEF g
<1> QED
  BY <1>1, <1>5, <1>6, <1>7 DEF StoreInv

-----------------------------------------------------------------------------
(* The store changes only where somebody begins or the keeper confirms.     *)
LEMMA OfficeKeeps ==
    ASSUME Office
    PROVE  UNCHANGED <<blanks, btp>>
<1>1. CASE Split \/ CreateTicket \/ UpdateTicket \/ ClearSplit \/ RemoveTicket
  BY <1>1 DEF Split, CreateTicket, UpdateTicket, ClearSplit, RemoveTicket, Keep
<1>2. CASE OpenOrderStage \/ AssignOrder \/ CancelOrderPending \/ UnclaimOrder
  BY Zenon, <1>2 DEF OpenOrderStage, AssignOrder, CancelOrderPending, UnclaimOrder, Keep
<1>3. CASE Assign \/ CancelPending \/ Unclaim
  BY Zenon, <1>3 DEF Assign, CancelPending, Unclaim, MutateTicket
<1>4. CASE SetOutcome \/ ClearOutcome \/ SetStoneSkipped \/ CreateRework
  BY Zenon, <1>4 DEF SetOutcome, ClearOutcome, SetStoneSkipped, CreateRework, Keep
<1> QED
  BY <1>1, <1>2, <1>3, <1>4 DEF Office

LEMMA ReportsKeep ==
    ASSUME \/ Submit \/ SubmitOrder \/ ReportStageDefect
           \/ Unsubmit \/ UnsubmitOrder \/ ClearStageDefect \/ StockReceipt
    PROVE  UNCHANGED <<blanks, btp>>
  BY Zenon DEF Submit, SubmitOrder, ReportStageDefect, Unsubmit, UnsubmitOrder, ClearStageDefect,
         StockReceipt, ReportDone, TakeBackDone, Keep

LEMMA RequestsKeep ==
    ASSUME NEW c \in Clients, Request(c)
    PROVE  UNCHANGED <<blanks, btp>>
<1>1. CASE ReturnAsk(c) \/ UndoAsk(c) \/ FinishAsk(c) \/ UndoFinishAsk(c) \/ ChangeStatusAsk(c)
  BY <1>1 DEF ReturnAsk, UndoAsk, FinishAsk, UndoFinishAsk, ChangeStatusAsk, Ask
<1>2. CASE ReturnSave(c)
  BY Zenon, <1>2 DEF ReturnSave, Refuse, Keep
<1>3. CASE UndoSave(c) \/ StatusSave(c)
  BY <1>3 DEF UndoSave, StatusSave, Keep
<1>4. CASE FinishSave(c) \/ UndoFinishSave(c) \/ ChangeStatusSave(c)
  BY <1>4 DEF FinishSave, UndoFinishSave, ChangeStatusSave, Refuse, Keep
<1> QED
  BY <1>1, <1>2, <1>3, <1>4 DEF Request

LEMMA OfficeCore ==
    ASSUME FlowInv, CoreInv, Office
    PROVE  CoreInv' /\ NothingConfirmed(order.work, order'.work)
<1>1. CASE CreateRework
  BY <1>1, ReportCore
<1>2. CASE ~CreateRework
  <2>1. CoreInv' /\ order'.work = order.work
    BY <1>2, DivideCore, UpdateTicketCore, PendingCore, OutcomeCore DEF Office
  <2> QED
    BY <2>1, GrowsSame
<1> QED
  BY <1>1, <1>2

LEMMA RequestCore ==
    ASSUME FlowInv, CoreInv, NEW c \in Clients, Request(c)
    PROVE  CoreInv' /\ NothingConfirmed(order.work, order'.work)
<1>1. CASE ReturnSave(c) \/ UndoSave(c)
  BY <1>1, ReturnSaveCore, UndoSaveCore
<1>2. CASE ~(ReturnSave(c) \/ UndoSave(c))
  <2>1. CoreInv' /\ order'.work = order.work
    BY <1>2, AskedCore, FinishSaveCore, StatusSaveCore, ChangeSaveCore DEF Request
  <2> QED
    BY <2>1, GrowsSame
<1> QED
  BY <1>1, <1>2

LEMMA CoreInit == Init => CoreInv
<1> SUFFICES ASSUME Init PROVE CoreInv
  OBVIOUS
<1> DEFINE sheets == [h \in Holders |-> IF h = Parent THEN Sheet(OrderQty) ELSE Sheet(0)]
           works == [h \in Holders |-> <<>>]
<1>1. /\ order = [status |-> Wait(FILING), skip |-> FALSE, receipt |-> NoReceipt,
                  sheet |-> sheets, work |-> works]
      /\ req = [c \in Clients |-> Idle]
  BY DEF Init
<1>2. Sheet(OrderQty) \in SheetValues /\ Sheet(0) \in SheetValues /\ Sheet(OrderQty).pending = 0
      /\ ~Sheet(0).live /\ Sheet(0).outcome = "NONE"
  <2>1. 0 \in Amount /\ OrderQty \in Amount /\ ~(0 > 0)
    BY AmountIsNat
  <2> QED
    BY <2>1, SheetShape
<1>3. sheets \in [Holders -> SheetValues] /\ sheets[Parent].pending = 0
      /\ \A t \in Tickets : ~sheets[t].live /\ sheets[t].outcome = "NONE"
  BY <1>2, LiveAreTickets
<1>4. works \in [Holders -> Seq(EntryValues)] /\ \A h \in Holders : works[h] = <<>>
  OBVIOUS
<1>5. Wait(FILING) \in NEW_ORDER..FINISHING /\ Wait(FILING) \notin FINISHED_STATUSES
  BY StatusNumbers, StageNumbers
<1>6. NoReceipt \in Receipts /\ NoReceipt.qty = 0 /\ NoReceipt.stocked = 0
  BY DEF NoReceipt, Receipts
<1> HIDE DEF sheets, works
<1>7. /\ order.sheet = sheets /\ order.work = works /\ order.receipt = NoReceipt
      /\ order.status = Wait(FILING) /\ order.skip = FALSE
  BY <1>1
<1>8. order \in Orders
  BY <1>1, <1>3, <1>4, <1>5, <1>6 DEF Orders
<1>9. Live(order) = {}
  BY <1>3, <1>7 DEF Live
<1>10. Whole(order)
  BY <1>3, <1>4, <1>7, <1>9, LiveAreTickets DEF Whole
<1>11. Sane(order.work)
  BY <1>4, <1>7 DEF Sane
<1>12. SumReceipt(order)
  BY <1>5, <1>6, <1>7 DEF SumReceipt
<1>13. \A c \in Clients : Brings(req[c], order)
  BY <1>1 DEF Brings, Idle
<1>14. req = [c \in Clients |-> req[c]]
  BY <1>1
<1> QED
  BY <1>8, <1>10, <1>11, <1>12, <1>13, <1>14 DEF CoreInv

LEMMA StoreInit == Init => StoreInv
<1> SUFFICES ASSUME Init PROVE StoreInv
  OBVIOUS
<1>1. blanks = OrderQty /\ btp = [s \in KEEPER_CONFIRM_STAGES |-> 0]
  BY DEF Init
<1>2. \A h \in Holders : order.work[h] = <<>>
  BY DEF Init
<1>3. ASSUME NEW s \in KEEPER_CONFIRM_STAGES
      PROVE  SumFunctionOnSet(StoredOf(order.work, s), Holders) = 0
  <2> DEFINE f == StoredOf(order.work, s)
  <2>1. s # 0
    BY StageNumbers
  <2>2. \A h \in Holders : f[h] = 0
    BY <1>2, <2>1 DEF StoredOf, Stored, LastStage
  <2> HIDE DEF f
  <2>3. SumFunctionOnSet(f, Holders) = 0
    BY <2>2, HoldersFinite, SumOfZeros
  <2> QED
    BY <2>3 DEF f
<1>4. \A s \in KEEPER_CONFIRM_STAGES : SumFunctionOnSet(StoredOf(order.work, s), Holders) <= btp[s]
  BY <1>1, <1>3
<1> QED
  BY <1>1, <1>4, AmountIsNat DEF StoreInv

(* One step keeps all three.                                                *)
LEMMA CoreStep ==
    ASSUME FlowInv, CoreInv, StoreInv, [Next]_flow
    PROVE  CoreInv' /\ StoreInv'
<1>1. FlowInv' /\ Follows(order.work, order'.work)
  BY FlowStep
<1>2. CASE Office
  BY <1>1, <1>2, OfficeCore, OfficeKeeps, StoreStays
<1>3. CASE \E c \in Clients : Request(c)
  BY <1>1, <1>3, RequestCore, RequestsKeep, StoreStays
<1>4. CASE Accept \/ AcceptOrder \/ Take \/ TakeOrder
  <2>1. CoreInv' /\ NothingConfirmed(order.work, order'.work)
    BY <1>4, WorkersCore
  <2>2. PICK h \in Holders, s \in Stages, n \in Amount :
            Begin(h, s, n) /\ (s # FILING => n <= Available(order, h))
    BY <1>4, WhoBegins
  <2> QED
    BY <1>1, <2>1, <2>2, BeginStores
<1>5. CASE ConfirmStage
  <2>1. CoreInv'
    BY <1>5, ConfirmCore
  <2>2. PICK h \in Holders : \E i \in Unconfirmed(order, h) :
            /\ order.work[h][i].stage \in KEEPER_CONFIRM_STAGES
            /\ Confirms(order.work, order'.work, h, i)
            /\ btp' = [btp EXCEPT ![order.work[h][i].stage] = @ + order.work[h][i].returned]
            /\ blanks' = blanks
    BY <1>5, ConfirmCore
  <2> QED
    BY <1>1, <2>1, <2>2, ConfirmStores
<1>6. CASE \/ Submit \/ SubmitOrder \/ ReportStageDefect
           \/ Unsubmit \/ UnsubmitOrder \/ ClearStageDefect
  BY <1>1, <1>6, ReportCore, ReportsKeep, StoreStays
<1>7. CASE StockReceipt
  <2>1. CoreInv' /\ order'.work = order.work
    BY <1>7, OutcomeCore
  <2> QED
    BY <1>1, <1>7, <2>1, GrowsSame, ReportsKeep, StoreStays
<1>8. CASE UNCHANGED flow
  <2>1. order' = order /\ blanks' = blanks /\ btp' = btp /\ req' = req
    BY <1>8 DEF flow
  <2> QED
    BY <2>1 DEF CoreInv, StoreInv
<1> QED
  BY <1>2, <1>3, <1>4, <1>5, <1>6, <1>7, <1>8 DEF Next, Workshop

LEMMA CoreHolds == Spec => [](FlowInv /\ CoreInv /\ StoreInv)
<1>1. Init => FlowInv /\ CoreInv /\ StoreInv
  BY FlowInit, CoreInit, StoreInit
<1>2. FlowInv /\ CoreInv /\ StoreInv /\ [Next]_flow => (FlowInv /\ CoreInv /\ StoreInv)'
  BY FlowStep, CoreStep
<1> QED
  BY <1>1, <1>2, PTL DEF Spec

(* Rows, store and requests keep their types: whatever the requests in       *)
(* flight read before, no ticket, entry or report leaves its range, and no  *)
(* store is overdrawn (SubTicketsService, ProductionOrdersService).         *)
THEOREM StageTypeCorrect == Spec => []StageTypeOK
<1>1. FlowInv /\ CoreInv /\ StoreInv => StageTypeOK
  <2> SUFFICES ASSUME CoreInv, StoreInv PROVE StageTypeOK
    OBVIOUS
  <2>1. /\ order.status \in NEW_ORDER..FINISHING /\ order.skip \in BOOLEAN
        /\ order.receipt \in [qty : Nat, stocked : Nat]
        /\ order.sheet \in [Holders -> SheetValues]
        /\ order.work \in [Holders -> Seq(EntryValues)]
    BY OrderParts DEF CoreInv, Receipts
  <2>2. DOMAIN req = Clients
    <3>1. req = [c \in Clients |-> req[c]]
      BY DEF CoreInv
    <3> QED
      BY <3>1
  <2>3. \A c \in Clients : req[c].op \in
            {"idle", "return", "undo", "status", "change", "finish", "undoFinish"}
    BY DEF CoreInv, Brings
  <2> QED
    BY <2>1, <2>2, <2>3 DEF StoreInv, StageTypeOK
<1> QED
  BY <1>1, CoreHolds, PTL

(* No piece is credited twice or to nobody: the receipt is what the tickets  *)
(* finished (syncOrder), the status says whether all of it is taken in, and *)
(* after filing and stone setting the store holds at least what the sheets  *)
(* that stand there came back with (confirmStage, accept, take).            *)
THEOREM NoPieceIsLost == Spec => []PiecesAddUp
<1>1. FlowInv /\ CoreInv /\ StoreInv => PiecesAddUp
  <2> SUFFICES ASSUME FlowInv, CoreInv, StoreInv PROVE PiecesAddUp
    OBVIOUS
  <2>1. ReceiptIsSum
    BY DEF CoreInv, SumReceipt, ReceiptIsSum
  <2>2. BtpCovers
    <3> SUFFICES ASSUME NEW s \in KEEPER_CONFIRM_STAGES
                 PROVE  btp[s] >= SumFunctionOnSet(
                            [h \in Holders |-> Stored(order.work[h], s)], Holders)
      BY DEF BtpCovers
    <3>1. btp[s] \in Nat /\ SumFunctionOnSet(StoredOf(order.work, s), Holders) <= btp[s]
      BY DEF StoreInv
    <3>2. SumFunctionOnSet(StoredOf(order.work, s), Holders) \in Int
      <4>1. \A h \in Holders : StoredOf(order.work, s)[h] \in Int
        BY StoredNumbers DEF CoreInv, FlowInv
      <4> QED
        BY <4>1, HoldersFinite, SumIsInt
    <3>3. StoredOf(order.work, s) = [h \in Holders |-> Stored(order.work[h], s)]
      BY DEF StoredOf
    <3>4. btp[s] >= SumFunctionOnSet(StoredOf(order.work, s), Holders)
      BY <3>1, <3>2
    <3> QED
      BY <3>3, <3>4
  <2> QED
    BY <2>1, <2>2 DEF PiecesAddUp
<1> QED
  BY <1>1, CoreHolds, PTL

-----------------------------------------------------------------------------
(* One stage after the other.  The entries of a sheet that are out, or wait  *)
(* for the keeper.                                                          *)
Pend(entries) == {i \in DOMAIN entries : entries[i].returned = NotYet \/ ~entries[i].confirmed}

OneHand(card, entries) ==
    /\ Pend(entries) \subseteq {Len(entries)}
    /\ Pend(entries) # {} => card.pending = 0
Settled(card, entries) ==
    card.live /\ card.outcome # "NONE" =>
        /\ card.pending = 0 /\ Pend(entries) = {}
        /\ card.outcome = "FINISH" =>
            LastStage(entries) = PLATING /\ card.good = LastOf(entries).returned
TidyAt(o, h) == OneHand(o.sheet[h], o.work[h]) /\ (h \in Tickets => Settled(o.sheet[h], o.work[h]))
Tidy(o) == \A h \in Holders : TidyAt(o, h)

LEMMA PendIsBusy ==
    ASSUME NEW o, NEW h
    PROVE  Pend(o.work[h]) = OpenAt(o, h) \cup Unconfirmed(o, h) /\ Pend(o.work[h]) = Busy(o, h)
  BY DEF Pend, OpenAt, Unconfirmed, Busy

LEMMA TidyIsOneStage ==
    ASSUME Tidy(order)
    PROVE  OneStageAtATime
<1>1. OneOpenStage
  BY PendIsBusy DEF Tidy, TidyAt, OneHand, OneOpenStage
<1>2. ClosedIsDone
  <2> SUFFICES ASSUME NEW t \in Live(order) \ Running(order)
               PROVE  /\ order.sheet[t].pending = 0
                      /\ OpenAt(order, t) \cup Unconfirmed(order, t) = {}
                      /\ order.sheet[t].outcome = "FINISH" =>
                             /\ LastStage(order.work[t]) = PLATING
                             /\ order.sheet[t].good = LastOf(order.work[t]).returned
    BY DEF ClosedIsDone
  <2>1. t \in Tickets /\ order.sheet[t].live /\ order.sheet[t].outcome # "NONE"
    BY DEF Live, Running
  <2> QED
    BY <2>1, PendIsBusy, LiveAreTickets DEF Tidy, TidyAt, Settled
<1> QED
  BY <1>1, <1>2 DEF OneStageAtATime

(* All sheets but one stay.                                                 *)
LEMMA TidyElse ==
    ASSUME NEW o, Tidy(o), NEW p, NEW h, TidyAt(p, h),
           \A g \in Holders : g # h => p.sheet[g] = o.sheet[g] /\ p.work[g] = o.work[g]
    PROVE  Tidy(p)
  BY DEF Tidy, TidyAt

(* The entries stay, and nothing is opened or closed.                       *)
LEMMA TidyCards ==
    ASSUME NEW o, Tidy(o), NEW p, p.work = o.work,
           \A h \in Holders : p.sheet[h].pending = 0 \/ p.sheet[h].pending = o.sheet[h].pending,
           \A t \in Tickets : p.sheet[t].live /\ p.sheet[t].outcome # "NONE" =>
               /\ o.sheet[t].live /\ p.sheet[t].outcome = o.sheet[t].outcome
               /\ p.sheet[t].good = o.sheet[t].good
    PROVE  Tidy(p)
<1>1. ASSUME NEW h \in Holders PROVE TidyAt(p, h)
  <2>1. TidyAt(o, h)
    BY DEF Tidy
  <2>2. OneHand(p.sheet[h], p.work[h])
    BY <2>1 DEF TidyAt, OneHand
  <2>3. ASSUME h \in Tickets PROVE Settled(p.sheet[h], p.work[h])
    BY <2>1, <2>3 DEF TidyAt, Settled
  <2> QED
    BY <2>2, <2>3 DEF TidyAt
<1> QED
  BY <1>1 DEF Tidy

LEMMA TidySame ==
    ASSUME NEW o, Tidy(o), NEW p, p.work = o.work, p.sheet = o.sheet
    PROVE  Tidy(p)
  BY DEF Tidy, TidyAt

(* A sheet with nothing out may be opened.                                  *)
LEMMA TidyOpens ==
    ASSUME NEW o, Tidy(o), NEW h \in Holders, NEW p, p.work = o.work,
           \A g \in Holders : g # h => p.sheet[g] = o.sheet[g],
           Pend(o.work[h]) = {}, h \in Tickets => p.sheet[h].outcome = "NONE"
    PROVE  Tidy(p)
<1>1. TidyAt(p, h)
  BY DEF TidyAt, OneHand, Settled
<1> QED
  BY <1>1, TidyElse

(* What is out of a sheet goes on, or comes back.                           *)
LEMMA PendGoes ==
    ASSUME NEW w, NEW v, NEW i \in Pend(w), Pend(w) \subseteq {Len(w)},
           Len(v) = Len(w), DOMAIN v = DOMAIN w, \A j \in DOMAIN w : j # i => v[j] = w[j]
    PROVE  /\ i = Len(v) /\ Pend(v) \subseteq {Len(v)}
           /\ v[i].returned # NotYet /\ v[i].confirmed => Pend(v) = {}
  BY DEF Pend

LEMMA TidyTouched ==
    ASSUME NEW o \in Orders, Tidy(o), Whole(o), NEW h \in Holders, NEW i \in Pend(o.work[h]), NEW p,
           p.sheet = o.sheet, Len(p.work[h]) = Len(o.work[h]), DOMAIN p.work[h] = DOMAIN o.work[h],
           \A j \in DOMAIN o.work[h] : j # i => p.work[h][j] = o.work[h][j],
           \A g \in Holders : g # h => p.work[g] = o.work[g]
    PROVE  /\ Tidy(p) /\ i = Len(p.work[h]) /\ p.sheet[h].pending = 0
           /\ h \in Tickets => p.sheet[h].live /\ p.sheet[h].outcome = "NONE"
           /\ p.work[h][i].returned # NotYet /\ p.work[h][i].confirmed => Pend(p.work[h]) = {}
<1>1. TidyAt(o, h) /\ Pend(o.work[h]) # {} /\ i \in DOMAIN o.work[h]
  BY DEF Tidy, Pend
<1>2. /\ i = Len(p.work[h]) /\ Pend(p.work[h]) \subseteq {Len(p.work[h])}
      /\ p.work[h][i].returned # NotYet /\ p.work[h][i].confirmed => Pend(p.work[h]) = {}
  BY <1>1, PendGoes DEF TidyAt, OneHand
<1>3. p.sheet[h].pending = 0
  BY <1>1 DEF TidyAt, OneHand
<1>4. ASSUME h \in Tickets PROVE p.sheet[h].live /\ p.sheet[h].outcome = "NONE"
  <2>1. o.work[h] # <<>>
    BY <1>1
  <2> QED
    BY <1>1, <1>4, <2>1 DEF Whole, TidyAt, Settled
<1>5. TidyAt(p, h)
  BY <1>2, <1>3, <1>4 DEF TidyAt, OneHand, Settled
<1> QED
  BY <1>2, <1>3, <1>4, <1>5, TidyElse

(* A new entry on a sheet with nothing out.                                 *)
LEMMA TidyBegun ==
    ASSUME NEW o \in Orders, Tidy(o), NEW h \in Holders, Pend(o.work[h]) = {}, NEW e \in EntryValues,
           NEW p, p.work[h] = Append(o.work[h], e), p.sheet[h].pending = 0,
           h \in Tickets => p.sheet[h].outcome = "NONE",
           \A g \in Holders : g # h => p.sheet[g] = o.sheet[g] /\ p.work[g] = o.work[g]
    PROVE  Tidy(p)
<1>1. o.work[h] \in Seq(EntryValues)
  BY SheetParts
<1>2. \A i \in DOMAIN p.work[h] : i = Len(p.work[h]) \/ (i \in DOMAIN o.work[h] /\ p.work[h][i] = o.work[h][i])
  BY <1>1
<1>3. Pend(p.work[h]) \subseteq {Len(p.work[h])}
  BY <1>2 DEF Pend
<1>4. TidyAt(p, h)
  BY <1>3 DEF TidyAt, OneHand, Settled
<1> QED
  BY <1>4, TidyElse

(* A ticket with nothing out is closed.                                     *)
LEMMA TidyClosed ==
    ASSUME NEW o \in Orders, Tidy(o), NEW t \in Tickets, Pend(o.work[t]) = {}, NEW end \in Outcomes,
           end = "FINISH" => LastStage(o.work[t]) = PLATING, NEW p, p = Close(o, t, end)
    PROVE  Tidy(p)
<1>1. t \in Holders
  BY LiveAreTickets
<1>2. /\ p.work = o.work /\ p.sheet[t].pending = 0 /\ p.sheet[t].outcome = end
      /\ end = "FINISH" => p.sheet[t].good = Available(o, t)
      /\ \A g \in Holders : g # t => p.sheet[g] = o.sheet[g]
  BY <1>1, CloseShape
<1>3. ASSUME end = "FINISH" PROVE Available(o, t) = LastOf(o.work[t]).returned
  <2>1. o.work[t] # <<>>
    BY <1>3, StageNumbers DEF LastStage
  <2>2. Len(o.work[t]) \in DOMAIN o.work[t] /\ LastOf(o.work[t]) = o.work[t][Len(o.work[t])]
    BY <1>1, <2>1, LastParts
  <2>3. LastOf(o.work[t]).returned # NotYet
    BY <2>2 DEF Pend
  <2> QED
    BY <2>1, <2>3 DEF Available
<1>4. TidyAt(p, t)
  BY <1>2, <1>3 DEF TidyAt, OneHand, Settled
<1> QED
  BY <1>2, <1>4, TidyElse

-----------------------------------------------------------------------------
(* Which steps leave what they find in order.  Dividing the order first.    *)
LEMMA DivideTidy ==
    ASSUME CoreInv, Tidy(order), Split \/ CreateTicket \/ UpdateTicket \/ ClearSplit \/ RemoveTicket
    PROVE  Tidy(order')
<1>1. order \in Orders /\ order'.work = order.work
  BY DivideCore, UpdateTicketCore DEF CoreInv
<1>2. order.sheet \in [Holders -> SheetValues] /\ Tickets \subseteq Holders /\ Parent \notin Tickets
  BY <1>1, OrderParts, LiveAreTickets
<1>3. \A n \in 0..OrderQty : Sheet(n).pending = 0 /\ Sheet(n).outcome = "NONE"
  BY DEF Sheet
<1> SUFFICES \A h \in Holders :
                 \/ order'.sheet[h].pending = 0 /\ order'.sheet[h].outcome = "NONE"
                 \/ /\ order'.sheet[h].pending = order.sheet[h].pending
                    /\ order'.sheet[h].live = order.sheet[h].live
                    /\ order'.sheet[h].outcome = order.sheet[h].outcome
                    /\ order'.sheet[h].good = order.sheet[h].good
  BY <1>1, <1>2, TidyCards
<1>4. CASE Split
  <2> DEFINE new(ts, f) == [order EXCEPT !.sheet =
                 [h \in Holders |-> IF h \in ts THEN Sheet(f[h]) ELSE order.sheet[h]]]
  <2>1. \E ts \in SUBSET Tickets : \E f \in [ts -> 1..OrderQty] : Mutate(new(ts, f))
    BY <1>4 DEF Split
  <2> HIDE DEF new
  <2>2. PICK ts, f : order' = new(ts, f)
    BY <2>1 DEF Mutate
  <2>0. order'.sheet = [h \in Holders |-> IF h \in ts THEN Sheet(f[h]) ELSE order.sheet[h]]
    BY <1>1, <2>2 DEF Orders, new
  <2>3. ASSUME NEW h \in Holders, h \in ts
        PROVE  order'.sheet[h].pending = 0 /\ order'.sheet[h].outcome = "NONE"
    BY <2>0, <2>3 DEF Sheet
  <2>4. ASSUME NEW h \in Holders, h \notin ts
        PROVE  order'.sheet[h] = order.sheet[h]
    BY <2>0, <2>4
  <2> QED
    BY <2>3, <2>4
<1>5. CASE CreateTicket \/ RemoveTicket
  <2>1. PICK t \in Tickets, n \in 0..OrderQty : order' = [order EXCEPT !.sheet[t] = Sheet(n)]
    BY <1>5, SizeAssumption DEF CreateTicket, RemoveTicket, Mutate, Live
  <2>2. order'.sheet = [order.sheet EXCEPT ![t] = Sheet(n)]
    BY <1>1, <2>1 DEF Orders
  <2> QED
    BY <1>2, <1>3, <2>2
<1>6. CASE ClearSplit
  <2>1. order' = [order EXCEPT !.sheet =
                     [h \in Holders |-> IF h = Parent THEN order.sheet[h] ELSE Sheet(0)]]
    BY <1>6 DEF ClearSplit, Mutate
  <2>2. order'.sheet = [h \in Holders |-> IF h = Parent THEN order.sheet[h] ELSE Sheet(0)]
    BY <1>1, <2>1 DEF Orders
  <2> QED
    BY <2>2 DEF Sheet
<1>7. CASE UpdateTicket
  BY <1>7, UpdateTicketCore
<1> QED
  BY <1>4, <1>5, <1>6, <1>7

(* What a state says of the entries of a sheet.                             *)
LEMMA IdleHasNothingOut ==
    ASSUME NEW o \in Orders, NEW h \in Holders, StateOf(o, h) \in {"IDLE", "WAITING", "CLAIMED"}
    PROVE  /\ Pend(o.work[h]) = {} /\ OutcomeOf(o, h) = "NONE"
           /\ h \in Tickets => o.sheet[h].outcome = "NONE"
<1>1. OutcomeOf(o, h) \in Outcomes
  BY SheetParts DEF OutcomeOf, Outcomes
<1>2. OutcomeOf(o, h) = "NONE" /\ Busy(o, h) = {}
  BY <1>1 DEF StateOf, Outcomes
<1> QED
  BY <1>2, PendIsBusy, LiveAreTickets DEF OutcomeOf

LEMMA PendingTidy ==
    ASSUME CoreInv, Tidy(order),
           \/ OpenOrderStage \/ AssignOrder \/ Assign
           \/ CancelPending \/ CancelOrderPending \/ Unclaim \/ UnclaimOrder
    PROVE  Tidy(order')
<1>1. order \in Orders /\ order'.work = order.work
  BY PendingCore DEF CoreInv
<1>2. /\ Tickets \subseteq Holders /\ Parent \in Holders /\ Parent \notin Tickets
      /\ Live(order) \subseteq Tickets
  BY LiveAreTickets
<1>3. order.sheet \in [Holders -> SheetValues]
  BY <1>1, OrderParts
<1>4. CASE OpenOrderStage \/ AssignOrder
  <2>1. PICK card : order' = [order EXCEPT !.sheet[Parent] = card] /\ StateOf(order, Parent) = "IDLE"
    <3>1. CASE OpenOrderStage
      BY <3>1 DEF OpenOrderStage, Mutate
    <3>2. CASE AssignOrder
      <4>1. PICK s, n : order' = [order EXCEPT !.sheet[Parent].pending = s,
                                      !.sheet[Parent].claimed = TRUE, !.sheet[Parent].give = n]
                        /\ StateOf(order, Parent) = "IDLE"
        BY Zenon, <3>2 DEF AssignOrder, Mutate
      <4>2. order' = [order EXCEPT !.sheet[Parent] =
                         [order.sheet[Parent] EXCEPT !.pending = s, !.claimed = TRUE, !.give = n]]
        BY <1>1, <1>2, <1>3, <4>1 DEF Orders
      <4> QED
        BY <4>1, <4>2
    <3> QED
      BY <1>4, <3>1, <3>2
  <2>2. \A g \in Holders : g # Parent => order'.sheet[g] = order.sheet[g]
    BY <1>1, <1>2, <1>3, <2>1 DEF Orders
  <2>3. Pend(order.work[Parent]) = {}
    BY <1>1, <1>2, <2>1, IdleHasNothingOut
  <2> QED
    BY <1>1, <1>2, <2>2, <2>3, TidyOpens
<1>5. CASE Assign
  <2>1. PICK t, s :
          /\ t \in Live(order)
          /\ order' = [order EXCEPT !.sheet[t].pending = s, !.sheet[t].claimed = TRUE]
          /\ StateOf(order, t) = "IDLE"
    BY Zenon, <1>5 DEF Assign, MutateTicket
  <2>2. order'.sheet = [order.sheet EXCEPT ![t] = [order.sheet[t] EXCEPT !.pending = s, !.claimed = TRUE]]
    BY <1>1, <1>2, <1>3, <2>1 DEF Orders
  <2>3. Pend(order.work[t]) = {} /\ order.sheet[t].outcome = "NONE"
    BY <1>1, <1>2, <2>1, IdleHasNothingOut
  <2>4. order'.sheet[t].outcome = "NONE"
    BY <1>2, <1>3, <2>1, <2>2, <2>3 DEF SheetValues
  <2>5. t \in Holders /\ \A g \in Holders : g # t => order'.sheet[g] = order.sheet[g]
    BY <1>2, <1>3, <2>1, <2>2
  <2> QED
    BY <1>1, <1>2, <2>1, <2>3, <2>4, <2>5, TidyOpens
<1>6. CASE CancelPending \/ CancelOrderPending \/ Unclaim \/ UnclaimOrder
  <2>1. PICK h \in Holders, d \in BOOLEAN :
          order' = [order EXCEPT !.sheet[h] =
              IF d THEN ClearPending(order.sheet[h]) ELSE [order.sheet[h] EXCEPT !.claimed = FALSE]]
    BY <1>2, <1>6 DEF CancelPending, CancelOrderPending, Unclaim, UnclaimOrder, Mutate, MutateTicket
  <2> DEFINE a == ClearPending(order.sheet[h])
             b == [order.sheet[h] EXCEPT !.claimed = FALSE]
  <2>2. order'.sheet = [order.sheet EXCEPT ![h] = IF d THEN a ELSE b]
    BY <1>1, <2>1 DEF Orders
  <2>3. a.pending = 0 /\ a.live = order.sheet[h].live
        /\ a.outcome = order.sheet[h].outcome /\ a.good = order.sheet[h].good
    BY <1>3, ClearedShape
  <2>4. b.pending = order.sheet[h].pending /\ b.live = order.sheet[h].live
        /\ b.outcome = order.sheet[h].outcome /\ b.good = order.sheet[h].good
    BY <1>3 DEF SheetValues
  <2> HIDE DEF a, b
  <2>5. \A g \in Holders :
          /\ order'.sheet[g].pending = 0 \/ order'.sheet[g].pending = order.sheet[g].pending
          /\ order'.sheet[g].live = order.sheet[g].live
          /\ order'.sheet[g].outcome = order.sheet[g].outcome
          /\ order'.sheet[g].good = order.sheet[g].good
    BY <1>3, <2>2, <2>3, <2>4
  <2> QED
    BY <1>1, <1>2, <2>5, TidyCards
<1> QED
  BY <1>4, <1>5, <1>6

-----------------------------------------------------------------------------
(* What the steps do to the one sheet they are about, and what they leave.   *)
Alike(c, d) ==
    d.live = c.live /\ d.qty = c.qty /\ d.outcome = c.outcome /\ d.good = c.good
OthersStay(o, p, h) == \A g \in Holders : g # h => p.sheet[g] = o.sheet[g] /\ p.work[g] = o.work[g]

(* Entry i of sheet h becomes e, and nothing else changes.                  *)
Rewrites(o, p, h, i, e) ==
    /\ p.sheet = o.sheet /\ p.skip = o.skip /\ p.receipt = o.receipt /\ p.status = o.status
    /\ p.work[h][i] = e /\ Len(p.work[h]) = Len(o.work[h]) /\ DOMAIN p.work[h] = DOMAIN o.work[h]
    /\ \A j \in DOMAIN o.work[h] : j # i => p.work[h][j] = o.work[h][j]
    /\ \A g \in Holders : g # h => p.work[g] = o.work[g]

LEMMA RewriteShape ==
    ASSUME NEW o \in Orders, NEW h \in Holders, NEW i \in DOMAIN o.work[h], NEW e \in EntryValues,
           NEW p, p = [o EXCEPT !.work[h][i] = e]
    PROVE  p \in Orders /\ Rewrites(o, p, h, i, e)
  BY OneEntryShape DEF Rewrites

LEMMA ReportShape ==
    ASSUME CoreInv, \/ Submit \/ SubmitOrder \/ ReportStageDefect
                    \/ Unsubmit \/ UnsubmitOrder \/ ClearStageDefect \/ CreateRework
    PROVE  \E h \in Holders : \E i \in DOMAIN order.work[h], e \in EntryValues :
               /\ Rewrites(order, order', h, i, e) /\ req' = [d \in Clients |-> Stale(req[d])]
               /\ Quiet
               /\ LET old == order.work[h][i]
                  IN  /\ e.stage = old.stage /\ e.handed = old.handed /\ e.returned = old.returned
                      /\ e.defect = old.defect /\ e.confirmed = old.confirmed
                      /\ e.done = old.done \/ old.returned = NotYet
<1>1. order \in Orders
  BY DEF CoreInv
<1>2. /\ Live(order) \subseteq Holders /\ Parent \in Holders /\ Sheets \subseteq Holders
  BY LiveAreTickets DEF Sheets
<1>3. CASE CreateRework
  <2>1. PICK h \in Holders : \E j \in DOMAIN order.work[h] :
          Mutate([order EXCEPT !.work[h][j].rework = TRUE])
    BY <1>3 DEF CreateRework
  <2>2. PICK i \in DOMAIN order.work[h] : Mutate([order EXCEPT !.work[h][i].rework = TRUE])
    BY <2>1
  <2> DEFINE old == order.work[h][i]
             e == [old EXCEPT !.rework = TRUE]
             p == [order EXCEPT !.work[h][i] = e]
  <2>3. old \in EntryValues
    BY <1>1, EntryParts
  <2>4. /\ e \in EntryValues /\ e.stage = old.stage /\ e.handed = old.handed
        /\ e.returned = old.returned /\ e.defect = old.defect /\ e.confirmed = old.confirmed
        /\ e.done = old.done
    <3> HIDE DEF old
    <3> QED
      BY <2>3 DEF EntryValues
  <2>5. Mutate(p)
    BY <2>2
  <2> HIDE DEF e
  <2>6. p \in Orders /\ Rewrites(order, p, h, i, e)
    BY <1>1, <2>4, RewriteShape
  <2> HIDE DEF p
  <2> QED
    BY <2>4, <2>5, <2>6 DEF Mutate
<1>4. CASE ~CreateRework
  <2>1. \E g \in Holders : ReportDone(g) \/ TakeBackDone(g)
    BY <1>2, <1>4 DEF Submit, SubmitOrder, ReportStageDefect, Unsubmit, UnsubmitOrder, ClearStageDefect
  <2>2. PICK h \in Holders : ReportDone(h) \/ TakeBackDone(h)
    BY <2>1
  <2> DEFINE i == FirstOpen(h)
             old == order.work[h][i]
  <2>3. PICK d \in BOOLEAN : Mutate([order EXCEPT !.work[h][i].done = d])
    BY <2>2 DEF ReportDone, TakeBackDone
  <2>4. OpenAt(order, h) # {}
    BY <2>2 DEF ReportDone, TakeBackDone
  <2>5. i \in DOMAIN order.work[h] /\ old.returned = NotYet
    BY <1>1, <2>4, FirstOpenEntry DEF FirstOpen
  <2> DEFINE e == [old EXCEPT !.done = d]
             p == [order EXCEPT !.work[h][i] = e]
  <2>6. old \in EntryValues
    BY <1>1, <2>5, EntryParts
  <2>7. /\ e \in EntryValues /\ e.stage = old.stage /\ e.handed = old.handed
        /\ e.returned = old.returned /\ e.defect = old.defect /\ e.confirmed = old.confirmed
    <3> HIDE DEF old
    <3> QED
      BY <2>6 DEF EntryValues
  <2>8. Mutate(p)
    BY <2>3
  <2> HIDE DEF e
  <2>9. p \in Orders /\ Rewrites(order, p, h, i, e)
    <3> HIDE DEF i
    <3> QED
      BY <1>1, <2>5, <2>7, RewriteShape
  <2> HIDE DEF p, i
  <2> QED
    BY <2>5, <2>7, <2>8, <2>9 DEF Mutate
<1> QED
  BY <1>3, <1>4

LEMMA BeginShape ==
    ASSUME CoreInv, NEW h \in Holders, NEW s \in Stages, NEW n \in Amount, Begin(h, s, n)
    PROVE  /\ OthersStay(order, order', h) /\ order'.skip = order.skip /\ order'.receipt = order.receipt
           /\ order'.work[h] = Append(order.work[h], Entry(s, n))
           /\ Alike(order.sheet[h], order'.sheet[h])
           /\ order'.sheet[h].pending = 0 /\ ~order'.sheet[h].claimed /\ order'.sheet[h].give = 0
           /\ order'.status = IF h = Parent THEN At(s)
                              ELSE DeriveStatus([order' EXCEPT !.status = At(FILING)])
           /\ order' \in Orders /\ Quiet /\ req' = [d \in Clients |-> Stale(req[d])]
<1> DEFINE e == Entry(s, n)
           c == ClearPending(order.sheet[h])
           o == [order EXCEPT !.sheet[h] = c, !.work[h] = Append(order.work[h], e)]
           x == IF h = Parent THEN At(s) ELSE DeriveStatus([o EXCEPT !.status = At(FILING)])
           p == Begun(order, h, c, e, x)
<1>1. order \in Orders
  BY DEF CoreInv
<1>2. Mutate(p) /\ p = [o EXCEPT !.status = x]
  BY DEF Begin, Begun
<1>3. [p EXCEPT !.status = At(FILING)] = [o EXCEPT !.status = At(FILING)]
  BY <1>1, <1>2 DEF Orders
<1>4. x = IF h = Parent THEN At(s) ELSE DeriveStatus([p EXCEPT !.status = At(FILING)])
  <2> HIDE DEF o, p
  <2> QED
    BY <1>3
<1>5. /\ c \in SheetValues /\ c.pending = 0 /\ ~c.claimed /\ c.give = 0 /\ Alike(order.sheet[h], c)
  BY <1>1, SheetParts, ClearedShape DEF Alike
<1>6. e \in EntryValues
  BY EntryShape
<1> HIDE DEF c, e
<1>7. x \in NEW_ORDER..FINISHING
  <2>1. CASE h = Parent
    BY <2>1, StageNumbers, StatusNumbers
  <2>2. CASE h # Parent
    <3> DEFINE first == At(FILING)
               q == Begun(order, h, c, e, first)
    <3>1. first \in NEW_ORDER..FINISHING
      BY StageNumbers, StatusNumbers
    <3> HIDE DEF first
    <3>2. q \in Orders
      BY <1>1, <1>5, <1>6, <3>1, BegunShape
    <3>3. x = DeriveStatus(q)
      BY <2>2 DEF first, Begun
    <3> HIDE DEF q
    <3> QED
      BY <3>2, <3>3, DeriveStatusType
  <2> QED
    BY <2>1, <2>2
<1> HIDE DEF x
<1>8. /\ p \in Orders
      /\ p.skip = order.skip /\ p.receipt = order.receipt /\ p.status = x
      /\ p.sheet[h] = c /\ p.work[h] = Append(order.work[h], e)
      /\ \A g \in Holders : g # h => p.sheet[g] = order.sheet[g] /\ p.work[g] = order.work[g]
  BY <1>1, <1>5, <1>6, <1>7, BegunShape
<1> HIDE DEF p
<1>9. order' = p /\ Quiet /\ req' = [d \in Clients |-> Stale(req[d])]
  BY <1>2 DEF Mutate
<1> QED
  BY <1>4, <1>5, <1>8, <1>9 DEF OthersStay, e

(* The keeper confirms entry i of sheet h; p is the order before it is       *)
(* brought up to date.                                                      *)
LEMMA ConfirmShape ==
    ASSUME CoreInv, ConfirmStage
    PROVE  \E h \in Holders : \E i \in Unconfirmed(order, h), p \in Orders, closed \in BOOLEAN :
               /\ h \in Live(order) \/ (h = Parent /\ Live(order) = {})
               /\ order.work[h][i].stage \in KEEPER_CONFIRM_STAGES
               /\ Confirms(order.work, p.work, h, i) /\ p.work[h][i].defect = order.work[h][i].defect
               /\ p.skip = order.skip /\ p.receipt = order.receipt
               /\ \A g \in Holders : g # h => p.sheet[g] = order.sheet[g]
               /\ closed = (order.work[h][i].returned = 0)
               /\ ~closed => p.sheet = order.sheet /\ p.status = order.status
               /\ closed => /\ p.sheet[h].pending = 0 /\ ~p.sheet[h].claimed
                            /\ p.sheet[h].live = order.sheet[h].live
                            /\ p.sheet[h].qty = order.sheet[h].qty
               /\ closed /\ h # Parent => p.sheet[h].outcome = "DEFECT" /\ p.status = order.status
               /\ closed /\ h = Parent =>
                      /\ Alike(order.sheet[h], p.sheet[h])
                      /\ p.status = DefectOf(order.work[h][i].stage)
               /\ order' = SyncOrderAfterStage(p, closed)
               /\ Quiet /\ req' = [d \in Clients |-> Stale(req[d])]
<1>1. order \in Orders
  BY DEF CoreInv
<1>2. PICK h \in Sheets : \E i \in Unconfirmed(order, h) :
        LET e == order.work[h][i]
            o == [order EXCEPT !.work[h][i].confirmed = TRUE]
            nothing == e.returned = 0
        IN  /\ e.stage \in KEEPER_CONFIRM_STAGES
            /\ Mutate(SyncOrderAfterStage(
               IF ~nothing THEN o
               ELSE IF h # Parent THEN Close(o, h, "DEFECT")
               ELSE [o EXCEPT !.sheet[h] = ClearPending(o.sheet[h]), !.status = DefectOf(e.stage)],
               nothing))
  BY Zenon DEF ConfirmStage
<1>3. PICK i \in Unconfirmed(order, h) :
        LET e == order.work[h][i]
            o == [order EXCEPT !.work[h][i].confirmed = TRUE]
            nothing == e.returned = 0
        IN  /\ e.stage \in KEEPER_CONFIRM_STAGES
            /\ Mutate(SyncOrderAfterStage(
               IF ~nothing THEN o
               ELSE IF h # Parent THEN Close(o, h, "DEFECT")
               ELSE [o EXCEPT !.sheet[h] = ClearPending(o.sheet[h]), !.status = DefectOf(e.stage)],
               nothing))
  BY Zenon, <1>2
<1> DEFINE old == order.work[h][i]
           e == [old EXCEPT !.confirmed = TRUE]
           o == [order EXCEPT !.work[h][i] = e]
           card == ClearPending(o.sheet[h])
           kind == DefectOf(old.stage)
           end == Close(o, h, "DEFECT")
           cleared == [o EXCEPT !.sheet[h] = card, !.status = kind]
           p == IF old.returned # 0 THEN o ELSE IF h # Parent THEN end ELSE cleared
           closed == old.returned = 0
           q == SyncOrderAfterStage(p, closed)
<1>4. /\ h \in Live(order) \/ (h = Parent /\ Live(order) = {})
      /\ i \in DOMAIN order.work[h]
  BY LiveAreTickets DEF Sheets, Unconfirmed
<1>5. h \in Holders
  BY <1>4, LiveAreTickets
<1>6. old \in EntryValues
  BY <1>1, <1>4, <1>5, EntryParts
<1>7. /\ e \in EntryValues /\ e.stage = old.stage /\ e.returned = old.returned
      /\ e.defect = old.defect /\ e.confirmed
  <2> HIDE DEF old
  <2> QED
    BY <1>6 DEF EntryValues
<1>8. Mutate(q) /\ old.stage \in KEEPER_CONFIRM_STAGES
  BY <1>3
<1> HIDE DEF e
<1>9. o \in Orders /\ Rewrites(order, o, h, i, e)
  BY <1>1, <1>4, <1>5, <1>7, RewriteShape
<1>10. Confirms(order.work, o.work, h, i) /\ o.work[h][i].defect = old.defect
  BY <1>4, <1>7, <1>9 DEF Confirms, Rewrites
<1> HIDE DEF o
<1>11. order' = q /\ Quiet /\ req' = [d \in Clients |-> Stale(req[d])]
  BY <1>8 DEF Mutate
<1>12. closed \in BOOLEAN
  OBVIOUS
<1> SUFFICES /\ p \in Orders /\ p.work = o.work /\ p.skip = o.skip /\ p.receipt = o.receipt
             /\ \A g \in Holders : g # h => p.sheet[g] = o.sheet[g]
             /\ ~closed => p.sheet = o.sheet /\ p.status = o.status
             /\ closed => /\ p.sheet[h].pending = 0 /\ ~p.sheet[h].claimed
                          /\ p.sheet[h].live = o.sheet[h].live /\ p.sheet[h].qty = o.sheet[h].qty
             /\ closed /\ h # Parent => p.sheet[h].outcome = "DEFECT" /\ p.status = o.status
             /\ closed /\ h = Parent => Alike(o.sheet[h], p.sheet[h]) /\ p.status = kind
  <2>1. /\ o.sheet = order.sheet /\ o.status = order.status /\ o.skip = order.skip
        /\ o.receipt = order.receipt
    BY <1>9 DEF Rewrites
  <2> HIDE DEF p, q, closed
  <2>2. /\ \A g \in Holders : g # h => p.sheet[g] = order.sheet[g]
        /\ ~closed => p.sheet = order.sheet /\ p.status = order.status
        /\ closed => /\ p.sheet[h].pending = 0 /\ ~p.sheet[h].claimed
                     /\ p.sheet[h].live = order.sheet[h].live
                     /\ p.sheet[h].qty = order.sheet[h].qty
        /\ closed /\ h # Parent => p.sheet[h].outcome = "DEFECT" /\ p.status = order.status
        /\ closed /\ h = Parent => Alike(order.sheet[h], p.sheet[h]) /\ p.status = kind
        /\ p.skip = order.skip /\ p.receipt = order.receipt
    BY <2>1
  <2>3. /\ Confirms(order.work, p.work, h, i) /\ p.work[h][i].defect = order.work[h][i].defect
    BY <1>10
  <2>4. order' = SyncOrderAfterStage(p, closed)
    BY <1>11 DEF q
  <2>5. closed = (order.work[h][i].returned = 0)
    BY DEF closed
  <2>6. order.work[h][i].stage \in KEEPER_CONFIRM_STAGES
    BY <1>8
  <2> QED
    BY <1>4, <1>5, <1>11, <1>12, <2>2, <2>3, <2>4, <2>5, <2>6
<1>13. CASE ~closed
  BY <1>9, <1>13
<1>14. CASE closed /\ h # Parent
  <2>1. p = end
    BY <1>14
  <2>2. "DEFECT" \in Outcomes
    BY DEF Outcomes
  <2>3. /\ end \in Orders
        /\ end.work = o.work /\ end.skip = o.skip /\ end.receipt = o.receipt /\ end.status = o.status
        /\ end.sheet[h].live = o.sheet[h].live /\ end.sheet[h].qty = o.sheet[h].qty
        /\ end.sheet[h].pending = 0 /\ ~end.sheet[h].claimed /\ end.sheet[h].outcome = "DEFECT"
        /\ \A g \in Holders : g # h => end.sheet[g] = o.sheet[g]
    BY <1>5, <1>9, <2>2, CloseShape
  <2> HIDE DEF p, end
  <2> QED
    BY <1>14, <2>1, <2>3
<1>15. CASE closed /\ h = Parent
  <2>1. p = cleared
    BY <1>15
  <2>2. /\ card \in SheetValues /\ card.pending = 0 /\ ~card.claimed /\ Alike(o.sheet[h], card)
    BY <1>5, <1>9, ClearedShape, SheetParts DEF Alike
  <2>3. kind \in NEW_ORDER..FINISHING
    BY DefectOfType, StatusNumbers
  <2> HIDE DEF card, kind
  <2> DEFINE r == [o EXCEPT !.sheet[h] = card]
             s == [r EXCEPT !.status = kind]
  <2>4. /\ r \in Orders /\ r.work = o.work /\ r.skip = o.skip
        /\ r.receipt = o.receipt /\ r.status = o.status
        /\ r.sheet[h] = card /\ \A g \in Holders : g # h => r.sheet[g] = o.sheet[g]
    BY <1>5, <1>9, <2>2, OneSheetShape
  <2>5. cleared = s
    OBVIOUS
  <2> HIDE DEF r
  <2>6. /\ s \in Orders /\ s.status = kind /\ s.skip = r.skip
        /\ s.sheet = r.sheet /\ s.work = r.work /\ s.receipt = r.receipt
    BY <2>3, <2>4, StatusShape
  <2> HIDE DEF s, cleared, p, closed
  <2> QED
    BY <1>15, <2>1, <2>2, <2>4, <2>5, <2>6 DEF Alike
<1> QED
  BY <1>13, <1>14, <1>15

(* What opens or ends by itself when quality control has taken entry e back. *)
LEMMA AdvanceShape ==
    ASSUME NEW o \in Orders, NEW h \in Holders, NEW e \in EntryValues,
           e.stage \notin KEEPER_CONFIRM_STAGES, NEW p, p = AdvanceAfterQc(o, h, e)
    PROVE  \/ /\ p = o
              /\ \/ h # Parent /\ o.sheet[h].outcome # "NONE"
                 \/ h = Parent /\ Live(o) # {}
                 \/ o.sheet[h].pending # 0
                 \/ h = Parent /\ o.receipt.qty > 0
           \/ /\ e.stage \in {ENGRAVING, POLISHING} /\ o.sheet[h].pending = 0
              /\ h # Parent => o.sheet[h].outcome = "NONE"
              /\ h = Parent => Live(o) = {}
              /\ p \in Orders /\ OthersStay(o, p, h) /\ p.work = o.work /\ p.skip = o.skip
              /\ p.receipt = o.receipt /\ p.status = o.status
              /\ Alike(o.sheet[h], p.sheet[h]) /\ p.sheet[h].pending = e.stage + 1
              /\ ~p.sheet[h].claimed
           \/ /\ e.stage = PLATING /\ h # Parent /\ o.sheet[h].outcome = "NONE"
              /\ p = SyncOrder(Close(o, h, "FINISH"))
           \/ /\ e.stage = PLATING /\ h = Parent /\ Live(o) = {} /\ o.receipt.qty = 0
              /\ p.sheet = o.sheet /\ p.work = o.work /\ p.skip = o.skip /\ p.status = PLATED
<1>1. e.stage \in {ENGRAVING, POLISHING, PLATING}
  BY StageNumbers DEF EntryValues
<1> DEFINE next == e.stage + 1
           c == o.sheet[h]
           card == Prepared(c, next, FALSE, c.give)
           opened == [o EXCEPT !.sheet[h] = card]
           receipt == [qty |-> e.returned, stocked |-> 0]
           plated == [o EXCEPT !.receipt = receipt, !.status = PLATED]
           beside == (h # Parent /\ o.sheet[h].outcome # "NONE") \/ (h = Parent /\ Live(o) # {})
<1>2. [o EXCEPT !.sheet[h].pending = next, !.sheet[h].claimed = FALSE] = opened
  <2>1. [o EXCEPT !.sheet[h].pending = next, !.sheet[h].claimed = FALSE]
           = [o EXCEPT !.sheet[h] = [c EXCEPT !.pending = next, !.claimed = FALSE]]
    BY OrderParts DEF Orders
  <2>2. [c EXCEPT !.pending = next, !.claimed = FALSE] = card
    BY SheetParts DEF SheetValues, Prepared
  <2> QED
    BY <2>1, <2>2
<1>3. p = IF beside THEN o
          ELSE IF e.stage \in {ENGRAVING, POLISHING}
          THEN IF o.sheet[h].pending # 0 THEN o ELSE opened
          ELSE IF h # Parent THEN SyncOrder(Close(o, h, "FINISH"))
          ELSE IF o.receipt.qty > 0 THEN o ELSE plated
  <2> HIDE DEF opened, next
  <2> QED
    BY <1>2 DEF AdvanceAfterQc, next
<1>4. ASSUME e.stage \in {ENGRAVING, POLISHING}
      PROVE  /\ opened \in Orders /\ OthersStay(o, opened, h)
             /\ opened.work = o.work /\ opened.skip = o.skip
             /\ opened.receipt = o.receipt /\ opened.status = o.status
             /\ Alike(o.sheet[h], opened.sheet[h]) /\ opened.sheet[h].pending = next
             /\ ~opened.sheet[h].claimed
  <2>1. next \in Stages \cup {0} /\ c \in SheetValues /\ c.give \in Amount
    BY <1>4, SheetParts, StageNumbers
  <2>2. card \in SheetValues /\ Alike(c, card) /\ card.pending = next /\ ~card.claimed
    <3>1. PICK k \in BOOLEAN : ~k
      OBVIOUS
    <3>2. k = FALSE
      BY <3>1
    <3>3. card = Prepared(c, next, k, c.give)
      BY <3>2
    <3> HIDE DEF card, c, next
    <3>4. /\ card \in SheetValues /\ card.live = c.live /\ card.outcome = c.outcome
          /\ card.good = c.good /\ card.qty = c.qty /\ card.pending = next /\ card.claimed = k
      BY <2>1, <3>3, PreparedShape
    <3> QED
      BY <3>1, <3>4 DEF Alike
  <2> HIDE DEF card, next
  <2>3. /\ opened \in Orders /\ opened.work = o.work /\ opened.skip = o.skip
        /\ opened.receipt = o.receipt /\ opened.status = o.status
        /\ opened.sheet[h] = card /\ \A g \in Holders : g # h => opened.sheet[g] = o.sheet[g]
    BY <2>2, OneSheetShape
  <2> HIDE DEF opened
  <2> QED
    BY <2>2, <2>3 DEF OthersStay
<1>5. plated.sheet = o.sheet /\ plated.work = o.work /\ plated.skip = o.skip /\ plated.status = PLATED
  BY DEF Orders
<1>6. o.receipt.qty \in Nat
  BY OrderParts DEF Receipts
<1>7. ASSUME e.stage \in {ENGRAVING, POLISHING} PROVE opened.sheet[h].pending = e.stage + 1
  BY <1>4, <1>7
<1>8. CASE beside
  BY <1>3, <1>8
<1>9. CASE ~beside /\ e.stage \in {ENGRAVING, POLISHING}
  <2>1. p = IF o.sheet[h].pending # 0 THEN o ELSE opened
    BY <1>3, <1>9
  <2> HIDE DEF opened, next
  <2> QED
    BY <1>4, <1>7, <1>9, <2>1
<1>10. CASE ~beside /\ e.stage = PLATING
  <2>1. e.stage \notin {ENGRAVING, POLISHING}
    BY <1>10, StageNumbers
  <2>2. p = IF h # Parent THEN SyncOrder(Close(o, h, "FINISH"))
            ELSE IF o.receipt.qty > 0 THEN o ELSE plated
    BY <1>3, <1>10, <2>1
  <2> HIDE DEF plated
  <2> QED
    BY <1>5, <1>6, <1>10, <2>2
<1> QED
  BY <1>1, <1>8, <1>9, <1>10

-----------------------------------------------------------------------------
(* Whether the goods are out or with the keeper does not change.            *)
LEMMA TidyEntry ==
    ASSUME NEW o, Tidy(o), NEW h \in Holders, NEW i \in DOMAIN o.work[h], NEW e, NEW p,
           Rewrites(o, p, h, i, e), e.stage = o.work[h][i].stage,
           e.returned = o.work[h][i].returned, e.confirmed = o.work[h][i].confirmed
    PROVE  Tidy(p)
<1>1. TidyAt(o, h)
  BY DEF Tidy
<1>2. /\ p.sheet = o.sheet /\ Len(p.work[h]) = Len(o.work[h]) /\ DOMAIN p.work[h] = DOMAIN o.work[h]
      /\ \A j \in DOMAIN o.work[h] :
             /\ p.work[h][j].stage = o.work[h][j].stage
             /\ p.work[h][j].returned = o.work[h][j].returned
             /\ p.work[h][j].confirmed = o.work[h][j].confirmed
      /\ \A g \in Holders : g # h => p.work[g] = o.work[g]
  BY DEF Rewrites
<1>3. Pend(p.work[h]) = Pend(o.work[h])
  BY <1>2 DEF Pend
<1>4. ASSUME Settled(o.sheet[h], o.work[h]), Pend(o.work[h]) = {}, o.sheet[h].outcome = "FINISH",
             o.sheet[h].live
      PROVE  /\ LastStage(p.work[h]) = PLATING
             /\ o.sheet[h].good = LastOf(p.work[h]).returned
  <2>1. LastStage(o.work[h]) = PLATING /\ o.sheet[h].good = LastOf(o.work[h]).returned
    BY <1>4 DEF Settled
  <2>2. CASE Len(o.work[h]) \in DOMAIN o.work[h]
    <3>1. p.work[h] # <<>> /\ o.work[h] # <<>>
      BY <1>2
    <3> QED
      BY <1>2, <2>1, <2>2, <3>1 DEF LastStage, LastOf
  <2>3. CASE Len(o.work[h]) \notin DOMAIN o.work[h]
    BY <2>3
  <2> QED
    BY <2>2, <2>3
<1>5. TidyAt(p, h)
  BY <1>1, <1>2, <1>3, <1>4 DEF TidyAt, OneHand, Settled
<1> QED
  BY <1>2, <1>5, TidyElse

LEMMA ReportTidy ==
    ASSUME CoreInv, Tidy(order),
           \/ Submit \/ SubmitOrder \/ ReportStageDefect
           \/ Unsubmit \/ UnsubmitOrder \/ ClearStageDefect \/ CreateRework
    PROVE  Tidy(order')
<1>1. PICK h \in Holders : \E i \in DOMAIN order.work[h], e \in EntryValues :
               /\ Rewrites(order, order', h, i, e)
               /\ e.stage = order.work[h][i].stage /\ e.returned = order.work[h][i].returned
               /\ e.confirmed = order.work[h][i].confirmed
  BY ReportShape
<1> QED
  BY <1>1, TidyEntry

LEMMA BeginTidy ==
    ASSUME CoreInv, Tidy(order), Accept \/ AcceptOrder \/ Take \/ TakeOrder
    PROVE  Tidy(order')
<1>1. order \in Orders
  BY DEF CoreInv
<1>2. PICK h \in Holders, s \in Stages, n \in Amount :
          Begin(h, s, n) /\ StateOf(order, h) \in {"CLAIMED", "WAITING"}
  BY WhoBegins
<1>3. Pend(order.work[h]) = {} /\ (h \in Tickets => order.sheet[h].outcome = "NONE")
  BY <1>1, <1>2, IdleHasNothingOut
<1>4. /\ OthersStay(order, order', h) /\ order'.work[h] = Append(order.work[h], Entry(s, n))
      /\ Alike(order.sheet[h], order'.sheet[h]) /\ order'.sheet[h].pending = 0
  BY <1>2, BeginShape
<1>5. Entry(s, n) \in EntryValues
  BY EntryShape
<1> QED
  BY <1>1, <1>3, <1>4, <1>5, TidyBegun DEF Alike, OthersStay

(* What a sheet with something out looks like.                              *)
LEMMA OutIsOpen ==
    ASSUME NEW o, Tidy(o), Whole(o), NEW h \in Holders, NEW i \in Pend(o.work[h])
    PROVE  /\ Pend(o.work[h]) \subseteq {Len(o.work[h])} /\ o.sheet[h].pending = 0
           /\ h \in Tickets => o.sheet[h].live /\ o.sheet[h].outcome = "NONE"
<1>1. TidyAt(o, h) /\ i \in DOMAIN o.work[h]
  BY DEF Tidy, Pend
<1>2. o.work[h] # <<>>
  BY <1>1
<1> QED
  BY <1>1, <1>2 DEF Whole, TidyAt, OneHand, Settled

LEMMA ConfirmTidy ==
    ASSUME CoreInv, Tidy(order), ConfirmStage
    PROVE  Tidy(order')
<1>1. order \in Orders /\ Whole(order)
  BY DEF CoreInv
<1>2. PICK h \in Holders : \E i \in Unconfirmed(order, h), p \in Orders, closed \in BOOLEAN :
               /\ Confirms(order.work, p.work, h, i)
               /\ \A g \in Holders : g # h => p.sheet[g] = order.sheet[g]
               /\ ~closed => p.sheet = order.sheet
               /\ closed => p.sheet[h].pending = 0
               /\ closed /\ h # Parent => p.sheet[h].outcome = "DEFECT"
               /\ order' = SyncOrderAfterStage(p, closed)
  BY ConfirmShape
<1>3. PICK i \in Unconfirmed(order, h), p \in Orders, closed \in BOOLEAN :
               /\ Confirms(order.work, p.work, h, i)
               /\ \A g \in Holders : g # h => p.sheet[g] = order.sheet[g]
               /\ ~closed => p.sheet = order.sheet
               /\ closed => p.sheet[h].pending = 0
               /\ closed /\ h # Parent => p.sheet[h].outcome = "DEFECT"
               /\ order' = SyncOrderAfterStage(p, closed)
  BY <1>2
<1>4. i \in Pend(order.work[h]) /\ order.work[h][i].returned # NotYet
  BY DEF Unconfirmed, Pend
<1>5. /\ Pend(order.work[h]) \subseteq {Len(order.work[h])} /\ order.sheet[h].pending = 0
      /\ h \in Tickets => order.sheet[h].live /\ order.sheet[h].outcome = "NONE"
  BY <1>1, <1>4, OutIsOpen
<1>6. Pend(p.work[h]) = {}
  BY <1>3, <1>4, <1>5, PendGoes DEF Confirms
<1>7. TidyAt(p, h)
  <2>1. p.sheet[h].pending = 0
    BY <1>3, <1>5
  <2>2. h \in Tickets => p.sheet[h].outcome # "FINISH"
    BY <1>3, <1>5, LiveAreTickets
  <2> QED
    BY <1>6, <2>1, <2>2 DEF TidyAt, OneHand, Settled
<1>8. Tidy(p)
  BY <1>3, <1>7, TidyElse DEF Confirms
<1>9. order'.sheet = p.sheet /\ order'.work = p.work
  BY <1>3, SyncAfterShape
<1> QED
  BY <1>8, <1>9, TidySame

LEMMA OutcomeTidy ==
    ASSUME CoreInv, Tidy(order), SetOutcome \/ ClearOutcome \/ SetStoneSkipped \/ StockReceipt
    PROVE  Tidy(order')
<1>1. order \in Orders /\ order'.work = order.work
  BY OutcomeCore DEF CoreInv
<1>2. /\ Tickets \subseteq Holders /\ Parent \in Holders /\ Parent \notin Tickets
      /\ Live(order) \subseteq Tickets
  BY LiveAreTickets
<1>3. CASE SetOutcome
  <2>1. PICK t \in Live(order), end \in {"FINISH", "DEFECT"} :
          /\ StateOf(order, t) = "IDLE"
          /\ end = "FINISH" => LastStageDone(order.work[t])
          /\ Mutate(SyncOrder(Close(order, t, end)))
    BY <1>3 DEF SetOutcome
  <2>2. end \in Outcomes /\ t \in Tickets /\ t \in Holders
    BY <1>2, <2>1 DEF Outcomes
  <2>3. end = "FINISH" => LastStage(order.work[t]) = PLATING
    BY <2>1 DEF LastStageDone
  <2>4. Pend(order.work[t]) = {}
    BY <1>1, <2>1, <2>2, IdleHasNothingOut
  <2> DEFINE o == Close(order, t, end)
             p == SyncOrder(o)
  <2>5. o \in Orders
    BY <1>1, <2>2, CloseShape
  <2>6. Tidy(o)
    BY <1>1, <2>2, <2>3, <2>4, TidyClosed
  <2>7. order' = p
    BY <2>1 DEF Mutate
  <2> HIDE DEF o
  <2>8. p.sheet = o.sheet /\ p.work = o.work
    BY <2>5, SyncShape
  <2> QED
    BY <2>6, <2>7, <2>8, TidySame
<1>4. CASE ClearOutcome
  <2>1. PICK t \in Live(order) :
          Mutate(SyncOrder([order EXCEPT !.sheet[t].outcome = "NONE", !.sheet[t].good = 0]))
    BY Zenon, <1>4 DEF ClearOutcome, Ended
  <2> DEFINE c == order.sheet[t]
             card == [c EXCEPT !.outcome = "NONE", !.good = 0]
             o == [order EXCEPT !.sheet[t] = card]
             p == SyncOrder(o)
  <2>2. c \in SheetValues /\ t \in Holders /\ t \in Tickets
    BY <1>1, <1>2, SheetParts
  <2>3. [order EXCEPT !.sheet[t].outcome = "NONE", !.sheet[t].good = 0] = o
    BY <1>1, <2>2, OrderParts DEF Orders
  <2>4. card \in SheetValues /\ card.outcome = "NONE" /\ card.pending = c.pending
    <3>1. 0 \in Amount /\ "NONE" \in Outcomes
      BY AmountIsNat DEF Outcomes
    <3> HIDE DEF c
    <3> QED
      BY <2>2, <3>1 DEF SheetValues
  <2>5. order' = p
    BY <2>1, <2>3 DEF Mutate
  <2> HIDE DEF card
  <2>6. /\ o \in Orders /\ o.work = order.work
        /\ o.sheet[t] = card /\ \A g \in Holders : g # t => o.sheet[g] = order.sheet[g]
    BY <1>1, <2>2, <2>4, OneSheetShape
  <2> HIDE DEF o
  <2>7. p.sheet = o.sheet /\ p.work = o.work
    BY <2>6, SyncShape
  <2> HIDE DEF p
  <2> QED
    BY <1>2, <2>4, <2>5, <2>6, <2>7, TidyCards
<1>5. CASE SetStoneSkipped \/ StockReceipt
  <2>1. order'.sheet = order.sheet
    BY Zenon, <1>1, <1>5 DEF SetStoneSkipped, StockReceipt, Mutate, Orders
  <2> QED
    BY <1>1, <2>1, TidySame
<1> QED
  BY <1>3, <1>4, <1>5

-----------------------------------------------------------------------------
(* The transaction of returnStage: entry i of sheet h becomes e in saved, and *)
(* what follows of itself leads to o.                                       *)
Advances(saved, o, h, e) ==
    \/ e.stage \in KEEPER_CONFIRM_STAGES /\ o = saved
    \/ /\ e.stage \notin KEEPER_CONFIRM_STAGES /\ e.returned # 0
       /\ o = AdvanceAfterQc(saved, h, e)
    \/ e.stage \notin KEEPER_CONFIRM_STAGES /\ e.returned = 0 /\ h = Parent /\ o = saved
    \/ /\ e.stage \notin KEEPER_CONFIRM_STAGES /\ e.returned = 0 /\ h # Parent
       /\ o = SyncOrderAfterStage(Close(saved, h, "DEFECT"), TRUE)

LEMMA ReturnShape ==
    ASSUME FlowInv, CoreInv, NEW c \in Clients, ReturnSave(c)
    PROVE  \/ Refuse(c)
           \/ \E h \in Holders : \E i \in Busy(order, h), e \in EntryValues, saved \in Orders : \E o, next :
                /\ Rewrites(order, saved, h, i, e)
                /\ e.stage = order.work[h][i].stage /\ e.handed = order.work[h][i].handed
                /\ e.returned \in Amount /\ e.confirmed = (e.stage \notin KEEPER_CONFIRM_STAGES)
                /\ Advances(saved, o, h, e)
                /\ Save(c, o, next)
                /\ next = IF e.stage \notin KEEPER_CONFIRM_STAGES /\ e.returned = 0 /\ h = Parent
                          THEN DefectOf(e.stage) ELSE DeriveStatus(o)
<1> DEFINE r == req[c]
           old == order.work[r.h][r.i]
           keeper == old.stage \in KEEPER_CONFIRM_STAGES
           e == [old EXCEPT !.returned = r.good, !.defect = r.defect, !.confirmed = ~keeper,
                            !.tries = IF r.revise THEN old.tries + 1 ELSE old.tries]
           saved == [order EXCEPT !.work[r.h][r.i] = e]
           nothing == ~keeper /\ r.good = 0
           o == IF keeper THEN saved
                ELSE IF ~nothing THEN AdvanceAfterQc(saved, r.h, e)
                ELSE IF r.h = Parent THEN saved
                ELSE SyncOrderAfterStage(Close(saved, r.h, "DEFECT"), TRUE)
           next == IF nothing /\ r.h = Parent THEN DefectOf(e.stage) ELSE DeriveStatus(o)
<1>1. order \in Orders
  BY DEF CoreInv
<1>2. ASSUME Unchanged(r), r.op = "return", Save(c, o, next)
      PROVE  \E h \in Holders : \E i \in Busy(order, h), f \in EntryValues, s \in Orders : \E p, n :
                /\ Rewrites(order, s, h, i, f)
                /\ f.stage = order.work[h][i].stage /\ f.handed = order.work[h][i].handed
                /\ f.returned \in Amount /\ f.confirmed = (f.stage \notin KEEPER_CONFIRM_STAGES)
                /\ Advances(s, p, h, f)
                /\ Save(c, p, n)
                /\ n = IF f.stage \notin KEEPER_CONFIRM_STAGES /\ f.returned = 0 /\ h = Parent
                       THEN DefectOf(f.stage) ELSE DeriveStatus(p)
  <2>1. r \in ReturnRequests /\ r.i \in DOMAIN order.work[r.h] /\ r.i \in Busy(order, r.h)
    BY Zenon, <1>2 DEF CoreInv, Brings, Unchanged
  <2>2. r.h \in Holders /\ r.good \in Amount /\ r.defect \in Amount
    BY <2>1 DEF ReturnRequests
  <2>3. old \in EntryValues
    BY <1>1, <2>1, <2>2, EntryParts
  <2>4. /\ e \in EntryValues /\ e.stage = old.stage /\ e.handed = old.handed
        /\ e.returned = r.good /\ e.confirmed = ~keeper
    <3> DEFINE ok == ~keeper
               good == r.good
               defect == r.defect
               n == IF r.revise THEN old.tries + 1 ELSE old.tries
               returns == Amount \cup {NotYet}
    <3>1. ok \in BOOLEAN /\ good \in returns /\ defect \in Amount
      BY <2>2
    <3>2. n \in Nat
      <4>1. old.tries \in Nat
        BY <2>3 DEF EntryValues
      <4> QED
        BY <4>1
    <3>3. old \in [stage : Stages, handed : Amount, done : BOOLEAN, returned : returns,
                   defect : Amount, confirmed : BOOLEAN, tries : Nat, rework : BOOLEAN]
      BY <2>3 DEF EntryValues
    <3> DEFINE f == [old EXCEPT !.returned = good, !.defect = defect, !.confirmed = ok, !.tries = n]
    <3>4. e = f
      BY Zenon DEF n, ok, good, defect
    <3> HIDE DEF ok, good, defect, n, returns, e, keeper, r, old
    <3>5. /\ f \in [stage : Stages, handed : Amount, done : BOOLEAN, returned : returns,
                    defect : Amount, confirmed : BOOLEAN, tries : Nat, rework : BOOLEAN]
          /\ f.stage = old.stage /\ f.returned = good /\ f.confirmed = ok /\ f.handed = old.handed
      BY <3>1, <3>2, <3>3
    <3> HIDE DEF f
    <3> QED
      BY <3>4, <3>5 DEF EntryValues, returns, ok, good
  <2> HIDE DEF e
  <2>5. saved \in Orders /\ Rewrites(order, saved, r.h, r.i, e)
    <3> HIDE DEF r
    <3> QED
      BY <1>1, <2>1, <2>2, <2>4, RewriteShape
  <2> HIDE DEF saved, r
  <2>6. Advances(saved, o, r.h, e)
    <3>1. CASE keeper
      <4>1. o = saved
        BY <3>1
      <4> HIDE DEF o
      <4> QED
        BY <2>4, <3>1, <4>1 DEF Advances
    <3>2. CASE ~keeper /\ ~nothing
      <4>1. o = AdvanceAfterQc(saved, r.h, e)
        BY <3>2
      <4> HIDE DEF o
      <4> QED
        BY <2>4, <3>2, <4>1 DEF Advances
    <3>3. CASE nothing /\ r.h = Parent
      <4>1. o = saved
        BY <3>3
      <4> HIDE DEF o
      <4> QED
        BY <2>4, <3>3, <4>1 DEF Advances
    <3>4. CASE nothing /\ r.h # Parent
      <4>1. o = SyncOrderAfterStage(Close(saved, r.h, "DEFECT"), TRUE)
        BY <3>4
      <4> HIDE DEF o
      <4> QED
        BY <2>4, <3>4, <4>1 DEF Advances
    <3> QED
      BY <3>1, <3>2, <3>3, <3>4
  <2> HIDE DEF o
  <2>7. next = IF e.stage \notin KEEPER_CONFIRM_STAGES /\ e.returned = 0 /\ r.h = Parent
               THEN DefectOf(e.stage) ELSE DeriveStatus(o)
    BY <2>4
  <2>8. Save(c, o, next)
    BY <1>2
  <2> HIDE DEF next, keeper
  <2>9. /\ e.stage = order.work[r.h][r.i].stage /\ e.handed = order.work[r.h][r.i].handed
        /\ e.returned \in Amount /\ e.confirmed = (e.stage \notin KEEPER_CONFIRM_STAGES)
    BY <2>2, <2>4 DEF keeper
  <2> HIDE DEF old
  <2> QED
    BY <2>1, <2>2, <2>4, <2>5, <2>6, <2>7, <2>8, <2>9
<1>3. \/ Refuse(c)
      \/ Unchanged(r) /\ r.op = "return" /\ Save(c, o, next)
  <2> HIDE DEF o, next
  <2>1. r.op = "return"
    BY DEF ReturnSave
  <2>2. Refuse(c) \/ (Unchanged(r) /\ Save(c, o, next))
    BY DEF ReturnSave, o, next
  <2> HIDE DEF r
  <2> QED
    BY <2>1, <2>2
<1> HIDE DEF o, next, r
<1> QED
  BY <1>2, <1>3

LEMMA AdvanceTidy ==
    ASSUME NEW o \in Orders, Tidy(o), NEW h \in Holders, NEW e \in EntryValues,
           e.stage \notin KEEPER_CONFIRM_STAGES, Pend(o.work[h]) = {},
           e.stage = PLATING => LastStage(o.work[h]) = PLATING
    PROVE  Tidy(AdvanceAfterQc(o, h, e))
<1> DEFINE p == AdvanceAfterQc(o, h, e)
<1>1. \/ p = o
      \/ /\ OthersStay(o, p, h) /\ p.work = o.work
         /\ h # Parent => o.sheet[h].outcome = "NONE"
         /\ Alike(o.sheet[h], p.sheet[h])
      \/ e.stage = PLATING /\ h # Parent /\ p = SyncOrder(Close(o, h, "FINISH"))
      \/ p.sheet = o.sheet /\ p.work = o.work
  BY AdvanceShape
<1> SUFFICES Tidy(p)
  OBVIOUS
<1> HIDE DEF p
<1>2. CASE p = o \/ (p.sheet = o.sheet /\ p.work = o.work)
  BY <1>2, TidySame
<1>3. CASE /\ OthersStay(o, p, h) /\ p.work = o.work
           /\ h # Parent => o.sheet[h].outcome = "NONE"
           /\ Alike(o.sheet[h], p.sheet[h])
  <2>1. h \in Tickets => p.sheet[h].outcome = "NONE"
    BY <1>3, LiveAreTickets DEF Alike
  <2>2. \A g \in Holders : g # h => p.sheet[g] = o.sheet[g]
    BY <1>3 DEF OthersStay
  <2> QED
    BY <1>3, <2>1, <2>2, TidyOpens
<1>4. CASE e.stage = PLATING /\ h # Parent /\ p = SyncOrder(Close(o, h, "FINISH"))
  <2> DEFINE q == Close(o, h, "FINISH")
  <2>1. h \in Tickets /\ "FINISH" \in Outcomes
    BY <1>4 DEF Holders, Outcomes
  <2>2. q \in Orders
    BY <2>1, CloseShape
  <2>3. Tidy(q)
    BY <1>4, <2>1, TidyClosed
  <2>4. p = SyncOrder(q)
    BY <1>4
  <2> HIDE DEF q
  <2>5. p.sheet = q.sheet /\ p.work = q.work
    BY <2>2, <2>4, SyncShape
  <2> QED
    BY <2>3, <2>5, TidySame
<1> QED
  BY <1>1, <1>2, <1>3, <1>4

LEMMA ReturnTidy ==
    ASSUME FlowInv, CoreInv, Tidy(order), NEW c \in Clients, ReturnSave(c)
    PROVE  Tidy(order')
<1>1. order \in Orders /\ Whole(order)
  BY DEF CoreInv
<1>2. CASE Refuse(c)
  BY <1>2 DEF Refuse
<1>3. CASE ~Refuse(c)
  <2>1. PICK h \in Holders : \E i \in Busy(order, h), e \in EntryValues, saved \in Orders : \E o, next :
                /\ Rewrites(order, saved, h, i, e)
                /\ e.returned \in Amount /\ e.confirmed = (e.stage \notin KEEPER_CONFIRM_STAGES)
                /\ Advances(saved, o, h, e)
                /\ Save(c, o, next)
    BY <1>3, ReturnShape
  <2>2. PICK i \in Busy(order, h), e \in EntryValues, saved \in Orders :
             \E o, next :
                /\ Rewrites(order, saved, h, i, e)
                /\ e.returned \in Amount /\ e.confirmed = (e.stage \notin KEEPER_CONFIRM_STAGES)
                /\ Advances(saved, o, h, e)
                /\ Save(c, o, next)
    BY <2>1
  <2>3. PICK o, next :
                /\ Rewrites(order, saved, h, i, e)
                /\ e.returned \in Amount /\ e.confirmed = (e.stage \notin KEEPER_CONFIRM_STAGES)
                /\ Advances(saved, o, h, e)
                /\ Save(c, o, next)
    BY <2>2
  <2>4. order' = o
    BY <2>3 DEF Save
  <2>5. i \in Pend(order.work[h])
    BY PendIsBusy
  <2>6. saved.work[h][i] = e /\ e.returned # NotYet
    <3>1. e.returned \in Nat
      BY <2>3, AmountIsNat
    <3> QED
      BY <2>3, <3>1 DEF Rewrites, NotYet
  <2>7. /\ Tidy(saved) /\ i = Len(saved.work[h]) /\ saved.sheet[h].pending = 0
        /\ h \in Tickets => saved.sheet[h].live /\ saved.sheet[h].outcome = "NONE"
        /\ e.confirmed => Pend(saved.work[h]) = {}
    <3>1. /\ saved.sheet = order.sheet /\ Len(saved.work[h]) = Len(order.work[h])
          /\ DOMAIN saved.work[h] = DOMAIN order.work[h]
          /\ \A j \in DOMAIN order.work[h] : j # i => saved.work[h][j] = order.work[h][j]
          /\ \A g \in Holders : g # h => saved.work[g] = order.work[g]
      BY <2>3 DEF Rewrites
    <3>2. /\ Tidy(saved) /\ i = Len(saved.work[h]) /\ saved.sheet[h].pending = 0
          /\ h \in Tickets => saved.sheet[h].live /\ saved.sheet[h].outcome = "NONE"
          /\ saved.work[h][i].returned # NotYet /\ saved.work[h][i].confirmed => Pend(saved.work[h]) = {}
      BY <1>1, <2>5, <3>1, TidyTouched
    <3> QED
      BY <2>6, <3>2
  <2>8. LastStage(saved.work[h]) = e.stage
    <3>1. i \in DOMAIN order.work[h]
      BY <2>5 DEF Pend
    <3>2. saved.work[h] # <<>>
      BY <2>3, <3>1 DEF Rewrites
    <3> QED
      BY <2>6, <2>7, <3>2 DEF LastStage, LastOf
  <2>9. CASE o = saved
    BY <2>4, <2>7, <2>9
  <2>10. CASE /\ e.stage \notin KEEPER_CONFIRM_STAGES
              /\ o = AdvanceAfterQc(saved, h, e)
    BY <2>3, <2>4, <2>7, <2>8, <2>10, AdvanceTidy
  <2>11. CASE /\ e.stage \notin KEEPER_CONFIRM_STAGES /\ h # Parent
              /\ o = SyncOrderAfterStage(Close(saved, h, "DEFECT"), TRUE)
    <3> DEFINE q == Close(saved, h, "DEFECT")
    <3>1. h \in Tickets /\ "DEFECT" \in Outcomes
      BY <2>11 DEF Holders, Outcomes
    <3>2. q \in Orders
      BY <3>1, CloseShape
    <3>3. Tidy(q)
      BY <2>3, <2>7, <2>11, <3>1, TidyClosed
    <3>4. PICK k \in BOOLEAN : k = TRUE
      OBVIOUS
    <3>5. o = SyncOrderAfterStage(q, k)
      BY <2>11, <3>4
    <3> HIDE DEF q
    <3>6. o.sheet = q.sheet /\ o.work = q.work
      BY <3>2, <3>5, SyncAfterShape
    <3> QED
      BY <2>4, <3>3, <3>6, TidySame
  <2> QED
    BY <2>3, <2>9, <2>10, <2>11 DEF Advances
<1> QED
  BY <1>2, <1>3

-----------------------------------------------------------------------------
(* What a request to take a return back has seen, while nobody comes between *)
(* its read and its transaction.                                            *)
UndoSeen(r, o) ==
    r.op = "undo" =>
        /\ r.i = Len(o.work[r.h])
        /\ r.h \in Tickets => o.sheet[r.h].outcome = "NONE"
        /\ ~r.auto => o.sheet[r.h].pending = 0

LEMMA UndoShape ==
    ASSUME CoreInv, NEW c \in Clients, UndoSave(c)
    PROVE  \E h \in Holders : \E i \in DOMAIN order.work[h], auto \in BOOLEAN, e \in EntryValues,
                                 saved \in Orders, o \in Orders :
               /\ req[c].op = "undo" /\ req[c].h = h /\ req[c].i = i /\ req[c].auto = auto
               /\ Rewrites(order, saved, h, i, e)
               /\ e.stage = order.work[h][i].stage /\ e.stage \notin KEEPER_CONFIRM_STAGES
               /\ e.returned = NotYet /\ e.confirmed = order.work[h][i].confirmed
               /\ OthersStay(saved, o, h) /\ o.work = saved.work /\ o.skip = saved.skip
               /\ o.receipt = saved.receipt /\ o.status = saved.status
               /\ Alike(saved.sheet[h], o.sheet[h])
               /\ o.sheet[h].pending = IF auto THEN 0 ELSE saved.sheet[h].pending
               /\ o.sheet[h].claimed = saved.sheet[h].claimed
               /\ Save(c, o, DeriveStatus(o))
<1> DEFINE r == req[c]
           old == order.work[r.h][r.i]
           e == [old EXCEPT !.returned = NotYet]
           saved == [order EXCEPT !.work[r.h][r.i] = e]
           open == order.sheet[r.h].pending
           pending == IF r.auto THEN 0 ELSE open
           sheet == saved.sheet[r.h]
           card == Prepared(sheet, pending, sheet.claimed, sheet.give)
           o == [saved EXCEPT !.sheet[r.h] = card]
           wrote == [order EXCEPT !.work[r.h][r.i].returned = NotYet,
                         !.sheet[r.h].pending = IF r.auto THEN 0 ELSE order.sheet[r.h].pending]
<1>1. order \in Orders
  BY DEF CoreInv
<1>2. /\ r.op = "undo" /\ r \in UndoRequests /\ r.h \in Holders /\ r.i \in DOMAIN order.work[r.h]
      /\ r.auto \in BOOLEAN /\ old.stage \notin KEEPER_CONFIRM_STAGES
  BY Zenon DEF CoreInv, Brings, UndoSave, UndoRequests
<1>3. Save(c, wrote, DeriveStatus(wrote))
  BY DEF UndoSave
<1>4. old \in EntryValues
  BY <1>1, <1>2, EntryParts
<1>5. /\ e \in EntryValues /\ e.stage = old.stage /\ e.returned = NotYet
      /\ e.confirmed = old.confirmed
  <2> DEFINE returns == Amount \cup {NotYet}
  <2>1. old \in [stage : Stages, handed : Amount, done : BOOLEAN, returned : returns,
                 defect : Amount, confirmed : BOOLEAN, tries : Nat, rework : BOOLEAN]
        /\ NotYet \in returns
    BY <1>4 DEF EntryValues
  <2> HIDE DEF returns, old
  <2> QED
    BY <2>1 DEF EntryValues, returns
<1>6. wrote = o
  <2>1. order \in Orders /\ order.sheet[r.h] \in SheetValues
    BY <1>1, <1>2, SheetParts
  <2>2. saved.sheet = order.sheet
    BY <2>1 DEF Orders
  <2>3. card = [order.sheet[r.h] EXCEPT !.pending = pending]
    <3> HIDE DEF saved, pending, r
    <3> QED
      BY <2>1, <2>2, PreparedStage
  <2>4. wrote = [saved EXCEPT !.sheet[r.h] = [order.sheet[r.h] EXCEPT !.pending = pending]]
    BY <2>1 DEF Orders
  <2> HIDE DEF saved, wrote, card
  <2> QED
    BY <2>3, <2>4
<1> HIDE DEF e, wrote
<1>7. saved \in Orders /\ Rewrites(order, saved, r.h, r.i, e)
  <2> HIDE DEF r
  <2> QED
    BY <1>1, <1>2, <1>5, RewriteShape
<1>8. saved.sheet = order.sheet
  BY <1>7 DEF Rewrites
<1>9. /\ sheet \in SheetValues /\ sheet.give \in Amount /\ sheet.claimed \in BOOLEAN
      /\ open \in Stages \cup {0} /\ sheet.pending = open
  BY <1>1, <1>2, <1>8, SheetParts
<1>10. pending \in Stages \cup {0} /\ pending = IF r.auto THEN 0 ELSE saved.sheet[r.h].pending
  BY <1>9
<1> HIDE DEF saved, open
<1>11. card \in SheetValues /\ Alike(sheet, card) /\ card.pending = pending
       /\ card.claimed = sheet.claimed
  <2> HIDE DEF sheet, pending
  <2> QED
    BY <1>9, <1>10, PreparedShape DEF Alike
<1> HIDE DEF card, pending
<1>12. /\ o \in Orders /\ o.work = saved.work /\ o.skip = saved.skip
       /\ o.receipt = saved.receipt /\ o.status = saved.status
       /\ o.sheet[r.h] = card /\ \A g \in Holders : g # r.h => o.sheet[g] = saved.sheet[g]
  <2> HIDE DEF r
  <2> QED
    BY <1>2, <1>7, <1>11, OneSheetShape
<1> HIDE DEF o
<1>13. OthersStay(saved, o, r.h)
  BY <1>12 DEF OthersStay
<1>14. Save(c, o, DeriveStatus(o))
  BY <1>3, <1>6
<1> DEFINE h == r.h
           i == r.i
           auto == r.auto
<1>15. h \in Holders /\ i \in DOMAIN order.work[h] /\ auto \in BOOLEAN
  BY <1>2
<1>16. /\ req[c].op = "undo" /\ req[c].h = h /\ req[c].i = i /\ req[c].auto = auto
  BY <1>2
<1>17. /\ Rewrites(order, saved, h, i, e) /\ OthersStay(saved, o, h)
       /\ e.stage = order.work[h][i].stage /\ e.stage \notin KEEPER_CONFIRM_STAGES
       /\ e.returned = NotYet /\ e.confirmed = order.work[h][i].confirmed
       /\ Alike(saved.sheet[h], o.sheet[h])
       /\ o.sheet[h].pending = IF auto THEN 0 ELSE saved.sheet[h].pending
       /\ o.sheet[h].claimed = saved.sheet[h].claimed
  BY <1>2, <1>5, <1>7, <1>10, <1>11, <1>12, <1>13
<1> HIDE DEF h, i, auto, r
<1> QED
  BY <1>5, <1>7, <1>12, <1>14, <1>15, <1>16, <1>17

(* The last entry of a running sheet is taken back.                         *)
LEMMA UndoTidy ==
    ASSUME CoreInv, Tidy(order), NEW c \in Clients, UndoSeen(req[c], order), UndoSave(c)
    PROVE  Tidy(order')
<1>1. order \in Orders
  BY DEF CoreInv
<1>2. PICK h \in Holders : \E i \in DOMAIN order.work[h], auto \in BOOLEAN, e \in EntryValues,
                                 saved \in Orders, o \in Orders :
               /\ req[c].op = "undo" /\ req[c].h = h /\ req[c].i = i /\ req[c].auto = auto
               /\ Rewrites(order, saved, h, i, e)
               /\ OthersStay(saved, o, h) /\ o.work = saved.work
               /\ Alike(saved.sheet[h], o.sheet[h])
               /\ o.sheet[h].pending = IF auto THEN 0 ELSE saved.sheet[h].pending
               /\ Save(c, o, DeriveStatus(o))
  BY UndoShape
<1>3. PICK i \in DOMAIN order.work[h], auto \in BOOLEAN, e \in EntryValues,
           saved \in Orders, o \in Orders :
               /\ req[c].op = "undo" /\ req[c].h = h /\ req[c].i = i /\ req[c].auto = auto
               /\ Rewrites(order, saved, h, i, e)
               /\ OthersStay(saved, o, h) /\ o.work = saved.work
               /\ Alike(saved.sheet[h], o.sheet[h])
               /\ o.sheet[h].pending = IF auto THEN 0 ELSE saved.sheet[h].pending
               /\ Save(c, o, DeriveStatus(o))
  BY <1>2
<1>4. /\ i = Len(order.work[h]) /\ (h \in Tickets => order.sheet[h].outcome = "NONE")
      /\ ~auto => order.sheet[h].pending = 0
  BY <1>3 DEF UndoSeen
<1>5. TidyAt(order, h)
  BY DEF Tidy
<1>6. /\ saved.sheet = order.sheet /\ Len(saved.work[h]) = Len(order.work[h])
      /\ DOMAIN saved.work[h] = DOMAIN order.work[h]
      /\ \A j \in DOMAIN order.work[h] : j # i => saved.work[h][j] = order.work[h][j]
      /\ \A g \in Holders : g # h => saved.work[g] = order.work[g]
  BY <1>3 DEF Rewrites
<1>7. Pend(o.work[h]) \subseteq {Len(o.work[h])}
  BY <1>3, <1>4, <1>5, <1>6 DEF Pend, TidyAt, OneHand
<1>8. o.sheet[h].pending = 0 /\ (h \in Tickets => o.sheet[h].outcome = "NONE")
  BY <1>3, <1>4, <1>6 DEF Alike
<1>9. TidyAt(o, h)
  BY <1>7, <1>8 DEF TidyAt, OneHand, Settled
<1>10. \A g \in Holders : g # h => o.sheet[g] = order.sheet[g] /\ o.work[g] = order.work[g]
  BY <1>3, <1>6 DEF OthersStay
<1>11. order' = o
  BY <1>3 DEF Save
<1> QED
  BY <1>9, <1>10, <1>11, TidyElse

(* The other requests write the receipt and the status, or clear what waits. *)
LEMMA WritesTidy ==
    ASSUME CoreInv, Tidy(order), NEW c \in Clients,
           FinishSave(c) \/ UndoFinishSave(c) \/ StatusSave(c) \/ ChangeStatusSave(c)
    PROVE  Tidy(order')
<1>1. order \in Orders /\ order'.work = order.work
  BY FinishSaveCore, StatusSaveCore, ChangeSaveCore DEF CoreInv
<1>2. CASE FinishSave(c) \/ UndoFinishSave(c) \/ StatusSave(c)
  <2>1. order'.sheet = order.sheet
    BY <1>1, <1>2 DEF FinishSave, UndoFinishSave, StatusSave, Save, Refuse, Orders
  <2> QED
    BY <1>1, <2>1, TidySame
<1>3. CASE ChangeStatusSave(c)
  <2>1. CASE Refuse(c)
    BY <1>1, <2>1, TidySame DEF Refuse
  <2>2. CASE ~Refuse(c)
    <3> DEFINE r == req[c]
               x == r.to
               receipt == IF r.leave THEN NoReceipt ELSE order.receipt
               g == [h \in Holders |-> IF h \in ClearSeen(r) THEN ClearPending(order.sheet[h])
                                       ELSE order.sheet[h]]
    <3>1. Save(c, [order EXCEPT !.status = x, !.receipt = receipt, !.sheet = g], x)
      BY <1>3, <2>2 DEF ChangeStatusSave
    <3>2. \A h \in Holders : order.sheet[h] \in SheetValues
      BY <1>1, SheetParts
    <3>3. \A h \in Holders :
            /\ ClearPending(order.sheet[h]).live = order.sheet[h].live
            /\ ClearPending(order.sheet[h]).outcome = order.sheet[h].outcome
            /\ ClearPending(order.sheet[h]).good = order.sheet[h].good
            /\ ClearPending(order.sheet[h]).pending = 0
      BY <3>2, ClearedShape
    <3>4. \A h \in Holders : /\ g[h].live = order.sheet[h].live
                             /\ g[h].outcome = order.sheet[h].outcome
                             /\ g[h].good = order.sheet[h].good
                             /\ g[h].pending \in {0, order.sheet[h].pending}
      BY <3>3
    <3> HIDE DEF x, receipt, g, r
    <3>5. order'.sheet = g
      BY <1>1, <3>1 DEF Save, Orders
    <3> QED
      BY <1>1, <3>4, <3>5, TidyCards, LiveAreTickets
  <2> QED
    BY <2>1, <2>2
<1> QED
  BY <1>2, <1>3

-----------------------------------------------------------------------------
(* Who steps while a request runs to its end undisturbed: the office and the *)
(* workshop only when none is in flight, and a request only alone.          *)
Lonely == Alone => \A c, d \in Clients : c # d => req[c] = Idle \/ req[d] = Idle
Undisturbed == Alone \/ ~Corrections

TidyInv == Tidy(order) /\ Lonely /\ \A c \in Clients : UndoSeen(req[c], order)

LEMMA LockedStep ==
    ASSUME Office \/ Workshop
    PROVE  Quiet /\ (req' = [c \in Clients |-> Stale(req[c])] \/ req' = req)
<1>1. CASE Split \/ CreateTicket \/ UpdateTicket \/ ClearSplit \/ RemoveTicket
  BY <1>1 DEF Split, CreateTicket, UpdateTicket, ClearSplit, RemoveTicket, Mutate
<1>2. CASE OpenOrderStage \/ AssignOrder \/ Assign
  BY Zenon, <1>2 DEF OpenOrderStage, AssignOrder, Assign, Mutate, MutateTicket
<1>3. CASE CancelPending \/ CancelOrderPending \/ Unclaim \/ UnclaimOrder
  BY <1>3 DEF CancelPending, CancelOrderPending, Unclaim, UnclaimOrder, Mutate, MutateTicket
<1>4. CASE SetOutcome \/ ClearOutcome \/ SetStoneSkipped \/ CreateRework
  BY Zenon, <1>4 DEF SetOutcome, ClearOutcome, SetStoneSkipped, CreateRework, Mutate
<1>5. CASE Accept \/ AcceptOrder \/ Take \/ TakeOrder
  BY Zenon, <1>5 DEF Accept, AcceptOrder, Take, TakeOrder, Begin, Mutate
<1>6. CASE \/ Submit \/ SubmitOrder \/ ReportStageDefect
           \/ Unsubmit \/ UnsubmitOrder \/ ClearStageDefect
  BY <1>6 DEF Submit, SubmitOrder, ReportStageDefect, Unsubmit, UnsubmitOrder, ClearStageDefect,
              ReportDone, TakeBackDone, Mutate
<1>7. CASE ConfirmStage \/ StockReceipt
  BY Zenon, <1>7 DEF ConfirmStage, StockReceipt, Mutate
<1> QED
  BY <1>1, <1>2, <1>3, <1>4, <1>5, <1>6, <1>7 DEF Office, Workshop

(* A request reads, or it writes and is over but for the status.            *)
LEMMA RequestStep ==
    ASSUME NEW c \in Clients, Request(c)
    PROVE  \/ /\ Quiet /\ req[c] = Idle /\ order' = order
              /\ \E r : /\ req' = [req EXCEPT ![c] = r]
                        /\ r.op = "undo" => UndoSeen(r, order) /\ UndoAsk(c)
           \/ /\ req[c] # Idle
              /\ \/ \E r : /\ req' = [d \in Clients |-> IF d # c THEN Stale(req[d]) ELSE r]
                           /\ r = Idle \/ r.op = "status"
                 \/ Refuse(c)
<1>1. CASE ReturnAsk(c) \/ FinishAsk(c) \/ UndoFinishAsk(c) \/ ChangeStatusAsk(c)
  <2>1. \E r : Ask(c, r) /\ r.op # "undo"
    <3>1. CASE ReturnAsk(c)
      <4>1. PICK h, i, good, defect, revise :
              Ask(c, [op |-> "return", h |-> h, i |-> i, good |-> good, defect |-> defect,
                      revise |-> revise, fresh |-> TRUE])
        BY <3>1 DEF ReturnAsk
      <4> DEFINE r == [op |-> "return", h |-> h, i |-> i, good |-> good, defect |-> defect,
                       revise |-> revise, fresh |-> TRUE]
      <4>2. Ask(c, r) /\ r.op # "undo"
        BY <4>1
      <4> HIDE DEF r
      <4> QED
        BY <4>2
    <3>2. CASE FinishAsk(c)
      <4> DEFINE r == [op |-> "finish", qty |-> Available(order, Parent)]
      <4>1. Ask(c, r) /\ r.op # "undo"
        BY <3>2 DEF FinishAsk
      <4> HIDE DEF r
      <4> QED
        BY <4>1
    <3>3. CASE UndoFinishAsk(c)
      <4>1. PICK to : Ask(c, [op |-> "undoFinish", to |-> to])
        BY <3>3 DEF UndoFinishAsk
      <4> DEFINE r == [op |-> "undoFinish", to |-> to]
      <4>2. Ask(c, r) /\ r.op # "undo"
        BY <4>1
      <4> HIDE DEF r
      <4> QED
        BY <4>2
    <3>4. CASE ChangeStatusAsk(c)
      <4>1. PICK to, leave, cleared :
              Ask(c, [op |-> "change", to |-> to, leave |-> leave, cleared |-> cleared])
        BY <3>4 DEF ChangeStatusAsk
      <4> DEFINE r == [op |-> "change", to |-> to, leave |-> leave, cleared |-> cleared]
      <4>2. Ask(c, r) /\ r.op # "undo"
        BY <4>1
      <4> HIDE DEF r
      <4> QED
        BY <4>2
    <3> QED
      BY <1>1, <3>1, <3>2, <3>3, <3>4
  <2> QED
    BY <2>1 DEF Ask
<1>2. CASE UndoAsk(c)
  <2>1. PICK h \in Holders :
          /\ order.sheet[h].outcome = "NONE"
          /\ Ask(c, [op |-> "undo", h |-> h, i |-> Len(order.work[h]),
                     auto |-> order.sheet[h].pending # 0])
    BY <1>2 DEF UndoAsk
  <2> DEFINE auto == order.sheet[h].pending # 0
             r == [op |-> "undo", h |-> h, i |-> Len(order.work[h]), auto |-> auto]
  <2>2. UndoSeen(r, order)
    BY <2>1 DEF UndoSeen
  <2>3. Ask(c, r)
    BY <2>1
  <2> HIDE DEF r
  <2> QED
    BY <1>2, <2>2, <2>3 DEF Ask
<1>3. CASE StatusSave(c)
  <2>1. req[c] # Idle
    BY <1>3 DEF StatusSave, Idle
  <2>2. \A d : (IF d = c THEN Idle ELSE Stale(req[d])) = (IF d # c THEN Stale(req[d]) ELSE Idle)
    OBVIOUS
  <2>3. req' = [d \in Clients |-> IF d # c THEN Stale(req[d]) ELSE Idle]
    BY <1>3, <2>2 DEF StatusSave
  <2> QED
    BY <2>1, <2>3
<1>4. CASE \/ ReturnSave(c) \/ UndoSave(c) \/ FinishSave(c) \/ UndoFinishSave(c) \/ ChangeStatusSave(c)
  <2>1. req[c] # Idle
    <3>1. req[c].op \in {"return", "undo", "finish", "undoFinish", "change"}
      BY Zenon, <1>4 DEF ReturnSave, UndoSave, FinishSave, UndoFinishSave, ChangeStatusSave
    <3> QED
      BY <3>1 DEF Idle
  <2>2. Refuse(c) \/ \E o, next : Save(c, o, next)
    BY Zenon, <1>4 DEF ReturnSave, UndoSave, FinishSave, UndoFinishSave, ChangeStatusSave
  <2>3. ASSUME NEW o, NEW next, Save(c, o, next)
        PROVE  \E r : /\ req' = [d \in Clients |-> IF d # c THEN Stale(req[d]) ELSE r]
                      /\ r = Idle \/ r.op = "status"
    <3> DEFINE r == IF next = o.status THEN Idle ELSE [op |-> "status", to |-> next]
    <3>1. req' = [d \in Clients |-> IF d # c THEN Stale(req[d]) ELSE r]
      BY <2>3 DEF Save
    <3>2. r = Idle \/ r.op = "status"
      OBVIOUS
    <3> HIDE DEF r
    <3> QED
      BY <3>1, <3>2
  <2> QED
    BY <2>1, <2>2, <2>3
<1> QED
  BY <1>1, <1>2, <1>3, <1>4 DEF Request

LEMMA TidyInit == Init => TidyInv
<1> SUFFICES ASSUME Init PROVE TidyInv
  OBVIOUS
<1>1. /\ \A h \in Holders : order.work[h] = <<>>
      /\ \A h \in Holders : order.sheet[h] = Sheet(OrderQty) \/ order.sheet[h] = Sheet(0)
      /\ \A c \in Clients : req[c] = Idle
  BY DEF Init
<1>2. \A h \in Holders : order.sheet[h].pending = 0 /\ order.sheet[h].outcome = "NONE"
  BY <1>1 DEF Sheet
<1>3. Tidy(order)
  BY <1>1, <1>2 DEF Tidy, TidyAt, OneHand, Settled, Pend
<1>4. Lonely /\ \A c \in Clients : UndoSeen(req[c], order)
  BY <1>1 DEF Lonely, UndoSeen, Idle
<1> QED
  BY <1>3, <1>4 DEF TidyInv

LEMMA StepTidy ==
    ASSUME FlowInv, CoreInv, TidyInv, [Next]_flow
    PROVE  Tidy(order')
<1>1. Tidy(order)
  BY DEF TidyInv
<1>2. CASE Office
  <2>1. CASE Split \/ CreateTicket \/ UpdateTicket \/ ClearSplit \/ RemoveTicket
    BY <1>1, <2>1, DivideTidy
  <2>2. CASE \/ OpenOrderStage \/ AssignOrder \/ Assign
             \/ CancelPending \/ CancelOrderPending \/ Unclaim \/ UnclaimOrder
    BY <1>1, <2>2, PendingTidy
  <2>3. CASE SetOutcome \/ ClearOutcome \/ SetStoneSkipped
    BY <1>1, <2>3, OutcomeTidy
  <2>4. CASE CreateRework
    BY <1>1, <2>4, ReportTidy
  <2> QED
    BY <1>2, <2>1, <2>2, <2>3, <2>4 DEF Office
<1>3. CASE Workshop
  <2>1. CASE Accept \/ AcceptOrder \/ Take \/ TakeOrder
    BY <1>1, <2>1, BeginTidy
  <2>2. CASE \/ Submit \/ SubmitOrder \/ ReportStageDefect
             \/ Unsubmit \/ UnsubmitOrder \/ ClearStageDefect
    BY <1>1, <2>2, ReportTidy
  <2>3. CASE ConfirmStage
    BY <1>1, <2>3, ConfirmTidy
  <2>4. CASE StockReceipt
    BY <1>1, <2>4, OutcomeTidy
  <2> QED
    BY <1>3, <2>1, <2>2, <2>3, <2>4 DEF Workshop
<1>4. CASE \E c \in Clients : Request(c)
  <2>1. PICK c \in Clients : Request(c)
    BY <1>4
  <2>2. CASE \/ ReturnAsk(c) \/ UndoAsk(c) \/ FinishAsk(c) \/ UndoFinishAsk(c) \/ ChangeStatusAsk(c)
    <3>1. order' = order
      BY <2>2 DEF ReturnAsk, UndoAsk, FinishAsk, UndoFinishAsk, ChangeStatusAsk, Ask
    <3> QED
      BY <1>1, <3>1
  <2>3. CASE ReturnSave(c)
    BY <1>1, <2>3, ReturnTidy
  <2>4. CASE UndoSave(c)
    BY <1>1, <2>4, UndoTidy DEF TidyInv
  <2>5. CASE FinishSave(c) \/ UndoFinishSave(c) \/ StatusSave(c) \/ ChangeStatusSave(c)
    BY <1>1, <2>5, WritesTidy
  <2> QED
    BY <2>1, <2>2, <2>3, <2>4, <2>5 DEF Request
<1>5. CASE UNCHANGED flow
  BY <1>1, <1>5 DEF flow
<1> QED
  BY <1>2, <1>3, <1>4, <1>5 DEF Next

LEMMA StepSeen ==
    ASSUME Undisturbed, CoreInv, CoreInv', TidyInv, [Next]_flow
    PROVE  (Lonely /\ \A c \in Clients : UndoSeen(req[c], order))'
<1>0. Stale(Idle) = Idle /\ Idle.op = "idle" /\ \A o : UndoSeen(Idle, o)
  BY DEF Stale, Idle, UndoSeen
<1>1. CASE ~Alone
  <2>1. Lonely'
    BY <1>1 DEF Lonely
  <2>2. \A c \in Clients : req'[c].op # "undo"
    BY <1>1 DEF Undisturbed, CoreInv, Brings
  <2> QED
    BY <2>1, <2>2 DEF UndoSeen
<1>2. CASE Alone
  <2>1. CASE Office \/ Workshop
    <3>1. \A c \in Clients : req[c] = Idle
      BY <1>2, <2>1, LockedStep DEF Quiet
    <3>2. \A c \in Clients : req'[c] = Idle
      BY <1>0, <2>1, <3>1, LockedStep
    <3> QED
      BY <1>0, <3>2 DEF Lonely
  <2>2. CASE \E c \in Clients : Request(c)
    <3>1. PICK c \in Clients : Request(c)
      BY <2>2
    <3>2. CASE /\ Quiet /\ req[c] = Idle /\ order' = order
               /\ \E r : /\ req' = [req EXCEPT ![c] = r]
                         /\ r.op = "undo" => UndoSeen(r, order) /\ UndoAsk(c)
      <4>1. \A d \in Clients : req[d] = Idle
        BY <1>2, <3>2 DEF Quiet
      <4>2. PICK r : /\ req' = [req EXCEPT ![c] = r]
                     /\ r.op = "undo" => UndoSeen(r, order)
        BY <3>2
      <4>3. \A d \in Clients : d # c => req'[d] = Idle
        BY <4>1, <4>2 DEF CoreInv
      <4>4. req'[c] = r
        BY <4>2 DEF CoreInv
      <4>5. UndoSeen(req'[c], order')
        BY <3>2, <4>2, <4>4 DEF UndoSeen
      <4> QED
        BY <1>0, <4>3, <4>5 DEF Lonely
    <3>3. CASE /\ req[c] # Idle
               /\ \/ \E r : /\ req' = [d \in Clients |-> IF d # c THEN Stale(req[d]) ELSE r]
                            /\ r = Idle \/ r.op = "status"
                  \/ Refuse(c)
      <4>1. \A d \in Clients : d # c => req[d] = Idle
        BY <1>2, <3>3 DEF TidyInv, Lonely
      <4>2. \A d \in Clients : d # c => req'[d] = Idle
        BY <1>0, <3>3, <4>1 DEF Refuse, CoreInv
      <4>3. req'[c] = Idle \/ req'[c].op = "status"
        BY <3>3 DEF Refuse, CoreInv
      <4>4. UndoSeen(req'[c], order')
        BY <1>0, <4>3 DEF UndoSeen
      <4> QED
        BY <1>0, <4>2, <4>4 DEF Lonely
    <3> QED
      BY <3>1, <3>2, <3>3, RequestStep
  <2>3. CASE UNCHANGED flow
    BY <2>3 DEF flow, TidyInv, Lonely
  <2> QED
    BY <2>1, <2>2, <2>3 DEF Next
<1> QED
  BY <1>1, <1>2

LEMMA TidyHolds == Undisturbed => (Spec => []TidyInv)
<1> SUFFICES ASSUME Undisturbed PROVE Spec => []TidyInv
  OBVIOUS
<1>1. Init => TidyInv
  BY TidyInit
<1>2. FlowInv /\ CoreInv /\ CoreInv' /\ TidyInv /\ [Next]_flow => TidyInv'
  <2> SUFFICES ASSUME FlowInv, CoreInv, CoreInv', TidyInv, [Next]_flow PROVE TidyInv'
    OBVIOUS
  <2>1. Tidy(order')
    BY StepTidy
  <2>2. (Lonely /\ \A c \in Clients : UndoSeen(req[c], order))'
    BY StepSeen
  <2> QED
    BY <2>1, <2>2 DEF TidyInv
<1> QED
  BY <1>1, <1>2, CoreHolds, PTL DEF Spec

(* One hand at a time: every hand-over but the last is back and confirmed,   *)
(* nothing is opened while one is out, and a closed ticket has nothing out  *)
(* and the pieces plating brought back (accept, take, returnStage,          *)
(* confirmStage, setOutcome) -- whatever is in flight, as long as nobody    *)
(* takes steps back beside it (undoReturn, clearOutcome, undoFinish).       *)
THEOREM OneHandAtATime == Alone \/ ~Corrections => (Spec => []OneStageAtATime)
<1> SUFFICES ASSUME Alone \/ ~Corrections PROVE Spec => []OneStageAtATime
  OBVIOUS
<1>1. Spec => []TidyInv
  BY TidyHolds DEF Undisturbed
<1>2. TidyInv => OneStageAtATime
  BY TidyIsOneStage DEF TidyInv
<1> QED
  BY <1>1, <1>2, PTL

-----------------------------------------------------------------------------
(* The tickets within the order.  What a ticket stands for only falls: its   *)
(* quantity stays, an end in defect stays, and what the keeper confirmed as *)
(* defect stays.                                                            *)
MoreDefects(w, v) ==
    /\ DOMAIN w \subseteq DOMAIN v
    /\ \A i \in DOMAIN w : w[i].confirmed => v[i].confirmed /\ v[i].defect = w[i].defect
StandsForLess(c, d) ==
    d.live => c.live /\ d.qty = c.qty /\ (c.outcome = "DEFECT" => d.outcome = "DEFECT")
Lessens(o, p) == \A t \in Tickets :
    StandsForLess(o.sheet[t], p.sheet[t]) /\ MoreDefects(o.work[t], p.work[t])

(* Nothing is confirmed that is not back.                                   *)
OutUnconfirmed(w) == \A h \in Holders : \A i \in DOMAIN w[h] :
    w[h][i].returned = NotYet => ~w[h][i].confirmed

DefectTerms(entries) == [i \in DOMAIN entries |-> IF entries[i].confirmed THEN entries[i].defect ELSE 0]

LEMMA DefectsType ==
    ASSUME NEW w \in Seq(EntryValues)
    PROVE  /\ IsFiniteSet(DOMAIN w) /\ Defects(w) \in Nat
           /\ Defects(w) = SumFunctionOnSet(DefectTerms(w), DOMAIN w)
           /\ \A i \in DOMAIN w : DefectTerms(w)[i] \in Nat
<1>1. IsFiniteSet(DOMAIN w)
  <2>1. DOMAIN w = 1..Len(w) /\ Len(w) \in Nat
    OBVIOUS
  <2>2. PICK n \in Nat : n = Len(w)
    BY Zenon, <2>1
  <2>3. IsFiniteSet(1..n)
    BY <2>2, FS_Interval
  <2> QED
    BY <2>1, <2>2, <2>3
<1>2. ASSUME NEW i \in DOMAIN w PROVE DefectTerms(w)[i] \in Nat
  <2>1. w[i] \in EntryValues
    OBVIOUS
  <2>2. w[i].defect \in Nat
    BY <2>1, AmountIsNat DEF EntryValues
  <2> QED
    BY <2>2 DEF DefectTerms
<1>3. Defects(w) = SumFunctionOnSet(DefectTerms(w), DOMAIN w)
  BY DEF Defects, DefectTerms
<1>4. SumFunctionOnSet(DefectTerms(w), DOMAIN w) \in Nat
  BY <1>1, <1>2, SumIsNat
<1> QED
  BY <1>1, <1>2, <1>3, <1>4

LEMMA DefectsGrow ==
    ASSUME NEW w \in Seq(EntryValues), NEW v \in Seq(EntryValues), MoreDefects(w, v)
    PROVE  Defects(w) <= Defects(v)
<1> DEFINE f == DefectTerms(w)
           g == DefectTerms(v)
<1>1. /\ IsFiniteSet(DOMAIN w) /\ Defects(w) \in Nat /\ Defects(w) = SumFunctionOnSet(f, DOMAIN w)
      /\ \A i \in DOMAIN w : f[i] \in Nat
  BY DefectsType
<1>2. /\ IsFiniteSet(DOMAIN v) /\ Defects(v) \in Nat /\ Defects(v) = SumFunctionOnSet(g, DOMAIN v)
      /\ \A i \in DOMAIN v : g[i] \in Nat
  BY DefectsType
<1>3. \A i \in DOMAIN w : w[i].confirmed => g[i] = f[i]
  BY DEF MoreDefects, DefectTerms
<1>4. \A i \in DOMAIN w : ~w[i].confirmed => f[i] = 0
  BY DEF DefectTerms
<1>5. DOMAIN w \subseteq DOMAIN v
  BY DEF MoreDefects
<1> HIDE DEF f, g
<1>6. \A i \in DOMAIN w : g[i] \in Int /\ f[i] \in Int /\ f[i] <= g[i]
  BY <1>1, <1>2, <1>3, <1>4, <1>5
<1>7. SumFunctionOnSet(f, DOMAIN w) <= SumFunctionOnSet(g, DOMAIN w)
  BY <1>1, <1>6, SumNotMore
<1>8. SumFunctionOnSet(g, DOMAIN w) <= SumFunctionOnSet(g, DOMAIN v)
  BY <1>2, <1>5, SumOfPart
<1>9. SumFunctionOnSet(g, DOMAIN w) \in Int
  BY <1>1, <1>6, SumIsInt
<1> QED
  BY <1>1, <1>2, <1>7, <1>8, <1>9

LEMMA NetType ==
    ASSUME NEW o \in Orders, NEW t \in Tickets
    PROVE  /\ NetQty(o, t) \in Nat /\ NetQty(o, t) <= o.sheet[t].qty
           /\ o.sheet[t].outcome # "DEFECT" =>
                /\ NetQty(o, t) >= o.sheet[t].qty - Defects(o.work[t])
                /\ NetQty(o, t) \in {0, o.sheet[t].qty - Defects(o.work[t])}
<1>1. t \in Holders
  BY LiveAreTickets
<1>2. o.sheet[t].qty \in Nat /\ Defects(o.work[t]) \in Nat
  BY <1>1, SheetParts, AmountIsNat, DefectsType
<1> DEFINE x == o.sheet[t].qty - Defects(o.work[t])
<1>3. x \in Int /\ x <= o.sheet[t].qty
  BY <1>2
<1>4. NetQty(o, t) = IF o.sheet[t].outcome = "DEFECT" THEN 0 ELSE Max({0, x})
  BY DEF NetQty
<1> HIDE DEF x
<1>5. Max({0, x}) \in {0, x} /\ Max({0, x}) >= 0 /\ Max({0, x}) >= x
  BY <1>3, MaxOfTwo
<1> QED
  BY <1>2, <1>3, <1>4, <1>5 DEF x

LEMMA NetFalls ==
    ASSUME NEW o \in Orders, NEW p \in Orders, NEW t \in Tickets, p.sheet[t].live,
           StandsForLess(o.sheet[t], p.sheet[t]), MoreDefects(o.work[t], p.work[t])
    PROVE  NetQty(p, t) <= NetQty(o, t)
<1>1. t \in Holders
  BY LiveAreTickets
<1>2. o.work[t] \in Seq(EntryValues) /\ p.work[t] \in Seq(EntryValues)
  BY <1>1, SheetParts
<1>3. Defects(o.work[t]) <= Defects(p.work[t])
  BY <1>2, DefectsGrow
<1>4. Defects(o.work[t]) \in Nat /\ Defects(p.work[t]) \in Nat
  BY <1>2, DefectsType
<1>5. p.sheet[t].qty = o.sheet[t].qty /\ (o.sheet[t].outcome = "DEFECT" => p.sheet[t].outcome = "DEFECT")
  BY DEF StandsForLess
<1>6. o.sheet[t].qty \in Nat
  BY <1>1, SheetParts, AmountIsNat
<1>7. NetQty(o, t) \in Nat /\ NetQty(p, t) \in Nat
  BY NetType
<1>8. CASE p.sheet[t].outcome = "DEFECT"
  <2>1. NetQty(p, t) = 0
    BY <1>8 DEF NetQty
  <2> QED
    BY <1>7, <2>1
<1>9. CASE p.sheet[t].outcome # "DEFECT"
  <2>1. NetQty(o, t) >= o.sheet[t].qty - Defects(o.work[t])
    BY <1>5, <1>9, NetType
  <2>2. NetQty(p, t) \in {0, p.sheet[t].qty - Defects(p.work[t])}
    BY <1>9, NetType
  <2> QED
    BY <1>3, <1>4, <1>5, <1>6, <1>7, <2>1, <2>2
<1> QED
  BY <1>8, <1>9

NetOf(o) == [t \in Tickets |-> NetQty(o, t)]

LEMMA TotalFalls ==
    ASSUME NEW o \in Orders, NEW p \in Orders, Lessens(o, p)
    PROVE  TotalNet(p, Live(p)) <= TotalNet(o, Live(o)) /\ TotalNet(p, Live(p)) \in Nat
<1>1. Live(p) \subseteq Live(o) /\ Live(o) \subseteq Tickets /\ IsFiniteSet(Live(o)) /\ IsFiniteSet(Live(p))
  BY LiveAreTickets DEF Live, Lessens, StandsForLess
<1>2. \A t \in Live(p) : NetQty(p, t) <= NetQty(o, t)
  BY NetFalls DEF Lessens, Live
<1>3. \A t \in Tickets : NetOf(o)[t] \in Nat /\ NetOf(p)[t] \in Nat
  BY NetType DEF NetOf
<1>4. \A t \in Live(p) : NetOf(o)[t] \in Int /\ NetOf(p)[t] \in Int /\ NetOf(p)[t] <= NetOf(o)[t]
  BY <1>1, <1>2, <1>3 DEF NetOf
<1>5. SumFunctionOnSet(NetOf(p), Live(p)) <= SumFunctionOnSet(NetOf(o), Live(p))
  BY <1>1, <1>4, SumNotMore
<1>6. SumFunctionOnSet(NetOf(o), Live(p)) <= SumFunctionOnSet(NetOf(o), Live(o))
  BY <1>1, <1>3, SumOfPart
<1>7. /\ SumFunctionOnSet(NetOf(p), Live(p)) \in Nat /\ SumFunctionOnSet(NetOf(o), Live(p)) \in Nat
      /\ SumFunctionOnSet(NetOf(o), Live(o)) \in Nat
  <2>1. \A t \in Live(o) : NetOf(o)[t] \in Nat
    BY <1>1, <1>3
  <2>2. \A t \in Live(p) : NetOf(o)[t] \in Nat
    BY <1>1, <1>3
  <2>3. \A t \in Live(p) : NetOf(p)[t] \in Nat
    BY <1>1, <1>3
  <2> QED
    BY <1>1, <2>1, <2>2, <2>3, SumIsNat
<1>8. TotalNet(p, Live(p)) = SumFunctionOnSet(NetOf(p), Live(p))
      /\ TotalNet(o, Live(o)) = SumFunctionOnSet(NetOf(o), Live(o))
  BY DEF TotalNet, NetOf
<1> QED
  BY <1>5, <1>6, <1>7, <1>8

LEMMA LessensTwice ==
    ASSUME NEW o, NEW p, NEW q, Lessens(o, p), Lessens(p, q)
    PROVE  Lessens(o, q)
  BY DEF Lessens, StandsForLess, MoreDefects

(* Only sheets change, and the pieces on them do not.                       *)
LEMMA LessensCards ==
    ASSUME NEW o, NEW p, p.work = o.work,
           \A t \in Tickets : p.sheet[t].live => /\ o.sheet[t].live
                                                 /\ p.sheet[t].qty = o.sheet[t].qty
                                                 /\ p.sheet[t].outcome = o.sheet[t].outcome
    PROVE  Lessens(o, p)
  BY DEF Lessens, StandsForLess, MoreDefects

LEMMA LessensSame ==
    ASSUME NEW o, NEW p, p.sheet = o.sheet, p.work = o.work
    PROVE  Lessens(o, p)
  BY DEF Lessens, StandsForLess, MoreDefects

(* One entry that was not confirmed is rewritten.                           *)
LEMMA LessensEntry ==
    ASSUME NEW o \in Orders, NEW p, NEW h \in Holders, NEW i \in DOMAIN o.work[h], NEW e,
           Rewrites(o, p, h, i, e),
           o.work[h][i].confirmed => e.confirmed /\ e.defect = o.work[h][i].defect
    PROVE  Lessens(o, p)
<1>1. /\ p.sheet = o.sheet /\ p.work[h][i] = e /\ DOMAIN p.work[h] = DOMAIN o.work[h]
      /\ \A j \in DOMAIN o.work[h] : j # i => p.work[h][j] = o.work[h][j]
      /\ \A g \in Holders : g # h => p.work[g] = o.work[g]
  BY DEF Rewrites
<1>2. \A t \in Tickets : MoreDefects(o.work[t], p.work[t])
  BY <1>1, LiveAreTickets DEF MoreDefects
<1> QED
  BY <1>1, <1>2 DEF Lessens, StandsForLess

(* A ticket is closed.                                                      *)
LEMMA LessensClosed ==
    ASSUME NEW o \in Orders, NEW t \in Tickets, NEW end \in Outcomes, NEW p, p = Close(o, t, end),
           o.sheet[t].outcome = "DEFECT" => end = "DEFECT"
    PROVE  Lessens(o, p) /\ p \in Orders
<1>1. t \in Holders /\ Tickets \subseteq Holders
  BY LiveAreTickets
<1>2. /\ p \in Orders /\ p.work = o.work /\ p.sheet[t].live = o.sheet[t].live
      /\ p.sheet[t].qty = o.sheet[t].qty /\ p.sheet[t].outcome = end
      /\ \A g \in Holders : g # t => p.sheet[g] = o.sheet[g]
  BY <1>1, CloseShape
<1> QED
  BY <1>1, <1>2 DEF Lessens, StandsForLess, MoreDefects

-----------------------------------------------------------------------------
(* The steps after which the tickets stand for no more than before.         *)
LEMMA PendingLessens ==
    ASSUME CoreInv,
           \/ OpenOrderStage \/ AssignOrder \/ Assign
           \/ CancelPending \/ CancelOrderPending \/ Unclaim \/ UnclaimOrder
    PROVE  Lessens(order, order') /\ order'.work = order.work
<1>1. order \in Orders /\ order'.work = order.work
  BY PendingCore DEF CoreInv
<1>2. /\ Tickets \subseteq Holders /\ Parent \in Holders /\ Parent \notin Tickets
      /\ Live(order) \subseteq Tickets
  BY LiveAreTickets
<1>3. order.sheet \in [Holders -> SheetValues]
  BY <1>1, OrderParts
<1>4. CASE OpenOrderStage \/ AssignOrder
  <2>1. PICK card : order' = [order EXCEPT !.sheet[Parent] = card]
    <3>1. CASE OpenOrderStage
      BY <3>1 DEF OpenOrderStage, Mutate
    <3>2. CASE AssignOrder
      <4>1. PICK s, n : order' = [order EXCEPT !.sheet[Parent].pending = s,
                                      !.sheet[Parent].claimed = TRUE, !.sheet[Parent].give = n]
        BY Zenon, <3>2 DEF AssignOrder, Mutate
      <4>2. order' = [order EXCEPT !.sheet[Parent] =
                         [order.sheet[Parent] EXCEPT !.pending = s, !.claimed = TRUE, !.give = n]]
        BY <1>1, <1>2, <1>3, <4>1 DEF Orders
      <4> QED
        BY <4>2
    <3> QED
      BY <1>4, <3>1, <3>2
  <2>2. order'.sheet = [order.sheet EXCEPT ![Parent] = card]
    BY <1>1, <2>1 DEF Orders
  <2>3. \A t \in Tickets : order'.sheet[t] = order.sheet[t]
    BY <1>2, <1>3, <2>2
  <2> QED
    BY <1>1, <2>3, LessensCards
<1>5. CASE Assign
  <2>1. PICK t, s :
          /\ t \in Live(order)
          /\ order' = [order EXCEPT !.sheet[t].pending = s, !.sheet[t].claimed = TRUE]
    BY Zenon, <1>5 DEF Assign, MutateTicket
  <2>2. order'.sheet = [order.sheet EXCEPT ![t] = [order.sheet[t] EXCEPT !.pending = s, !.claimed = TRUE]]
    BY <1>1, <1>2, <1>3, <2>1 DEF Orders
  <2> DEFINE a == [order.sheet[t] EXCEPT !.pending = s, !.claimed = TRUE]
  <2>3. a.live = order.sheet[t].live /\ a.qty = order.sheet[t].qty /\ a.outcome = order.sheet[t].outcome
    BY <1>2, <1>3, <2>1 DEF SheetValues
  <2> HIDE DEF a
  <2>4. \A g \in Tickets : /\ order'.sheet[g].live = order.sheet[g].live
                           /\ order'.sheet[g].qty = order.sheet[g].qty
                           /\ order'.sheet[g].outcome = order.sheet[g].outcome
    BY <1>2, <1>3, <2>1, <2>2, <2>3 DEF a
  <2> QED
    BY <1>1, <2>4, LessensCards
<1>6. CASE CancelPending \/ CancelOrderPending \/ Unclaim \/ UnclaimOrder
  <2>1. PICK h \in Holders, d \in BOOLEAN :
          order' = [order EXCEPT !.sheet[h] =
              IF d THEN ClearPending(order.sheet[h]) ELSE [order.sheet[h] EXCEPT !.claimed = FALSE]]
    BY <1>2, <1>6 DEF CancelPending, CancelOrderPending, Unclaim, UnclaimOrder, Mutate, MutateTicket
  <2> DEFINE a == ClearPending(order.sheet[h])
             b == [order.sheet[h] EXCEPT !.claimed = FALSE]
  <2>2. order'.sheet = [order.sheet EXCEPT ![h] = IF d THEN a ELSE b]
    BY <1>1, <2>1 DEF Orders
  <2>3. a.live = order.sheet[h].live /\ a.qty = order.sheet[h].qty /\ a.outcome = order.sheet[h].outcome
    BY <1>3, ClearedShape
  <2>4. b.live = order.sheet[h].live /\ b.qty = order.sheet[h].qty /\ b.outcome = order.sheet[h].outcome
    BY <1>3 DEF SheetValues
  <2> HIDE DEF a, b
  <2>5. \A g \in Tickets : /\ order'.sheet[g].live = order.sheet[g].live
                           /\ order'.sheet[g].qty = order.sheet[g].qty
                           /\ order'.sheet[g].outcome = order.sheet[g].outcome
    BY <1>2, <1>3, <2>2, <2>3, <2>4
  <2> QED
    BY <1>1, <2>5, LessensCards
<1> QED
  BY <1>1, <1>4, <1>5, <1>6

LEMMA OutcomeLessens ==
    ASSUME CoreInv, SetOutcome \/ SetStoneSkipped \/ StockReceipt
    PROVE  Lessens(order, order') /\ order'.work = order.work
<1>1. order \in Orders /\ order'.work = order.work
  BY OutcomeCore DEF CoreInv
<1>2. /\ Tickets \subseteq Holders /\ Live(order) \subseteq Tickets
  BY LiveAreTickets
<1>3. CASE SetOutcome
  <2>1. PICK t \in Live(order), end \in {"FINISH", "DEFECT"} :
          StateOf(order, t) = "IDLE" /\ Mutate(SyncOrder(Close(order, t, end)))
    BY <1>3 DEF SetOutcome
  <2>2. end \in Outcomes /\ t \in Tickets /\ t \in Holders
    BY <1>2, <2>1 DEF Outcomes
  <2>3. order.sheet[t].outcome = "NONE"
    BY <1>1, <2>1, <2>2, IdleHasNothingOut
  <2> DEFINE o == Close(order, t, end)
             p == SyncOrder(o)
  <2>4. Lessens(order, o) /\ o \in Orders
    BY <1>1, <2>2, <2>3, LessensClosed
  <2>5. order' = p
    BY <2>1 DEF Mutate
  <2> HIDE DEF o
  <2>6. p.sheet = o.sheet /\ p.work = o.work
    BY <2>4, SyncShape
  <2> HIDE DEF p
  <2>7. Lessens(o, p)
    BY <2>6, LessensSame
  <2> QED
    BY <1>1, <2>4, <2>5, <2>7, LessensTwice
<1>4. CASE SetStoneSkipped \/ StockReceipt
  <2>1. order'.sheet = order.sheet
    BY Zenon, <1>1, <1>4 DEF SetStoneSkipped, StockReceipt, Mutate, Orders
  <2> QED
    BY <1>1, <2>1, LessensSame
<1> QED
  BY <1>3, <1>4

LEMMA ReportLessens ==
    ASSUME CoreInv, OutUnconfirmed(order.work),
           \/ Submit \/ SubmitOrder \/ ReportStageDefect
           \/ Unsubmit \/ UnsubmitOrder \/ ClearStageDefect \/ CreateRework
    PROVE  Lessens(order, order') /\ OutUnconfirmed(order'.work)
<1>1. order \in Orders
  BY DEF CoreInv
<1>2. PICK h \in Holders : \E i \in DOMAIN order.work[h], e \in EntryValues :
               /\ Rewrites(order, order', h, i, e)
               /\ e.returned = order.work[h][i].returned
               /\ e.defect = order.work[h][i].defect
               /\ e.confirmed = order.work[h][i].confirmed
  BY ReportShape
<1>3. PICK i \in DOMAIN order.work[h], e \in EntryValues :
               /\ Rewrites(order, order', h, i, e)
               /\ e.returned = order.work[h][i].returned
               /\ e.defect = order.work[h][i].defect
               /\ e.confirmed = order.work[h][i].confirmed
  BY <1>2
<1>4. Lessens(order, order')
  BY <1>1, <1>3, LessensEntry
<1>5. OutUnconfirmed(order'.work)
  BY <1>3 DEF OutUnconfirmed, Rewrites
<1> QED
  BY <1>4, <1>5

LEMMA BeginLessens ==
    ASSUME CoreInv, OutUnconfirmed(order.work), Accept \/ AcceptOrder \/ Take \/ TakeOrder
    PROVE  Lessens(order, order') /\ OutUnconfirmed(order'.work)
<1>1. order \in Orders /\ Tickets \subseteq Holders
  BY LiveAreTickets DEF CoreInv
<1>2. PICK h \in Holders, s \in Stages, n \in Amount : Begin(h, s, n)
  BY WhoBegins
<1> DEFINE e == Entry(s, n)
<1>3. /\ OthersStay(order, order', h) /\ order'.work[h] = Append(order.work[h], e)
      /\ Alike(order.sheet[h], order'.sheet[h])
  BY <1>2, BeginShape
<1>4. e \in EntryValues /\ ~e.confirmed
  BY EntryShape
<1> HIDE DEF e
<1>5. order.work[h] \in Seq(EntryValues)
  BY <1>1, SheetParts
<1>6. /\ DOMAIN order.work[h] \subseteq DOMAIN order'.work[h]
      /\ \A i \in DOMAIN order.work[h] : order'.work[h][i] = order.work[h][i]
      /\ \A i \in DOMAIN order'.work[h] : i \in DOMAIN order.work[h] \/ order'.work[h][i] = e
  BY <1>3, <1>4, <1>5
<1>7. \A t \in Tickets : MoreDefects(order.work[t], order'.work[t])
  BY <1>1, <1>3, <1>6 DEF MoreDefects, OthersStay
<1>8. \A t \in Tickets : StandsForLess(order.sheet[t], order'.sheet[t])
  BY <1>1, <1>3 DEF OthersStay, Alike, StandsForLess
<1>9. OutUnconfirmed(order'.work)
  <2>1. \A g \in Holders : g # h => order'.work[g] = order.work[g]
    BY <1>3 DEF OthersStay
  <2>2. \A i \in DOMAIN order'.work[h] : order'.work[h][i].returned = NotYet => ~order'.work[h][i].confirmed
    BY <1>4, <1>6 DEF OutUnconfirmed
  <2> QED
    BY <2>1, <2>2 DEF OutUnconfirmed
<1> QED
  BY <1>7, <1>8, <1>9 DEF Lessens

LEMMA ConfirmLessens ==
    ASSUME CoreInv, OutUnconfirmed(order.work), ConfirmStage
    PROVE  Lessens(order, order') /\ OutUnconfirmed(order'.work)
<1>1. order \in Orders /\ Tickets \subseteq Holders /\ Parent \notin Tickets
  BY LiveAreTickets DEF CoreInv
<1>2. PICK h \in Holders : \E i \in Unconfirmed(order, h), p \in Orders, closed \in BOOLEAN :
               /\ Confirms(order.work, p.work, h, i) /\ p.work[h][i].defect = order.work[h][i].defect
               /\ \A g \in Holders : g # h => p.sheet[g] = order.sheet[g]
               /\ ~closed => p.sheet = order.sheet
               /\ closed => /\ p.sheet[h].live = order.sheet[h].live
                            /\ p.sheet[h].qty = order.sheet[h].qty
               /\ closed /\ h # Parent => p.sheet[h].outcome = "DEFECT"
               /\ order' = SyncOrderAfterStage(p, closed)
  BY ConfirmShape
<1>3. PICK i \in Unconfirmed(order, h), p \in Orders, closed \in BOOLEAN :
               /\ Confirms(order.work, p.work, h, i) /\ p.work[h][i].defect = order.work[h][i].defect
               /\ \A g \in Holders : g # h => p.sheet[g] = order.sheet[g]
               /\ ~closed => p.sheet = order.sheet
               /\ closed => /\ p.sheet[h].live = order.sheet[h].live
                            /\ p.sheet[h].qty = order.sheet[h].qty
               /\ closed /\ h # Parent => p.sheet[h].outcome = "DEFECT"
               /\ order' = SyncOrderAfterStage(p, closed)
  BY <1>2
<1>4. order.work[h][i].returned # NotYet /\ i \in DOMAIN order.work[h]
  BY DEF Unconfirmed
<1>5. order'.sheet = p.sheet /\ order'.work = p.work
  BY <1>3, SyncAfterShape
<1>6. \A t \in Tickets : MoreDefects(order.work[t], p.work[t])
  BY <1>1, <1>3, <1>4 DEF Confirms, MoreDefects
<1>7. \A t \in Tickets : StandsForLess(order.sheet[t], p.sheet[t])
  BY <1>1, <1>3 DEF StandsForLess
<1>8. OutUnconfirmed(p.work)
  BY <1>3, <1>4 DEF OutUnconfirmed, Confirms
<1> QED
  BY <1>5, <1>6, <1>7, <1>8 DEF Lessens

LEMMA AdvanceLessens ==
    ASSUME NEW o \in Orders, NEW h \in Holders, NEW e \in EntryValues,
           e.stage \notin KEEPER_CONFIRM_STAGES
    PROVE  Lessens(o, AdvanceAfterQc(o, h, e)) /\ AdvanceAfterQc(o, h, e).work = o.work
<1> DEFINE p == AdvanceAfterQc(o, h, e)
<1>1. \/ p = o
      \/ OthersStay(o, p, h) /\ p.work = o.work /\ Alike(o.sheet[h], p.sheet[h])
      \/ h # Parent /\ o.sheet[h].outcome = "NONE" /\ p = SyncOrder(Close(o, h, "FINISH"))
      \/ p.sheet = o.sheet /\ p.work = o.work
  BY AdvanceShape
<1> SUFFICES Lessens(o, p) /\ p.work = o.work
  OBVIOUS
<1> HIDE DEF p
<1>2. CASE p = o \/ (p.sheet = o.sheet /\ p.work = o.work)
  BY <1>2, LessensSame
<1>3. CASE OthersStay(o, p, h) /\ p.work = o.work /\ Alike(o.sheet[h], p.sheet[h])
  <2>1. \A t \in Tickets : /\ p.sheet[t].live = o.sheet[t].live
                           /\ p.sheet[t].qty = o.sheet[t].qty
                           /\ p.sheet[t].outcome = o.sheet[t].outcome
    BY <1>3, LiveAreTickets DEF OthersStay, Alike
  <2> QED
    BY <1>3, <2>1, LessensCards
<1>4. CASE h # Parent /\ o.sheet[h].outcome = "NONE" /\ p = SyncOrder(Close(o, h, "FINISH"))
  <2> DEFINE q == Close(o, h, "FINISH")
  <2>1. h \in Tickets /\ "FINISH" \in Outcomes
    BY <1>4 DEF Holders, Outcomes
  <2>2. Lessens(o, q) /\ q \in Orders
    BY <1>4, <2>1, LessensClosed
  <2>3. q.work = o.work
    BY <2>1, CloseShape
  <2>4. p = SyncOrder(q)
    BY <1>4
  <2> HIDE DEF q
  <2>5. p.sheet = q.sheet /\ p.work = q.work
    BY <2>2, <2>4, SyncShape
  <2> QED
    BY <2>2, <2>3, <2>5, LessensSame, LessensTwice
<1> QED
  BY <1>1, <1>2, <1>3, <1>4

LEMMA ReturnLessens ==
    ASSUME FlowInv, CoreInv, OutUnconfirmed(order.work), NEW c \in Clients, ReturnSave(c)
    PROVE  Lessens(order, order') /\ OutUnconfirmed(order'.work)
<1>1. order \in Orders
  BY DEF CoreInv
<1>2. CASE Refuse(c)
  BY <1>2, LessensSame DEF Refuse
<1>3. CASE ~Refuse(c)
  <2>1. PICK h \in Holders : \E i \in Busy(order, h), e \in EntryValues, saved \in Orders : \E o, next :
                /\ Rewrites(order, saved, h, i, e)
                /\ e.returned \in Amount
                /\ Advances(saved, o, h, e)
                /\ Save(c, o, next)
    BY <1>3, ReturnShape
  <2>2. PICK i \in Busy(order, h), e \in EntryValues, saved \in Orders :
             \E o, next :
                /\ Rewrites(order, saved, h, i, e)
                /\ e.returned \in Amount
                /\ Advances(saved, o, h, e)
                /\ Save(c, o, next)
    BY <2>1
  <2>3. PICK o, next :
                /\ Rewrites(order, saved, h, i, e)
                /\ e.returned \in Amount
                /\ Advances(saved, o, h, e)
                /\ Save(c, o, next)
    BY <2>2
  <2>4. order' = o
    BY <2>3 DEF Save
  <2>5. i \in DOMAIN order.work[h] /\ ~order.work[h][i].confirmed
    BY DEF Busy, OpenAt, Unconfirmed, OutUnconfirmed
  <2>6. Lessens(order, saved)
    BY <1>1, <2>3, <2>5, LessensEntry
  <2>7. e.returned # NotYet
    <3>1. e.returned \in Nat
      BY <2>3, AmountIsNat
    <3> QED
      BY <3>1 DEF NotYet
  <2>8. OutUnconfirmed(saved.work)
    BY <2>3, <2>7 DEF OutUnconfirmed, Rewrites
  <2>9. CASE o = saved
    BY <2>4, <2>6, <2>8, <2>9
  <2>10. CASE e.stage \notin KEEPER_CONFIRM_STAGES /\ o = AdvanceAfterQc(saved, h, e)
    <3>1. Lessens(saved, o) /\ o.work = saved.work
      BY <2>10, AdvanceLessens
    <3> QED
      BY <2>4, <2>6, <2>8, <3>1, LessensTwice
  <2>11. CASE h # Parent /\ o = SyncOrderAfterStage(Close(saved, h, "DEFECT"), TRUE)
    <3> DEFINE q == Close(saved, h, "DEFECT")
    <3>1. h \in Tickets /\ "DEFECT" \in Outcomes
      BY <2>11 DEF Holders, Outcomes
    <3>2. q \in Orders /\ q.work = saved.work
      BY <3>1, CloseShape
    <3>3. Lessens(saved, q)
      BY <3>1, LessensClosed
    <3>4. PICK k \in BOOLEAN : k = TRUE
      OBVIOUS
    <3>5. o = SyncOrderAfterStage(q, k)
      BY <2>11, <3>4
    <3> HIDE DEF q
    <3>6. o.sheet = q.sheet /\ o.work = q.work
      BY <3>2, <3>5, SyncAfterShape
    <3>7. Lessens(q, o)
      BY <3>6, LessensSame
    <3>8. Lessens(order, o)
      BY <2>6, <3>3, <3>7, LessensTwice
    <3> QED
      BY <2>4, <2>8, <3>2, <3>6, <3>8
  <2> QED
    BY <2>3, <2>9, <2>10, <2>11 DEF Advances
<1> QED
  BY <1>2, <1>3

LEMMA WritesLessen ==
    ASSUME CoreInv, NEW c \in Clients,
           FinishSave(c) \/ UndoFinishSave(c) \/ StatusSave(c) \/ ChangeStatusSave(c)
    PROVE  Lessens(order, order') /\ order'.work = order.work
<1>1. order \in Orders /\ order'.work = order.work
  BY FinishSaveCore, StatusSaveCore, ChangeSaveCore DEF CoreInv
<1>2. CASE FinishSave(c) \/ UndoFinishSave(c) \/ StatusSave(c)
  <2>1. order'.sheet = order.sheet
    BY <1>1, <1>2 DEF FinishSave, UndoFinishSave, StatusSave, Save, Refuse, Orders
  <2> QED
    BY <1>1, <2>1, LessensSame
<1>3. CASE ChangeStatusSave(c)
  <2>1. CASE Refuse(c)
    BY <1>1, <2>1, LessensSame DEF Refuse
  <2>2. CASE ~Refuse(c)
    <3> DEFINE r == req[c]
               x == r.to
               receipt == IF r.leave THEN NoReceipt ELSE order.receipt
               g == [h \in Holders |-> IF h \in ClearSeen(r) THEN ClearPending(order.sheet[h])
                                       ELSE order.sheet[h]]
    <3>1. Save(c, [order EXCEPT !.status = x, !.receipt = receipt, !.sheet = g], x)
      BY <1>3, <2>2 DEF ChangeStatusSave
    <3>2. \A h \in Holders : order.sheet[h] \in SheetValues
      BY <1>1, SheetParts
    <3>3. \A h \in Holders :
            /\ ClearPending(order.sheet[h]).live = order.sheet[h].live
            /\ ClearPending(order.sheet[h]).outcome = order.sheet[h].outcome
            /\ ClearPending(order.sheet[h]).qty = order.sheet[h].qty
      BY <3>2, ClearedShape
    <3>4. \A h \in Holders : /\ g[h].live = order.sheet[h].live
                             /\ g[h].outcome = order.sheet[h].outcome
                             /\ g[h].qty = order.sheet[h].qty
      BY <3>3
    <3> HIDE DEF x, receipt, g, r
    <3>5. order'.sheet = g
      BY <1>1, <3>1 DEF Save, Orders
    <3> QED
      BY <1>1, <3>4, <3>5, LessensCards, LiveAreTickets
  <2> QED
    BY <2>1, <2>2
<1> QED
  BY <1>1, <1>2, <1>3

-----------------------------------------------------------------------------
(* The steps that give pieces out.                                          *)
LEMMA NetWithin ==
    ASSUME NEW o \in Orders, NEW f, \A t \in Live(o) : f[t] \in Int /\ o.sheet[t].qty <= f[t]
    PROVE  TotalNet(o, Live(o)) <= SumFunctionOnSet(f, Live(o))
           /\ TotalNet(o, Live(o)) \in Int /\ SumFunctionOnSet(f, Live(o)) \in Int
<1>1. Live(o) \subseteq Tickets /\ IsFiniteSet(Live(o)) /\ Tickets \subseteq Holders
  BY LiveAreTickets
<1>2. \A t \in Tickets : NetQty(o, t) \in Nat /\ NetQty(o, t) <= o.sheet[t].qty /\ o.sheet[t].qty \in Nat
  BY <1>1, NetType, SheetParts, AmountIsNat
<1> DEFINE g == NetOf(o)
<1>3. \A t \in Live(o) : f[t] \in Int /\ g[t] \in Int /\ g[t] <= f[t]
  BY <1>1, <1>2 DEF NetOf
<1>4. TotalNet(o, Live(o)) = SumFunctionOnSet(g, Live(o))
  BY DEF TotalNet, NetOf
<1> HIDE DEF g
<1>5. SumFunctionOnSet(g, Live(o)) <= SumFunctionOnSet(f, Live(o))
  BY <1>1, <1>3, SumNotMore
<1>6. SumFunctionOnSet(g, Live(o)) \in Int /\ SumFunctionOnSet(f, Live(o)) \in Int
  BY <1>1, <1>3, SumIsInt
<1> QED
  BY <1>4, <1>5, <1>6

LEMMA SplitNet ==
    ASSUME CoreInv, Split
    PROVE  TotalNet(order', Live(order')) <= OrderQty
<1>1. order \in Orders /\ Tickets \subseteq Holders
  BY LiveAreTickets DEF CoreInv
<1>2. PICK ts \in SUBSET Tickets : \E f \in [ts -> 1..OrderQty] :
          /\ SumFunctionOnSet(f, ts) <= OrderQty
          /\ Mutate([order EXCEPT !.sheet =
                  [h \in Holders |-> IF h \in ts THEN Sheet(f[h]) ELSE order.sheet[h]]])
  BY DEF Split
<1>3. PICK f \in [ts -> 1..OrderQty] :
          /\ SumFunctionOnSet(f, ts) <= OrderQty
          /\ Mutate([order EXCEPT !.sheet =
                  [h \in Holders |-> IF h \in ts THEN Sheet(f[h]) ELSE order.sheet[h]]])
  BY <1>2
<1> DEFINE p == order'
<1>4. p.sheet = [h \in Holders |-> IF h \in ts THEN Sheet(f[h]) ELSE order.sheet[h]]
  BY <1>1, <1>3 DEF Mutate, Orders
<1>5. p \in Orders
  BY DivideCore DEF CoreInv
<1>6. Live(order) = {}
  BY DEF Split
<1> SUFFICES TotalNet(p, Live(p)) <= OrderQty
  OBVIOUS
<1> HIDE DEF p
<1>7. \A t \in ts : f[t] \in Int /\ f[t] > 0 /\ f[t] \in Amount
  BY SizeAssumption DEF Amount
<1>8. ASSUME NEW t \in ts PROVE p.sheet[t].live /\ p.sheet[t].qty = f[t]
  <2> DEFINE n == f[t]
  <2>1. p.sheet[t] = Sheet(n)
    BY <1>1, <1>4
  <2>2. n \in Amount /\ n > 0
    BY <1>7
  <2> HIDE DEF n
  <2>3. Sheet(n).live = (n > 0) /\ Sheet(n).qty = n
    BY <2>2, SheetShape
  <2> QED
    BY <2>1, <2>2, <2>3 DEF n
<1>9. \A t \in Tickets \ ts : ~p.sheet[t].live
  BY <1>1, <1>4, <1>6 DEF Live
<1>10. Live(p) = ts
  BY <1>8, <1>9 DEF Live
<1>11. \A t \in Live(p) : f[t] \in Int /\ p.sheet[t].qty <= f[t]
  BY <1>7, <1>8, <1>10
<1>12. TotalNet(p, Live(p)) <= SumFunctionOnSet(f, Live(p))
       /\ TotalNet(p, Live(p)) \in Int /\ SumFunctionOnSet(f, Live(p)) \in Int
  BY <1>5, <1>11, NetWithin
<1> QED
  BY <1>3, <1>10, <1>12, SizeAssumption

LEMMA CreateNet ==
    ASSUME CoreInv, CreateTicket
    PROVE  TotalNet(order', Live(order')) <= OrderQty
<1>1. order \in Orders /\ Tickets \subseteq Holders /\ Live(order) \subseteq Tickets
      /\ IsFiniteSet(Live(order))
  BY LiveAreTickets DEF CoreInv
<1>2. PICK t \in Tickets \ Live(order), n \in 1..OrderQty :
        TotalNet(order, Live(order)) + n <= OrderQty /\ Mutate([order EXCEPT !.sheet[t] = Sheet(n)])
  BY DEF CreateTicket, WithinTotals
<1> DEFINE p == order'
           card == Sheet(n)
<1>3. n \in Amount /\ n \in Nat /\ n > 0
  BY SizeAssumption DEF Amount
<1>4. card.live /\ card.qty = n
  BY <1>3 DEF Sheet
<1>5. p.sheet = [order.sheet EXCEPT ![t] = card] /\ p.work = order.work
  BY <1>1, <1>2 DEF Mutate, Orders
<1>6. p \in Orders
  BY DivideCore DEF CoreInv
<1> SUFFICES TotalNet(p, Live(p)) <= OrderQty
  OBVIOUS
<1> HIDE DEF p, card
<1>7. order.sheet \in [Holders -> SheetValues] /\ t \in Holders
  BY <1>1, OrderParts
<1>8. p.sheet[t] = card /\ \A u \in Tickets : u # t => p.sheet[u] = order.sheet[u]
  BY <1>1, <1>5, <1>7
<1>9. Live(p) = Live(order) \cup {t}
  BY <1>4, <1>8 DEF Live
<1> DEFINE f == NetOf(order)
           g == NetOf(p)
<1>10. \A u \in Tickets : f[u] \in Nat /\ g[u] \in Nat
  BY <1>1, <1>6, NetType DEF NetOf
<1>11. \A u \in Live(order) : g[u] = f[u]
  BY <1>1, <1>5, <1>8 DEF NetOf, NetQty
<1>12. g[t] <= n
  BY <1>4, <1>6, <1>8, NetType DEF NetOf
<1>13. /\ TotalNet(p, Live(p)) = SumFunctionOnSet(g, Live(order) \cup {t})
       /\ TotalNet(order, Live(order)) = SumFunctionOnSet(f, Live(order))
  BY <1>9 DEF TotalNet, NetOf
<1> HIDE DEF f, g
<1>14. SumFunctionOnSet(g, Live(order)) = SumFunctionOnSet(f, Live(order))
  BY <1>1, <1>11, SumSame
<1>15. \A u \in Live(order) \cup {t} : g[u] \in Int
  BY <1>1, <1>10
<1>16. SumFunctionOnSet(g, Live(order) \cup {t}) = g[t] + SumFunctionOnSet(g, Live(order))
  BY <1>1, <1>15, SumPutIn
<1>17. SumFunctionOnSet(g, Live(order)) \in Int
  BY <1>1, <1>15, SumIsInt
<1> QED
  BY <1>2, <1>3, <1>12, <1>13, <1>14, <1>15, <1>16, <1>17, SizeAssumption

(* The others share evenly what the ticket changed leaves of the order.     *)
LEMMA SharedEvenly ==
    ASSUME NEW S, IsFiniteSet(S), NEW t \in S, NEW n \in Nat, n <= OrderQty,
           S \ {t} # {}, NEW more \in SUBSET (S \ {t}),
           Cardinality(more) = (OrderQty - n) % Cardinality(S \ {t}),
           NEW f, f[t] = n,
           \A x \in S \ {t} : f[x] = (OrderQty - n) \div Cardinality(S \ {t})
                                        + (IF x \in more THEN 1 ELSE 0)
    PROVE  SumFunctionOnSet(f, S) = OrderQty /\ \A x \in S : f[x] \in Int
<1> DEFINE others == S \ {t}
           k == Cardinality(others)
           left == OrderQty - n
           share == left \div k
<1>1. IsFiniteSet(others)
  BY FS_Subset
<1>2. k \in Nat /\ k # 0
  BY <1>1, FS_CardinalityType, FS_EmptySet
<1>3. more \in SUBSET others /\ Cardinality(more) = left % k
      /\ \A x \in others : f[x] = share + (IF x \in more THEN 1 ELSE 0)
  OBVIOUS
<1>9. left \in Nat
  BY SizeAssumption
<1> HIDE DEF left
<1> HIDE DEF k
<1>4. share \in Int /\ left = (k * share) + (left % k) /\ left % k \in Int
  <2>1. k \in Int /\ k > 0 /\ left \in Int
    BY <1>2, <1>9
  <2> QED
    BY <2>1
<1> HIDE DEF share
<1> HIDE DEF others
<1>5. SumFunctionOnSet(f, others) = share * Cardinality(others) + Cardinality(more)
  BY <1>1, <1>3, <1>4, SumOfShares
<1>6. SumFunctionOnSet(f, others) = left
  <2>1. share * k = k * share
    BY <1>2, <1>4
  <2>2. SumFunctionOnSet(f, others) = (share * k) + (left % k)
    BY <1>3, <1>5 DEF k
  <2> QED
    BY <1>4, <2>1, <2>2
<1>7. \A x \in S : f[x] \in Int
  BY <1>3, <1>4 DEF others
<1>8. SumFunctionOnSet(f, S) = f[t] + SumFunctionOnSet(f, others)
  BY <1>7, SumTakeOut DEF others
<1> QED
  BY <1>6, <1>7, <1>8, SizeAssumption DEF left

LEMMA UpdateNet ==
    ASSUME CoreInv, UpdateTicket
    PROVE  TotalNet(order', Live(order')) <= OrderQty
<1>1. order \in Orders /\ Tickets \subseteq Holders /\ Live(order) \subseteq Tickets
      /\ IsFiniteSet(Live(order))
  BY LiveAreTickets DEF CoreInv
<1>2. PICK t \in Live(order), n \in 1..OrderQty :
        LET others == Live(order) \ {t}
            share == (OrderQty - n) \div Cardinality(others)
            extra == (OrderQty - n) % Cardinality(others)
        IN  /\ others # {}
            /\ \E more \in kSubset(extra, others) :
                Mutate([order EXCEPT !.sheet = [h \in Holders |->
                    IF h = t THEN [@[h] EXCEPT !.qty = n]
                    ELSE IF h \in others
                         THEN [@[h] EXCEPT !.qty = share + (IF h \in more THEN 1 ELSE 0)]
                    ELSE @[h]]])
  BY DEF UpdateTicket
<1> DEFINE others == Live(order) \ {t}
           share == (OrderQty - n) \div Cardinality(others)
           extra == (OrderQty - n) % Cardinality(others)
<1>3. others # {}
  BY <1>2
<1>4. PICK more \in kSubset(extra, others) :
        Mutate([order EXCEPT !.sheet = [h \in Holders |->
            IF h = t THEN [order.sheet[h] EXCEPT !.qty = n]
            ELSE IF h \in others
                 THEN [order.sheet[h] EXCEPT !.qty = share + (IF h \in more THEN 1 ELSE 0)]
            ELSE order.sheet[h]]])
  BY <1>2
<1>5. more \in SUBSET others /\ Cardinality(more) = extra
  BY DEF kSubset
<1> DEFINE f == [u \in Tickets |-> IF u = t THEN n ELSE share + (IF u \in more THEN 1 ELSE 0)]
           p == order'
<1>6. p.sheet = [h \in Holders |->
            IF h = t THEN [order.sheet[h] EXCEPT !.qty = n]
            ELSE IF h \in others
                 THEN [order.sheet[h] EXCEPT !.qty = share + (IF h \in more THEN 1 ELSE 0)]
            ELSE order.sheet[h]]
  BY <1>1, <1>4 DEF Mutate, Orders
<1>7. p \in Orders /\ \A h \in Holders : p.sheet[h].live = order.sheet[h].live
  BY UpdateTicketCore DEF CoreInv
<1>8. n \in Nat /\ n <= OrderQty
  BY SizeAssumption
<1>9. \A u \in others : f[u] = share + (IF u \in more THEN 1 ELSE 0)
  BY <1>1
<1>10. f[t] = n
  BY <1>1
<1>11. \A h \in Holders : order.sheet[h] \in SheetValues
  BY <1>1, SheetParts
<1>12. \A u \in Live(order) : p.sheet[u].qty = f[u]
  <2> SUFFICES ASSUME NEW u \in Live(order) PROVE p.sheet[u].qty = f[u]
    OBVIOUS
  <2>1. u \in Holders /\ order.sheet[u] \in SheetValues
    BY <1>1, <1>11
  <2>2. \A q : [order.sheet[u] EXCEPT !.qty = q].qty = q
    BY <2>1 DEF SheetValues
  <2>3. CASE u = t
    BY <1>6, <1>10, <2>1, <2>2, <2>3
  <2>4. CASE u # t
    <3>1. u \in others
      BY <2>4
    <3> HIDE DEF others, share, f, p
    <3> QED
      BY <1>6, <1>9, <2>1, <2>2, <2>4, <3>1
  <2> QED
    BY <2>3, <2>4
<1> SUFFICES TotalNet(p, Live(p)) <= OrderQty
  OBVIOUS
<1> HIDE DEF p, f
<1>13. SumFunctionOnSet(f, Live(order)) = OrderQty /\ \A u \in Live(order) : f[u] \in Int
  BY <1>1, <1>3, <1>5, <1>8, <1>9, <1>10, SharedEvenly
<1>14. Live(p) = Live(order)
  BY <1>1, <1>7 DEF Live
<1>15. \A u \in Live(p) : f[u] \in Int /\ p.sheet[u].qty <= f[u]
  BY <1>12, <1>13, <1>14
<1>16. TotalNet(p, Live(p)) <= SumFunctionOnSet(f, Live(p))
  BY <1>7, <1>15, NetWithin
<1> QED
  BY <1>13, <1>14, <1>16

LEMMA TakenOffLessens ==
    ASSUME CoreInv, ClearSplit \/ RemoveTicket
    PROVE  Lessens(order, order')
<1>1. order \in Orders /\ order'.work = order.work /\ Tickets \subseteq Holders
      /\ Parent \notin Tickets /\ order.sheet \in [Holders -> SheetValues]
  BY DivideCore, LiveAreTickets, OrderParts DEF CoreInv
<1>2. ~Sheet(0).live
  <2>1. PICK n \in Amount : n = 0
    BY AmountIsNat
  <2>2. Sheet(n).live = (n > 0)
    BY SheetShape
  <2>3. (n > 0) = FALSE
    BY <2>1
  <2> QED
    BY <2>1, <2>2, <2>3
<1>3. \A t \in Tickets : order'.sheet[t].live => order'.sheet[t] = order.sheet[t]
  <2>1. CASE ClearSplit
    <3>1. order'.sheet = [h \in Holders |-> IF h = Parent THEN order.sheet[h] ELSE Sheet(0)]
      BY <1>1, <2>1 DEF ClearSplit, Mutate, Orders
    <3> QED
      BY <1>1, <1>2, <3>1
  <2>2. CASE RemoveTicket
    <3>1. PICK u \in Live(order) : order' = [order EXCEPT !.sheet[u] = Sheet(0)]
      BY <2>2 DEF RemoveTicket, Mutate
    <3>2. order'.sheet = [order.sheet EXCEPT ![u] = Sheet(0)]
      BY <1>1, <3>1 DEF Orders
    <3> QED
      BY <1>1, <1>2, <3>2
  <2> QED
    BY <2>1, <2>2
<1> QED
  BY <1>1, <1>3, LessensCards

-----------------------------------------------------------------------------
NetInv == TotalNet(order, Live(order)) <= OrderQty /\ OutUnconfirmed(order.work)

LEMMA NetInit == Init => NetInv
<1> SUFFICES ASSUME Init PROVE NetInv
  OBVIOUS
<1>0. ~Sheet(0).live /\ Tickets \subseteq Holders /\ Parent \notin Tickets
  <2>1. PICK n \in Amount : n = 0
    BY AmountIsNat
  <2>2. Sheet(n).live = (n > 0)
    BY SheetShape
  <2>3. (n > 0) = FALSE
    BY <2>1
  <2> QED
    BY <2>1, <2>2, <2>3, LiveAreTickets
<1>1. \A t \in Tickets : ~order.sheet[t].live
  BY <1>0 DEF Init
<1>2. Live(order) = {}
  BY <1>1 DEF Live
<1>3. TotalNet(order, Live(order)) = 0
  BY <1>2, SumOfNone DEF TotalNet
<1>4. \A h \in Holders : order.work[h] = <<>>
  BY DEF Init
<1>5. OutUnconfirmed(order.work)
  BY <1>4 DEF OutUnconfirmed
<1> QED
  BY <1>3, <1>5, SizeAssumption DEF NetInv

LEMMA NetStep ==
    ASSUME ~Corrections, FlowInv, CoreInv, CoreInv', NetInv, [Next]_flow
    PROVE  NetInv'
<1>1. OutUnconfirmed(order.work) /\ TotalNet(order, Live(order)) <= OrderQty
      /\ order \in Orders /\ order' \in Orders
  BY DEF NetInv, CoreInv
<1>2. ASSUME order'.work = order.work, TotalNet(order', Live(order')) <= OrderQty PROVE NetInv'
  BY <1>1, <1>2 DEF NetInv
<1>3. ASSUME Lessens(order, order'), OutUnconfirmed(order'.work) PROVE NetInv'
  <2> DEFINE p == order'
  <2>1. TotalNet(p, Live(p)) <= TotalNet(order, Live(order))
    BY <1>1, <1>3, TotalFalls
  <2>2. TotalNet(p, Live(p)) \in Nat /\ TotalNet(order, Live(order)) \in Nat
    BY <1>1, <1>3, LessensSame, TotalFalls
  <2>3. TotalNet(p, Live(p)) <= OrderQty
    BY <1>1, <2>1, <2>2, SizeAssumption
  <2> QED
    BY <1>3, <2>3 DEF NetInv
<1>4. ASSUME Lessens(order, order'), order'.work = order.work PROVE NetInv'
  BY <1>1, <1>3, <1>4
<1>5. CASE Office
  <2>1. CASE Split \/ CreateTicket \/ UpdateTicket
    BY <1>2, <2>1, SplitNet, CreateNet, UpdateNet, DivideCore, UpdateTicketCore
  <2>2. CASE ClearSplit \/ RemoveTicket
    BY <1>4, <2>2, TakenOffLessens, DivideCore
  <2>3. CASE \/ OpenOrderStage \/ AssignOrder \/ Assign
             \/ CancelPending \/ CancelOrderPending \/ Unclaim \/ UnclaimOrder
    BY <1>4, <2>3, PendingLessens
  <2>4. CASE SetOutcome \/ SetStoneSkipped
    BY <1>4, <2>4, OutcomeLessens
  <2>5. CASE CreateRework
    BY <1>1, <1>3, <2>5, ReportLessens
  <2>6. ~ClearOutcome
    BY Zenon DEF ClearOutcome
  <2> QED
    BY <1>5, <2>1, <2>2, <2>3, <2>4, <2>5, <2>6 DEF Office
<1>6. CASE Workshop
  <2>1. CASE Accept \/ AcceptOrder \/ Take \/ TakeOrder
    BY <1>1, <1>3, <2>1, BeginLessens
  <2>2. CASE \/ Submit \/ SubmitOrder \/ ReportStageDefect
             \/ Unsubmit \/ UnsubmitOrder \/ ClearStageDefect
    BY <1>1, <1>3, <2>2, ReportLessens
  <2>3. CASE ConfirmStage
    BY <1>1, <1>3, <2>3, ConfirmLessens
  <2>4. CASE StockReceipt
    BY <1>4, <2>4, OutcomeLessens
  <2> QED
    BY <1>6, <2>1, <2>2, <2>3, <2>4 DEF Workshop
<1>7. CASE \E c \in Clients : Request(c)
  <2>1. PICK c \in Clients : Request(c)
    BY <1>7
  <2>2. CASE ReturnAsk(c) \/ UndoAsk(c) \/ FinishAsk(c) \/ UndoFinishAsk(c) \/ ChangeStatusAsk(c)
    <3>1. order' = order
      BY <2>2 DEF ReturnAsk, UndoAsk, FinishAsk, UndoFinishAsk, ChangeStatusAsk, Ask
    <3> QED
      BY <1>4, <3>1, LessensSame
  <2>3. CASE ReturnSave(c)
    BY <1>1, <1>3, <2>3, ReturnLessens
  <2>4. ~UndoSave(c)
    BY DEF UndoSave, CoreInv, Brings
  <2>5. CASE FinishSave(c) \/ UndoFinishSave(c) \/ StatusSave(c) \/ ChangeStatusSave(c)
    BY <1>4, <2>5, WritesLessen
  <2> QED
    BY <2>1, <2>2, <2>3, <2>4, <2>5 DEF Request
<1>8. CASE UNCHANGED flow
  BY <1>4, <1>8, LessensSame DEF flow
<1> QED
  BY <1>5, <1>6, <1>7, <1>8 DEF Next

(* The tickets together never exceed the order (assertWithinTotals in split, *)
(* create and update), whoever divides it, ends tickets or confirms defects *)
(* meanwhile, as long as no step is taken back: clearOutcome gives a ticket *)
(* ended in defect its pieces again without asking for the total.           *)
THEOREM DividedWithinOrder == ~Corrections => (Spec => []TicketsWithinOrder)
<1> SUFFICES ASSUME ~Corrections PROVE Spec => []TicketsWithinOrder
  OBVIOUS
<1>1. Init => NetInv
  BY NetInit
<1>2. FlowInv /\ CoreInv /\ CoreInv' /\ NetInv /\ [Next]_flow => NetInv'
  BY NetStep
<1>3. NetInv => TicketsWithinOrder
  BY DEF NetInv, TicketsWithinOrder
<1> QED
  BY <1>1, <1>2, <1>3, CoreHolds, PTL DEF Spec
=============================================================================
