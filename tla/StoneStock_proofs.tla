-------------------------- MODULE StoneStock_proofs --------------------------
(***************************************************************************)
(* Theorems about the store and the reservations of stones.                *)
(*   - rows: whatever number of transactions are open, the two rows of a   *)
(*     transfer stay a pair (RowInv);                                      *)
(*   - holds: both sides of a reservation agree to its end (HoldInv);      *)
(*   - types (PlaceInv);                                                   *)
(*   - the ledger with one transaction open at a time (LedgerInv);         *)
(*   - what is promised is in the store, and the store keeps the promises  *)
(*     of StonePromise (StockInv).                                         *)
(***************************************************************************)
EXTENDS StoneStock, SumLemmas

-----------------------------------------------------------------------------
(* Rows.                                                                   *)
FullRow == [kind : InKinds \cup OutKinds, mat : Materials, qty : Nat, pair : SUBSET Rows]

(* Rows entered alone have no pair; nobody sets recovered metal as a stone. *)
RowOK(v) ==
    \/ v \in {NoRow, Gone}
    \/ /\ v \in FullRow
       /\ v.kind \in {"IN", "AUTO_IN"} => v.pair = {}
       /\ v.kind = "AUTO_IN" => v.mat \in Metals

HasPair(v) == "pair" \in DOMAIN v

(* Rows in f, taken alone, are paired like the rows of a whole store.      *)
Paired(f) == \A r \in DOMAIN f : HasPair(f[r]) =>
    \A s \in f[r].pair : s \in DOMAIN f /\ HasPair(f[s]) /\ f[s].pair = {r} /\ f[s].qty = f[r].qty

(* A row that is there changes its quantity, or goes.                      *)
Follows(v, w) == HasPair(v) /\ HasPair(w) => w.mat = v.mat

(* What a transaction of the storekeepers writes: with a row of a transfer *)
(* also the other.                                                         *)
GoodRows(f) ==
    /\ DOMAIN f \subseteq Rows
    /\ \A r \in DOMAIN f : Follows(row[r], f[r])
    /\ \A r \in DOMAIN f : RowOK(f[r]) /\ (HasPair(row[r]) => row[r].pair \subseteq DOMAIN f)
    /\ Paired(f)

TxFields == {"op", "rows", "opening", "locked", "summed", "sum", "tickets"}
InHold(c) == req[c].op = "hold"
InStock(c) == req[c].op = "stock" /\ DOMAIN req[c] = TxFields
InConsume(c) == req[c].op = "consume" /\ DOMAIN req[c] = TxFields

RowInv ==
    /\ DOMAIN row = AllRows /\ \A r \in Rows : RowOK(row[r])
    /\ DOMAIN req = Clients
    /\ \A c \in Clients : req[c] = Idle \/ InHold(c) \/ InStock(c) \/ InConsume(c)
    /\ \A c \in Clients : InStock(c) => GoodRows(req[c].rows)
    /\ \A c \in Clients : InConsume(c) => DOMAIN req[c].rows \subseteq Holds
    /\ \A c, d \in Clients : c # d /\ InStock(c) /\ InStock(d) =>
           DOMAIN req[c].rows \cap DOMAIN req[d].rows = {}
    /\ TransfersWhole

(* A transaction of a storekeeper begins, with the balances it has locked.  *)
Tx(op, f, g, locked, ts) ==
    [op |-> op, rows |-> f, opening |-> g, locked |-> locked, summed |-> FALSE,
     sum |-> [m \in Materials |-> 0], tickets |-> ts]
Starts(c) == \E f, g, locked :
    /\ GoodRows(f) /\ RowsFree(DOMAIN f)
    /\ DOMAIN g \subseteq Materials /\ \A m \in DOMAIN g : g[m] \in Nat
    /\ locked \subseteq Materials /\ \A m \in locked : BalanceFree(m)
    /\ req[c] = Idle /\ req' = [req EXCEPT ![c] = Tx("stock", f, g, locked, {})]

(* One row that has no pair before and after.                              *)
LEMMA OneRowGood ==
    ASSUME NEW r \in Rows, NEW v, RowOK(v), HasPair(v) => v.pair = {},
           HasPair(row[r]) => row[r].pair = {}, Follows(row[r], v)
    PROVE  GoodRows(One(r, v))
BY DEF GoodRows, One, Paired

LEMMA TxIsTx ==
    ASSUME NEW c \in Clients, NEW f, NEW g, NEW locked, StockTx(c, "stock", f, g, locked, {}),
           GoodRows(f), RowsFree(DOMAIN f), DOMAIN g \subseteq Materials, \A m \in DOMAIN g : g[m] \in Nat,
           locked \subseteq Materials, \A m \in locked : BalanceFree(m)
    PROVE  Starts(c)
BY DEF StockTx, Begin, Starts, Tx

LEMMA WriteRowsStarts ==
    ASSUME NEW c \in Clients, NEW f, NEW locked, WriteRows(c, f, locked), GoodRows(f), RowsFree(DOMAIN f),
           locked \subseteq Materials, \A m \in locked : BalanceFree(m)
    PROVE  Starts(c)
<1>1. DOMAIN <<>> \subseteq Materials /\ \A m \in DOMAIN <<>> : <<>>[m] \in Nat
    OBVIOUS
<1> QED
    BY <1>1, TxIsTx DEF WriteRows

LEMMA OneRowStarts ==
    ASSUME NEW c \in Clients, NEW r \in Rows, NEW v, NEW locked, WriteRows(c, One(r, v), locked),
           RowOK(v), HasPair(v) => v.pair = {}, HasPair(row[r]) => row[r].pair = {}, RowsFree({r}),
           Follows(row[r], v), locked \subseteq Materials, \A m \in locked : BalanceFree(m)
    PROVE  Starts(c)
<1> DEFINE f == One(r, v)
<1>1. GoodRows(f)
    BY OneRowGood
<1>2. DOMAIN f = {r}
    BY DEF One
<1> HIDE DEF f
<1> QED
    BY <1>1, <1>2, WriteRowsStarts DEF f

LEMMA RowOfOK ==
    ASSUME NEW kind \in InKinds \cup OutKinds, NEW m \in Materials, NEW q \in Qty, NEW pair \in SUBSET Rows,
           kind \in {"IN", "AUTO_IN"} => pair = {}, kind = "AUTO_IN" => m \in Metals
    PROVE  RowOK(RowOf(kind, m, q, pair)) /\ HasPair(RowOf(kind, m, q, pair))
           /\ RowOf(kind, m, q, pair).pair = pair /\ RowOf(kind, m, q, pair).qty = q
BY QtyAssumption DEF RowOK, RowOf, FullRow, HasPair, Qty

(* Every movement entered by a storekeeper or the system.                  *)
LEMMA MovementsStart ==
    ASSUME RowInv, NEW c \in Clients,
           \/ CreateInbound(c) \/ CreateOutbound(c) \/ Transfer(c) \/ UpdateOutbound(c)
           \/ DeleteOutbound(c) \/ UpdateInbound(c) \/ DeleteInbound(c) \/ UpdateStock(c)
           \/ RevokeAutoInbounds(c) \/ IssueStock(c)
    PROVE  Starts(c)
<1> DEFINE Bare(r) == HasPair(row[r]) => row[r].pair = {}
<1>f. ASSUME NEW r \in Rows, Fresh(r) PROVE Bare(r) /\ RowsFree({r}) /\ ~HasPair(row[r])
  <2>1. row[r].kind = "NONE" /\ RowsFree({r}) /\ RowOK(row[r])
      BY <1>f DEF Fresh, Exists, RowInv
  <2>2. CASE row[r] \in {NoRow, Gone}
      BY <2>1, <2>2 DEF NoRow, Gone, HasPair
  <2>3. CASE row[r] \in FullRow
      BY <2>1, <2>3 DEF FullRow, InKinds, OutKinds
  <2> QED
      BY <2>1, <2>2, <2>3 DEF RowOK
<1>e. ASSUME NEW r \in Rows, Exists(r, {"IN"}) \/ Exists(r, {"AUTO_IN"}) PROVE Bare(r) /\ row[r] \in FullRow
    BY <1>e DEF Exists, RowInv, RowOK, NoRow, Gone
<1>h. RowOK(Gone) /\ ~HasPair(Gone)
    BY DEF RowOK, HasPair, Gone
<1>1. CASE CreateInbound(c)
  <2>1. PICK m \in Materials, q \in Qty, r \in Rows :
            Fresh(r) /\ WriteRows(c, One(r, RowOf("IN", m, q, {})), {})
      BY <1>1 DEF CreateInbound
  <2>3. RowOK(RowOf("IN", m, q, {})) /\ RowOf("IN", m, q, {}).pair = {}
      BY RowOfOK DEF InKinds, OutKinds
  <2>4. Bare(r) /\ RowsFree({r}) /\ \A v : Follows(row[r], v)
      BY <2>1, <1>f DEF Follows
  <2> QED
      BY <2>1, <2>3, <2>4, OneRowStarts
<1>2. CASE CreateOutbound(c)
  <2>1. PICK m \in Materials, q \in Qty, r \in Rows :
            Fresh(r) /\ BalanceFree(m) /\ WriteRows(c, One(r, RowOf("OUT", m, q, {})), {m})
      BY <1>2 DEF CreateOutbound, EnoughStock
  <2>3. RowOK(RowOf("OUT", m, q, {})) /\ RowOf("OUT", m, q, {}).pair = {}
      BY RowOfOK DEF InKinds, OutKinds
  <2>4. Bare(r) /\ RowsFree({r}) /\ \A v : Follows(row[r], v)
      BY <2>1, <1>f DEF Follows
  <2> QED
      BY <2>1, <2>3, <2>4, OneRowStarts
<1>3. CASE IssueStock(c)
  <2>1. PICK m \in Materials, q \in Qty, r \in Rows :
            Fresh(r) /\ WriteRows(c, One(r, RowOf("AUTO_OUT", m, q, {})), {})
      BY <1>3 DEF IssueStock, Materials
  <2>3. RowOK(RowOf("AUTO_OUT", m, q, {})) /\ RowOf("AUTO_OUT", m, q, {}).pair = {}
      BY RowOfOK DEF InKinds, OutKinds
  <2>4. Bare(r) /\ RowsFree({r}) /\ \A v : Follows(row[r], v)
      BY <2>1, <1>f DEF Follows
  <2> QED
      BY <2>1, <2>3, <2>4, OneRowStarts
<1>4. CASE DeleteInbound(c) \/ RevokeAutoInbounds(c)
  <2>1. PICK r \in Rows : /\ Exists(r, {"IN"}) \/ Exists(r, {"AUTO_IN"})
                          /\ RowsFree({r}) /\ WriteRows(c, One(r, Gone), {})
      BY <1>4 DEF DeleteInbound, RevokeAutoInbounds
  <2>2. Bare(r) /\ Follows(row[r], Gone)
      BY <2>1, <1>e, <1>h DEF Follows
  <2> QED
      BY <2>1, <2>2, <1>h, OneRowStarts
<1>5. CASE UpdateInbound(c)
  <2>1. PICK r \in Rows, q \in Qty : /\ Exists(r, {"IN"}) /\ RowsFree({r})
                                     /\ WriteRows(c, One(r, [row[r] EXCEPT !.qty = q]), {})
      BY <1>5 DEF UpdateInbound
  <2>2. row[r] \in FullRow /\ Bare(r) /\ HasPair(row[r])
      BY <2>1, <1>e DEF FullRow, HasPair
  <2>3. RowOK([row[r] EXCEPT !.qty = q]) /\ [row[r] EXCEPT !.qty = q].pair = {}
        /\ Follows(row[r], [row[r] EXCEPT !.qty = q])
    <3>2. row[r].kind = "AUTO_IN" => row[r].mat \in Metals
        BY <2>1, <2>2 DEF Exists
    <3> QED
        BY <2>2, <3>2, QtyAssumption DEF RowOK, FullRow, Qty, Follows, HasPair
  <2> DEFINE v == [row[r] EXCEPT !.qty = q]
  <2> HIDE DEF v
  <2> QED
      BY <2>1, <2>2, <2>3, OneRowStarts DEF v
<1>6. CASE UpdateStock(c)
  <2>1. PICK m \in Materials, q \in 0..Opening : /\ BalanceFree(m)
                                              /\ StockTx(c, "stock", <<>>, [x \in {m} |-> q], {m}, {})
      BY <1>6 DEF UpdateStock
  <2>2. GoodRows(<<>>) /\ RowsFree(DOMAIN <<>>)
      BY DEF GoodRows, Paired, RowsFree
  <2> DEFINE g == [x \in {m} |-> q]
  <2>3. DOMAIN g \subseteq Materials /\ \A x \in DOMAIN g : g[x] \in Nat
      BY QtyAssumption
  <2> HIDE DEF g
  <2> QED
      BY <2>1, <2>2, <2>3, TxIsTx DEF g
<1>7. CASE Transfer(c)
  <2>1. PICK m, to \in Materials, q \in Qty, r, s \in Rows :
            /\ r # s /\ Fresh(r) /\ Fresh(s) /\ BalanceFree(m)
            /\ WriteRows(c, Two(r, RowOf("OUT", m, q, {s}), s, RowOf("TRANSFER_IN", to, q, {r})), {m})
      BY <1>7 DEF Transfer, EnoughStock
  <2> DEFINE v == RowOf("OUT", m, q, {s})
             w == RowOf("TRANSFER_IN", to, q, {r})
             f == Two(r, v, s, w)
  <2>2. RowOK(v) /\ HasPair(v) /\ v.pair = {s} /\ v.qty = q
      BY RowOfOK DEF OutKinds
  <2>3. RowOK(w) /\ HasPair(w) /\ w.pair = {r} /\ w.qty = q
      BY RowOfOK DEF InKinds
  <2> HIDE DEF v, w
  <2>4. DOMAIN f = {r, s} /\ f[r] = v /\ f[s] = w
      BY <2>1 DEF Two
  <2> HIDE DEF f
  <2>5. RowsFree(DOMAIN f)
      BY <2>1, <2>4, <1>f DEF RowsFree
  <2>6. Bare(r) /\ Bare(s)
      BY <2>1, <1>f
  <2>7. \A x \in DOMAIN f : RowOK(f[x]) /\ (HasPair(row[x]) => row[x].pair \subseteq DOMAIN f)
      BY <2>2, <2>3, <2>4, <2>6
  <2>8. Paired(f)
      BY <2>1, <2>2, <2>3, <2>4 DEF Paired
  <2>10. \A x \in DOMAIN f : Follows(row[x], f[x])
      BY <2>1, <2>4, <1>f DEF Follows
  <2>9. GoodRows(f)
      BY <2>4, <2>7, <2>8, <2>10 DEF GoodRows
  <2> QED
      BY <2>1, <2>5, <2>9, WriteRowsStarts DEF f, v, w
<1>8. CASE DeleteOutbound(c)
  <2>1. PICK r \in Rows : /\ Exists(r, {"OUT"}) /\ RowsFree({r} \cup row[r].pair)
                          /\ WriteRows(c, WithPair(r, Gone, [x \in row[r].pair |-> Gone]), {})
      BY <1>8 DEF DeleteOutbound
  <2> DEFINE f == WithPair(r, Gone, [x \in row[r].pair |-> Gone])
  <2>2. DOMAIN f = {r} \cup row[r].pair /\ \A x \in DOMAIN f : f[x] = Gone
      BY DEF WithPair
  <2> HIDE DEF f
  <2>3. row[r] \in FullRow /\ HasPair(row[r]) /\ row[r].pair \subseteq Rows
      BY <2>1 DEF Exists, RowInv, RowOK, NoRow, Gone, FullRow, HasPair
  <2>4. \A s \in row[r].pair : HasPair(row[s]) /\ row[s].pair = {r}
      BY <2>3 DEF RowInv, TransfersWhole, HasPair
  <2>5. GoodRows(f)
      BY <2>2, <2>3, <2>4, <1>h DEF GoodRows, Paired, Follows
  <2> QED
      BY <2>1, <2>2, <2>5, WriteRowsStarts DEF f
<1>9. CASE UpdateOutbound(c)
  <2>1. PICK r \in Rows, q \in Qty : /\ Exists(r, {"OUT"}) /\ RowsFree({r} \cup row[r].pair) /\ BalanceFree(row[r].mat)
            /\ WriteRows(c, WithPair(r, [row[r] EXCEPT !.qty = q],
                             [x \in row[r].pair |-> [row[x] EXCEPT !.qty = q]]), {row[r].mat})
      BY <1>9 DEF UpdateOutbound, EnoughStock
  <2> DEFINE f == WithPair(r, [row[r] EXCEPT !.qty = q], [x \in row[r].pair |-> [row[x] EXCEPT !.qty = q]])
  <2>2. DOMAIN f = {r} \cup row[r].pair /\ \A x \in DOMAIN f : f[x] = [row[x] EXCEPT !.qty = q]
      BY DEF WithPair
  <2> HIDE DEF f
  <2>3. row[r] \in FullRow /\ HasPair(row[r]) /\ row[r].pair \subseteq Rows
      BY <2>1 DEF Exists, RowInv, RowOK, NoRow, Gone, FullRow, HasPair
  <2>4. \A s \in row[r].pair : HasPair(row[s]) /\ row[s].pair = {r}
      BY <2>3 DEF RowInv, TransfersWhole, HasPair
  <2>5. \A x \in DOMAIN f : row[x] \in FullRow /\ RowOK(row[x])
      BY <2>2, <2>3, <2>4 DEF RowInv, RowOK, NoRow, Gone, HasPair
  <2>6. \A x \in DOMAIN f : /\ RowOK(f[x]) /\ HasPair(f[x]) /\ f[x].pair = row[x].pair /\ f[x].qty = q
                            /\ Follows(row[x], f[x])
    <3> SUFFICES ASSUME NEW x \in DOMAIN f
                 PROVE  /\ RowOK(f[x]) /\ HasPair(f[x]) /\ f[x].pair = row[x].pair /\ f[x].qty = q
                        /\ Follows(row[x], f[x])
        OBVIOUS
    <3>1. row[x] \in FullRow /\ RowOK(row[x]) /\ f[x] = [row[x] EXCEPT !.qty = q]
        BY <2>2, <2>5
    <3>2. q \in Nat
        BY QtyAssumption DEF Qty
    <3>3. f[x] \in FullRow /\ f[x].kind = row[x].kind /\ f[x].pair = row[x].pair /\ f[x].qty = q
          /\ f[x].mat = row[x].mat
        BY <3>1, <3>2 DEF FullRow
    <3>4. /\ row[x].kind \in {"IN", "AUTO_IN"} => row[x].pair = {}
          /\ row[x].kind = "AUTO_IN" => row[x].mat \in Metals
        BY <3>1 DEF RowOK, FullRow, NoRow, Gone
    <3> QED
        BY <3>3, <3>4 DEF RowOK, FullRow, HasPair, Follows
  <2>8. \A x \in DOMAIN f : row[x].pair \subseteq DOMAIN f
    <3>1. \A s \in row[r].pair : row[s].pair = {r}
        BY <2>4
    <3> QED
        BY <2>2, <3>1
  <2>9. Paired(f)
    <3> SUFFICES ASSUME NEW x \in DOMAIN f, NEW s \in f[x].pair
                 PROVE  s \in DOMAIN f /\ HasPair(f[s]) /\ f[s].pair = {x} /\ f[s].qty = f[x].qty
        BY DEF Paired
    <3>1. s \in DOMAIN f
        BY <2>6, <2>8
    <3>2. f[s].pair = row[s].pair /\ f[x].pair = row[x].pair /\ x \in Rows
        BY <2>2, <2>3, <2>6, <3>1
    <3>3. row[s].pair = {x}
        BY <3>2, <2>2, <2>3, <2>5 DEF RowInv, TransfersWhole, HasPair
    <3> QED
        BY <2>6, <3>1, <3>2, <3>3
  <2>7. GoodRows(f)
    <3>1. DOMAIN f \subseteq Rows
        BY <2>2, <2>3
    <3>2. \A x \in DOMAIN f : RowOK(f[x]) /\ Follows(row[x], f[x])
        BY <2>6
    <3> QED
        BY <3>1, <3>2, <2>8, <2>9 DEF GoodRows
  <2>10. row[r].mat \in Materials
      BY <2>3 DEF FullRow
  <2> QED
      BY <2>1, <2>2, <2>7, <2>10, WriteRowsStarts DEF f
<1> QED
    BY <1>1, <1>2, <1>3, <1>4, <1>5, <1>6, <1>7, <1>8, <1>9

(* A step that leaves the rows of the storekeepers alone, and their         *)
(* transactions what they write.                                            *)
LEMMA SameRows ==
    ASSUME RowInv, DOMAIN row' = AllRows, \A r \in Rows : row'[r] = row[r], DOMAIN req' = Clients,
           \A d \in Clients : \/ req'[d] = req[d] \/ req'[d] = Idle \/ InHold(d)'
                              \/ InConsume(d)' /\ DOMAIN req'[d].rows \subseteq Holds
                              \/ InStock(d) /\ InStock(d)' /\ req'[d].rows = req[d].rows
    PROVE  RowInv'
<1>1. \A r \in Rows : RowOK(row'[r])
    BY DEF RowInv
<1>2. \A d \in Clients : req'[d] = Idle \/ InHold(d)' \/ InStock(d)' \/ InConsume(d)'
    BY DEF RowInv, InHold, InStock, InConsume
<1>3. \A d \in Clients : InStock(d)' => InStock(d) /\ req'[d].rows = req[d].rows
    BY DEF InStock, InConsume, InHold, Idle
<1>4. \A d \in Clients : InStock(d)' => GoodRows(req[d].rows)'
    <2> SUFFICES ASSUME NEW d \in Clients, InStock(d)'
                 PROVE  GoodRows(req[d].rows)'
        OBVIOUS
    <2>1. GoodRows(req[d].rows) /\ req'[d].rows = req[d].rows
        BY <1>3 DEF RowInv
    <2> QED
        BY <2>1 DEF GoodRows, Paired
<1>5. \A d \in Clients : InConsume(d)' => DOMAIN req'[d].rows \subseteq Holds
    BY DEF RowInv, InStock, InConsume, InHold, Idle
<1>6. TransfersWhole'
    <2> SUFFICES ASSUME NEW r \in Rows, HasPair(row[r]), NEW s \in row[r].pair
                 PROVE  HasPair(row'[s]) /\ row'[s].pair = {r} /\ row'[s].qty = row[r].qty
        BY DEF TransfersWhole, HasPair
    <2>1. s \in Rows
        BY DEF RowInv, RowOK, FullRow, NoRow, Gone, HasPair
    <2> QED
        BY <2>1 DEF RowInv, TransfersWhole, HasPair
<1>7. \A d, e \in Clients : d # e /\ InStock(d)' /\ InStock(e)' =>
          DOMAIN req'[d].rows \cap DOMAIN req'[e].rows = {}
    BY <1>3 DEF RowInv
<1> QED
    BY <1>1, <1>2, <1>4, <1>5, <1>6, <1>7 DEF RowInv

LEMMA StartsKeeps ==
    ASSUME RowInv, NEW c \in Clients, Starts(c), row' = row
    PROVE  RowInv'
<1>1. PICK f, g, locked : /\ GoodRows(f) /\ RowsFree(DOMAIN f)
                          /\ req' = [req EXCEPT ![c] = Tx("stock", f, g, locked, {})]
    BY DEF Starts
<1>2. DOMAIN req' = Clients /\ req'[c] = Tx("stock", f, g, locked, {})
      /\ \A d \in Clients : d # c => req'[d] = req[d]
    BY <1>1 DEF RowInv
<1>3. InStock(c)' /\ req'[c].rows = f /\ ~InConsume(c)'
    BY <1>2 DEF InStock, InConsume, Tx, TxFields
<1>4. \A d \in Clients : d # c => /\ InStock(d)' <=> InStock(d)
                                  /\ InConsume(d)' <=> InConsume(d)
                                  /\ InHold(d)' <=> InHold(d)
    BY <1>2 DEF InStock, InConsume, InHold
<1>5. \A d \in Clients : d # c /\ InStock(d)' =>
          GoodRows(req[d].rows)' /\ DOMAIN req[d].rows \cap DOMAIN f = {}
    <2> SUFFICES ASSUME NEW d \in Clients, d # c, InStock(d)'
                 PROVE  GoodRows(req[d].rows)' /\ DOMAIN req[d].rows \cap DOMAIN f = {}
        OBVIOUS
    <2>1. InStock(d) /\ GoodRows(req[d].rows) /\ req'[d] = req[d]
        BY <1>2, <1>4 DEF RowInv
    <2>2. GoodRows(req[d].rows)'
        BY <2>1 DEF GoodRows, Paired
    <2>3. DOMAIN req[d].rows \cap DOMAIN f = {}
        BY <1>1, <2>1 DEF RowsFree, InTx, InStock
    <2> QED
        BY <2>2, <2>3
<1>6. GoodRows(req[c].rows)'
    BY <1>1, <1>3 DEF GoodRows, Paired
<1>7. \A d \in Clients : InStock(d)' => GoodRows(req[d].rows)'
    BY <1>5, <1>6
<1>8. \A d, e \in Clients : d # e /\ InStock(d)' /\ InStock(e)' =>
          DOMAIN req'[d].rows \cap DOMAIN req'[e].rows = {}
    BY <1>2, <1>3, <1>4, <1>5 DEF RowInv
<1>9. \A d \in Clients : InConsume(d)' => DOMAIN req'[d].rows \subseteq Holds
    BY <1>2, <1>3, <1>4 DEF RowInv
<1>10. \A d \in Clients : req'[d] = Idle \/ InHold(d)' \/ InStock(d)' \/ InConsume(d)'
    BY <1>2, <1>3, <1>4 DEF RowInv
<1>11. TransfersWhole'
    BY DEF RowInv, TransfersWhole
<1> QED
    BY <1>2, <1>7, <1>8, <1>9, <1>10, <1>11 DEF RowInv

(* The rows of one transaction become visible.                             *)
LEMMA CommitKeeps ==
    ASSUME RowInv, NEW c \in Clients, InStock(c), row' = RowsAfter(c),
           req' = [req EXCEPT ![c] = Idle]
    PROVE  RowInv'
<1> DEFINE f == req[c].rows
<1>1. GoodRows(f)
    BY DEF RowInv
<1>2. DOMAIN row' = AllRows /\ \A r \in AllRows : row'[r] = IF r \in DOMAIN f THEN f[r] ELSE row[r]
    BY DEF RowsAfter, Written
<1>3. DOMAIN req' = Clients /\ req'[c] = Idle /\ \A d \in Clients : d # c => req'[d] = req[d]
    BY DEF RowInv
<1> HIDE DEF f
<1>4. ~InStock(c)' /\ ~InConsume(c)'
    BY <1>3 DEF InStock, InConsume, Idle
<1>5. \A d \in Clients : d # c => /\ InStock(d)' <=> InStock(d)
                                  /\ InConsume(d)' <=> InConsume(d)
                                  /\ InHold(d)' <=> InHold(d)
    BY <1>3 DEF InStock, InConsume, InHold
<1>6. \A r \in Rows : RowOK(row'[r])
    BY <1>1, <1>2 DEF GoodRows, RowInv, AllRows
<1>7. \A r \in Rows : HasPair(row[r]) => row[r].pair \subseteq Rows
    BY DEF RowInv, RowOK, FullRow, NoRow, Gone, HasPair
<1>8. TransfersWhole'
  <2> SUFFICES ASSUME NEW r \in Rows, HasPair(row'[r]), NEW s \in row'[r].pair
               PROVE  HasPair(row'[s]) /\ row'[s].pair = {r} /\ row'[s].qty = row'[r].qty
      BY DEF TransfersWhole, HasPair
  <2>1. CASE r \in DOMAIN f
    <3>1. row'[r] = f[r]
        BY <1>2, <2>1 DEF AllRows
    <3>2. s \in DOMAIN f /\ HasPair(f[s]) /\ f[s].pair = {r} /\ f[s].qty = f[r].qty
        BY <1>1, <2>1, <3>1 DEF GoodRows, Paired
    <3>3. row'[s] = f[s]
        BY <1>1, <1>2, <3>2 DEF GoodRows, AllRows
    <3> QED
        BY <3>1, <3>2, <3>3
  <2>2. CASE r \notin DOMAIN f
    <3>1. row'[r] = row[r]
        BY <1>2, <2>2 DEF AllRows
    <3>2. s \in Rows /\ HasPair(row[s]) /\ row[s].pair = {r} /\ row[s].qty = row[r].qty
        BY <3>1, <1>7 DEF RowInv, TransfersWhole, HasPair
    <3>3. s \notin DOMAIN f
        BY <1>1, <2>2, <3>2 DEF GoodRows
    <3>4. row'[s] = row[s]
        BY <1>2, <3>2, <3>3 DEF AllRows
    <3> QED
        BY <3>1, <3>2, <3>4
  <2> QED
      BY <2>1, <2>2
<1>9. \A d \in Clients : InStock(d)' => GoodRows(req[d].rows)'
  <2> SUFFICES ASSUME NEW d \in Clients, InStock(d)'
               PROVE  GoodRows(req[d].rows)'
      OBVIOUS
  <2>1. d # c /\ InStock(d) /\ req'[d] = req[d] /\ GoodRows(req[d].rows)
      BY <1>3, <1>4, <1>5 DEF RowInv
  <2>2. DOMAIN req[d].rows \cap DOMAIN f = {}
      BY <2>1 DEF RowInv, f
  <2>3. \A r \in DOMAIN req[d].rows : r \in Rows /\ row'[r] = row[r]
      BY <1>2, <2>1, <2>2 DEF GoodRows, AllRows
  <2> QED
      BY <2>1, <2>3 DEF GoodRows, Paired
<1>10. \A d, e \in Clients : d # e /\ InStock(d)' /\ InStock(e)' =>
           DOMAIN req'[d].rows \cap DOMAIN req'[e].rows = {}
    BY <1>3, <1>4, <1>5 DEF RowInv
<1>11. \A d \in Clients : InConsume(d)' => DOMAIN req'[d].rows \subseteq Holds
    BY <1>3, <1>4, <1>5 DEF RowInv
<1>12. \A d \in Clients : req'[d] = Idle \/ InHold(d)' \/ InStock(d)' \/ InConsume(d)'
    BY <1>3, <1>5 DEF RowInv
<1> QED
    BY <1>2, <1>3, <1>6, <1>8, <1>9, <1>10, <1>11, <1>12 DEF RowInv

LEMMA AutoInboundKeeps ==
    ASSUME RowInv, NEW c \in Clients, CreateAutoInbound(c)
    PROVE  RowInv'
<1>1. PICK m \in Metals, q \in Qty, r \in Rows :
          Fresh(r) /\ row' = [row EXCEPT ![r] = RowOf("AUTO_IN", m, q, {})] /\ req' = req
    BY DEF CreateAutoInbound
<1>2. RowOK(RowOf("AUTO_IN", m, q, {})) /\ RowOf("AUTO_IN", m, q, {}).pair = {}
    BY RowOfOK DEF InKinds, Materials
<1>3. RowsFree({r}) /\ (HasPair(row[r]) => row[r].pair = {})
  <2>1. row[r].kind = "NONE" /\ RowsFree({r}) /\ RowOK(row[r])
      BY <1>1 DEF Fresh, Exists, RowInv
  <2>2. CASE row[r] \in {NoRow, Gone}
      BY <2>1, <2>2 DEF NoRow, Gone, HasPair
  <2>3. CASE row[r] \in FullRow
      BY <2>1, <2>3 DEF FullRow, InKinds, OutKinds
  <2> QED
      BY <2>1, <2>2, <2>3 DEF RowOK
<1>4. DOMAIN row' = AllRows /\ row'[r] = RowOf("AUTO_IN", m, q, {})
      /\ \A x \in AllRows : x # r => row'[x] = row[x]
    BY <1>1 DEF RowInv, AllRows
<1>5. \A x \in Rows : RowOK(row'[x])
    BY <1>2, <1>4 DEF RowInv, AllRows
<1>6. \A d \in Clients : /\ InStock(d)' <=> InStock(d)
                         /\ InConsume(d)' <=> InConsume(d)
                         /\ InHold(d)' <=> InHold(d)
    BY <1>1 DEF InStock, InConsume, InHold
<1>7. \A d \in Clients : InStock(d)' => GoodRows(req[d].rows)'
  <2> SUFFICES ASSUME NEW d \in Clients, InStock(d)
               PROVE  GoodRows(req[d].rows)'
      BY <1>6
  <2>1. GoodRows(req[d].rows) /\ req'[d] = req[d] /\ r \notin DOMAIN req[d].rows
      BY <1>1, <1>3 DEF RowInv, RowsFree, InTx, InStock
  <2>2. \A x \in DOMAIN req[d].rows : x \in Rows /\ row'[x] = row[x]
      BY <1>4, <2>1 DEF GoodRows, AllRows
  <2> QED
      BY <2>1, <2>2 DEF GoodRows, Paired
<1>8. TransfersWhole'
  <2> SUFFICES ASSUME NEW x \in Rows, HasPair(row'[x]), NEW s \in row'[x].pair
               PROVE  HasPair(row'[s]) /\ row'[s].pair = {x} /\ row'[s].qty = row'[x].qty
      BY DEF TransfersWhole, HasPair
  <2>1. x # r /\ row'[x] = row[x]
      BY <1>2, <1>4 DEF AllRows
  <2>2. s \in Rows /\ HasPair(row[s]) /\ row[s].pair = {x} /\ row[s].qty = row[x].qty
    <3>1. row[x].pair \subseteq Rows
        BY <2>1 DEF RowInv, RowOK, FullRow, NoRow, Gone, HasPair
    <3> QED
        BY <2>1, <3>1 DEF RowInv, TransfersWhole, HasPair
  <2>3. s # r
      BY <2>2, <1>3
  <2> QED
      BY <1>4, <2>1, <2>2, <2>3 DEF AllRows
<1> QED
    BY <1>1, <1>4, <1>5, <1>6, <1>7, <1>8 DEF RowInv

LEMMA RecomputeKeeps ==
    ASSUME RowInv, NEW c \in Clients, Recompute(c)
    PROVE  RowInv'
<1>1. InTx(c) /\ row' = row
    BY DEF Recompute, store
<1>2. PICK v : /\ req' = [req EXCEPT ![c] = v]
               /\ v = [req[c] EXCEPT !.summed = TRUE, !.locked = @ \cup Twice(c),
                           !.sum = [m \in Materials |-> NetOf(OpeningAfter(c), RowsAfter(c), m)]]
    BY DEF Recompute
<1>3. InStock(c) \/ InConsume(c)
    BY <1>1 DEF InTx, RowInv, InHold, Idle
<1>4. DOMAIN v = TxFields /\ v.op = req[c].op /\ v.rows = req[c].rows
    BY <1>2, <1>3 DEF InStock, InConsume, TxFields
<1>5. DOMAIN req' = Clients /\ req'[c] = v /\ \A d \in Clients : d # c => req'[d] = req[d]
    BY <1>2 DEF RowInv
<1>6. (InStock(c) => InStock(c)') /\ (InConsume(c) => InConsume(c)')
    BY <1>4, <1>5 DEF InStock, InConsume
<1>7. InConsume(c) => DOMAIN req'[c].rows \subseteq Holds
    BY <1>4, <1>5 DEF RowInv
<1>8. DOMAIN row' = AllRows /\ \A r \in Rows : row'[r] = row[r]
    BY <1>1 DEF RowInv
<1> QED
    BY <1>3, <1>4, <1>5, <1>6, <1>7, <1>8, SameRows

(* A transaction that ends without a row of the storekeepers.              *)
LEMMA EndKeeps ==
    ASSUME RowInv, NEW c \in Clients, req' = [req EXCEPT ![c] = Idle],
           DOMAIN row' = AllRows, \A r \in Rows : row'[r] = row[r]
    PROVE  RowInv'
<1>1. DOMAIN req' = Clients /\ \A d \in Clients : req'[d] = req[d] \/ req'[d] = Idle
    BY DEF RowInv
<1> QED
    BY <1>1, SameRows

LEMMA HoldRequestKeeps ==
    ASSUME RowInv, NEW c \in Clients, NEW t, NEW ws, AskHold(c, t, ws)
    PROVE  RowInv'
<1>1. PICK h \in Holds, m \in Stones, q \in Qty :
          Begin(c, [op |-> "hold", hold |-> h, mat |-> m, qty |-> q, ticket |-> t, wish |-> ws])
    BY DEF AskHold
<1>2. DOMAIN req' = Clients /\ InHold(c)' /\ \A d \in Clients : d # c => req'[d] = req[d]
    BY <1>1 DEF Begin, RowInv, InHold
<1>3. DOMAIN row' = AllRows /\ \A r \in Rows : row'[r] = row[r]
    BY <1>1 DEF Begin, store, RowInv
<1> QED
    BY <1>2, <1>3, SameRows

LEMMA ConsumeKeeps ==
    ASSUME RowInv, NEW c \in Clients, ConsumeStoneHolds(c)
    PROVE  RowInv'
<1>1. PICK t \in Tickets : StockTx(c, "consume",
           [h \in UsedHolds(t) |-> RowOf("AUTO_OUT", draft[h].mat, Used(h), {})], <<>>, {}, {t})
    BY DEF ConsumeStoneHolds
<1> DEFINE f == [h \in UsedHolds(t) |-> RowOf("AUTO_OUT", draft[h].mat, Used(h), {})]
<1>2. DOMAIN f \subseteq Holds
    BY DEF UsedHolds, EntryHolds, HoldsOf
<1> HIDE DEF f
<1>3. req' = [req EXCEPT ![c] = Tx("consume", f, <<>>, {}, {t})] /\ row' = row
    BY <1>1 DEF StockTx, Begin, Tx, store, f
<1>4. DOMAIN req' = Clients /\ req'[c] = Tx("consume", f, <<>>, {}, {t})
      /\ \A d \in Clients : d # c => req'[d] = req[d]
    BY <1>3 DEF RowInv
<1>5. InConsume(c)' /\ req'[c].rows = f
    BY <1>4 DEF InConsume, Tx, TxFields
<1>6. DOMAIN row' = AllRows /\ \A r \in Rows : row'[r] = row[r]
    BY <1>3 DEF RowInv
<1> QED
    BY <1>2, <1>4, <1>5, <1>6, SameRows

LEMMA ConfirmKeeps ==
    ASSUME RowInv, NEW c \in Clients, ConfirmSave(c)
    PROVE  RowInv'
<1>1. row' = RowsAfter(c) /\ req' = [req EXCEPT ![c] = Idle] /\ req[c].op = "consume"
    BY DEF ConfirmSave, WriteStore
<1>2. InConsume(c)
    BY <1>1 DEF RowInv, InHold, InStock, Idle
<1>3. \A r \in Rows : r \notin DOMAIN req[c].rows
    BY <1>2, DisjointAssumption DEF RowInv
<1>4. DOMAIN row' = AllRows /\ \A r \in Rows : row'[r] = row[r]
    BY <1>1, <1>3 DEF RowsAfter, Written, AllRows
<1> QED
    BY <1>1, <1>4, EndKeeps

LEMMA RowInvNext ==
    ASSUME RowInv, [Next]_stones
    PROVE  RowInv'
<1> DEFINE Movement(c) ==
        \/ CreateInbound(c) \/ CreateOutbound(c) \/ Transfer(c) \/ UpdateOutbound(c)
        \/ DeleteOutbound(c) \/ UpdateInbound(c) \/ DeleteInbound(c) \/ UpdateStock(c)
        \/ RevokeAutoInbounds(c) \/ IssueStock(c)
<1>s. DOMAIN row = AllRows /\ DOMAIN req = Clients
    BY DEF RowInv
<1>u. ASSUME UNCHANGED <<row, req>> PROVE RowInv'
    BY <1>u, <1>s, SameRows
<1>1. ASSUME NEW c \in Clients, Movement(c) PROVE RowInv'
  <2>1. Starts(c)
      BY <1>1, MovementsStart
  <2>2. row' = row
      BY <1>1 DEF CreateInbound, CreateOutbound, Transfer, UpdateOutbound, DeleteOutbound, UpdateInbound,
                  DeleteInbound, UpdateStock, RevokeAutoInbounds, IssueStock, WriteRows, StockTx, Begin, store
  <2> QED
      BY <2>1, <2>2, StartsKeeps
<1>2. ASSUME NEW c \in Clients, CreateAutoInbound(c) \/ Recompute(c) \/ Commit(c) \/ Fail(c) PROVE RowInv'
  <2>1. CASE Commit(c)
    <3>1. InStock(c) /\ row' = RowsAfter(c) /\ req' = [req EXCEPT ![c] = Idle]
        BY <2>1 DEF Commit, WriteStore, RowInv, InHold, InConsume, Idle
    <3> QED
        BY <3>1, CommitKeeps
  <2>2. CASE Fail(c)
    <3>1. req' = [req EXCEPT ![c] = Idle] /\ row' = row
        BY <2>2 DEF Fail, store
    <3> QED
        BY <3>1, <1>s, EndKeeps
  <2> QED
      BY <1>2, <2>1, <2>2, AutoInboundKeeps, RecomputeKeeps
<1>3. ASSUME NEW c \in Clients, StageStep(c) PROVE RowInv'
  <2>1. CASE Assign(c)
      BY <2>1, HoldRequestKeeps DEF Assign
  <2>2. CASE IssueWish(c)
    <3>1. PICK w \in Wishes : \E t \in wish[w].ticket : AskHold(c, t, {w})
        BY <2>2 DEF IssueWish
    <3> QED
        BY <3>1, HoldRequestKeeps
  <2>3. CASE AssignSave(c) \/ IssueWishSave(c)
    <3>1. req' = [req EXCEPT ![c] = Idle] /\ row' = row
        BY <2>3 DEF AssignSave, IssueWishSave, store
    <3> QED
        BY <3>1, <1>s, EndKeeps
  <2> QED
      BY <1>3, <2>1, <2>2, <2>3, ConsumeKeeps, ConfirmKeeps DEF StageStep
<1>4. CASE \/ Unclaim \/ CancelPending \/ Accept \/ Remove \/ SetOutcome
           \/ ClearSplit \/ ChangeStatus \/ RemoveOrder
           \/ CreateWish \/ EndWish \/ ReturnStoneEarly \/ ReturnStage
  <2>1. UNCHANGED <<row, req>>
      BY <1>4 DEF Unclaim, CancelPending, Accept, Remove, SetOutcome, ClearSplit, ChangeStatus, RemoveOrder,
                  CreateWish, EndWish, ReturnStoneEarly, ReturnStage, DeleteTickets, store
  <2> QED
      BY <2>1, <1>u
<1>5. CASE UNCHANGED stones
    BY <1>5, <1>u DEF stones, store
<1> QED
    BY <1>1, <1>2, <1>3, <1>4, <1>5 DEF Next, StoreStep

LEMMA RowInvInit == ASSUME Init PROVE RowInv
<1>1. \A r \in AllRows : row[r] = NoRow
    BY DEF Init
<1>2. RowOK(NoRow) /\ ~HasPair(NoRow)
    BY DEF RowOK, HasPair, NoRow
<1>3. \A c \in Clients : req[c] = Idle /\ ~InStock(c) /\ ~InConsume(c)
    BY DEF Init, InStock, InConsume, Idle
<1>4. TransfersWhole
    BY <1>1, <1>2 DEF TransfersWhole, AllRows, HasPair
<1> QED
    BY <1>1, <1>2, <1>3, <1>4 DEF Init, RowInv, AllRows

(* Whatever transactions of the storekeepers are open at once, and whatever *)
(* is corrected afterwards: the two rows of a transfer stay a pair of the   *)
(* same quantity.                                                          *)
THEOREM TransfersStayWhole == Spec => []TransfersWhole
<1>1. Init => RowInv
    BY RowInvInit
<1>2. RowInv => TransfersWhole
    BY DEF RowInv
<1> QED
    BY <1>1, <1>2, RowInvNext, PTL DEF Spec

-----------------------------------------------------------------------------
(* Holds.                                                                  *)
FullHold == [state : {"HELD", "CONSUMED", "RELEASED"}, ticket : Tickets, qty : Nat,
             entry : BOOLEAN, left : Nat, wish : SUBSET Wishes]
Full(h) == hold[h] \in FullHold
WishesOf(h) == IF Full(h) THEN hold[h].wish ELSE {}

(* The two records of a reservation, and what it took out of the store.    *)
HoldGood(h) ==
    /\ Full(h) \/ hold[h] \in {NoHold, Deleted}
    /\ draft[h] \in DraftValues
    /\ draft[h].state = "DRAFT" <=> hold[h].state = "HELD"
    /\ draft[h].state = "DRAFT" => draft[h].qty = hold[h].qty
    /\ draft[h].state = "POSTED" <=> hold[h].state = "CONSUMED"
    /\ hold[h].state = "CONSUMED" =>
           hold[h].entry /\ row[h].kind = "AUTO_OUT" /\ row[h].qty = hold[h].qty - hold[h].left

(* Its ticket and the request it answered.                                 *)
HoldOwned(h) == Full(h) =>
    LET t == hold[h].ticket
    IN  /\ hold[h].state = "HELD" =>
               ticket[t].phase \in IF hold[h].entry THEN {"working", "returned"} ELSE {"assigned", "waiting"}
        /\ hold[h].entry => ticket[t].worked
        /\ \A w \in hold[h].wish : wish[w].state = "ISSUED"

TicketGood(t) ==
    /\ ticket[t] \in [phase : Phases, worked : BOOLEAN]
    /\ ticket[t].phase \in {"working", "returned"} => ticket[t].worked

(* A transaction of production under way has read what is still so.        *)
Asked(c) ==
    /\ req[c].hold \in Holds /\ hold[req[c].hold] = NoHold
    /\ req[c].mat \in Stones /\ req[c].qty \in Nat /\ req[c].ticket \in Tickets
    /\ \/ req[c].wish = {} /\ ticket[req[c].ticket].phase = "idle"
       \/ \E w \in Wishes : /\ req[c].wish = {w} /\ wish[w].state = "PENDING"
                            /\ ticket[req[c].ticket].phase = "working"
Confirming(c) == \E t \in Tickets :
    /\ req[c].tickets = {t} /\ ticket[t].phase = "returned"
    /\ DOMAIN req[c].rows = UsedHolds(t)
    /\ \A h \in UsedHolds(t) :
           req[c].rows[h].kind = "AUTO_OUT" /\ req[c].rows[h].qty = hold[h].qty - hold[h].left

Busy(c) == InHold(c) \/ InConsume(c)

StageOK ==
    /\ hold = [h \in Holds |-> hold[h]] /\ draft = [h \in Holds |-> draft[h]]
    /\ ticket = [t \in Tickets |-> ticket[t]] /\ wish = [w \in Wishes |-> wish[w]]
    /\ \A h \in Holds : HoldGood(h) /\ HoldOwned(h)
    /\ \A h, k \in Holds : h # k => WishesOf(h) \cap WishesOf(k) = {}
    /\ \A t \in Tickets : TicketGood(t)
    /\ \A w \in Wishes : wish[w] \in [state : WishStates, ticket : SUBSET Tickets]

HoldInv ==
    /\ StageOK
    /\ \A c, d \in Clients : Busy(c) /\ Busy(d) => c = d
    /\ \A c \in Clients : (InHold(c) => Asked(c)) /\ (InConsume(c) => Confirming(c))

LEMMA HoldInvImplies == ASSUME HoldInv PROVE HoldsBacked
<1>1. DraftsMatchHolds /\ ConsumedIsUsed
    BY DEF HoldInv, StageOK, HoldGood, DraftsMatchHolds, ConsumedIsUsed, Open
<1>2. HeldIsOwned
  <2> SUFFICES ASSUME NEW t \in Tickets, NEW h \in HoldsOf(t)
               PROVE  IF hold[h].entry THEN At(t, {"working", "returned"}) ELSE At(t, {"assigned", "waiting"})
      BY DEF HeldIsOwned, PendingHolds, EntryHolds
  <2>1. Full(h) /\ hold[h].state = "HELD" /\ hold[h].ticket = t
      BY DEF HoldsOf, HoldInv, StageOK, HoldGood, NoHold, Deleted
  <2> QED
      BY <2>1 DEF HoldInv, StageOK, HoldOwned, At, HoldsOf
<1>3. WishAnsweredOnce
  <2> SUFFICES ASSUME NEW w \in Wishes
               PROVE  LET got == {h \in Holds : "wish" \in DOMAIN hold[h] /\ w \in hold[h].wish}
                      IN  Cardinality(got) <= 1 /\ (got # {} => wish[w].state = "ISSUED")
      BY DEF WishAnsweredOnce
  <2> DEFINE got == {h \in Holds : "wish" \in DOMAIN hold[h] /\ w \in hold[h].wish}
  <2>1. \A h \in got : Full(h) /\ w \in WishesOf(h) /\ w \in hold[h].wish
      BY DEF HoldInv, StageOK, HoldGood, NoHold, Deleted, WishesOf
  <2>2. got # {} => wish[w].state = "ISSUED"
      BY <2>1 DEF HoldInv, StageOK, HoldOwned
  <2>3. \A h, k \in got : h = k
      BY <2>1 DEF HoldInv, StageOK
  <2> HIDE DEF got
  <2>4. Cardinality(got) <= 1
    <3>1. CASE got = {}
        BY <3>1, FS_EmptySet
    <3>2. CASE got # {}
      <4>0. PICK h : h \in got
          BY <3>2
      <4>1. \A k : k \in got <=> k = h
          BY <4>0, <2>3
      <4>2. got = {h}
          BY <4>1
      <4>3. Cardinality(got) = 1
          BY <4>2, FS_Singleton
      <4> QED
          BY <4>3
    <3> QED
        BY <3>1, <3>2
  <2> QED
      BY <2>2, <2>4 DEF got
<1> QED
    BY <1>1, <1>2, <1>3 DEF HoldsBacked

(* A step of the store: production sees nothing of it.                     *)
LEMMA StoreKeepsHolds ==
    ASSUME HoldInv, UNCHANGED stage, \A h \in Holds : row'[h] = row[h],
           \A d \in Clients :
               /\ InHold(d)' => InHold(d) /\ req'[d] = req[d]
               /\ InConsume(d)' => InConsume(d) /\ req'[d].rows = req[d].rows /\ req'[d].tickets = req[d].tickets
    PROVE  HoldInv'
<1>1. hold' = hold /\ draft' = draft /\ ticket' = ticket /\ wish' = wish
    BY DEF stage
<1>2. StageOK'
    BY <1>1 DEF HoldInv, StageOK, HoldGood, HoldOwned, TicketGood, Full, WishesOf
<1>3. \A c, d \in Clients : Busy(c)' /\ Busy(d)' => c = d
    BY DEF HoldInv, Busy
<1>4. \A c \in Clients : InHold(c)' => Asked(c)'
    BY <1>1 DEF HoldInv, Asked
<1>5. \A t \in Tickets : UsedHolds(t)' = UsedHolds(t)
    BY <1>1 DEF UsedHolds, EntryHolds, HoldsOf, Used
<1>6. \A c \in Clients : InConsume(c)' => Confirming(c)'
    BY <1>1, <1>5 DEF HoldInv, Confirming
<1> QED
    BY <1>2, <1>3, <1>4, <1>6 DEF HoldInv

(* A step of production while nobody else holds the order.                 *)
LEMMA QuietStage ==
    ASSUME RowInv, OrderFree, req' = req, StageOK'
    PROVE  HoldInv'
<1>1. \A c \in Clients : ~InHold(c)' /\ ~InConsume(c)'
    BY DEF OrderFree, InHold, InConsume
<1> QED
    BY <1>1 DEF HoldInv, Busy

LEMMA SaveEnds ==
    ASSUME RowInv, HoldInv, NEW c \in Clients, Busy(c), req' = [req EXCEPT ![c] = Idle], StageOK'
    PROVE  HoldInv'
<1>1. req'[c] = Idle /\ \A d \in Clients : d # c => req'[d] = req[d]
    BY DEF RowInv
<1>2. \A d \in Clients : ~Busy(d)'
    BY <1>1 DEF HoldInv, Busy, InHold, InConsume, Idle
<1> QED
    BY <1>2 DEF HoldInv, Busy

(* Only the ticket of a hold moved, or the hold ended.                     *)
LEMMA OwnedStill ==
    ASSUME NEW h, HoldOwned(h), Full(h) \/ ~Full(h)',
           Full(h)' => /\ hold'[h].ticket = hold[h].ticket /\ hold'[h].wish = hold[h].wish
                       /\ hold'[h].entry = hold[h].entry
                       /\ ticket'[hold[h].ticket].worked = ticket[hold[h].ticket].worked
                       /\ hold'[h].state = "HELD" =>
                              hold[h].state = "HELD"
                              /\ ticket'[hold[h].ticket].phase \in
                                     IF hold[h].entry THEN {"working", "returned"} ELSE {"assigned", "waiting"},
           \A w \in Wishes : wish[w].state = "ISSUED" => wish'[w].state = "ISSUED"
    PROVE  HoldOwned(h)'
BY DEF HoldOwned, Full, FullHold

LEMMA GoodStill ==
    ASSUME NEW h, HoldGood(h), hold'[h] = hold[h], draft'[h] = draft[h], row'[h] = row[h]
    PROVE  HoldGood(h)'
BY DEF HoldGood, Full

LEMMA StateSet ==
    ASSUME NEW h, Full(h), NEW s \in {"HELD", "CONSUMED", "RELEASED"}, hold'[h] = [hold[h] EXCEPT !.state = s]
    PROVE  /\ Full(h)' /\ hold'[h].state = s /\ hold'[h].ticket = hold[h].ticket /\ hold'[h].qty = hold[h].qty
           /\ hold'[h].entry = hold[h].entry /\ hold'[h].left = hold[h].left /\ hold'[h].wish = hold[h].wish
BY DEF Full, FullHold

LEMMA DraftSet ==
    ASSUME NEW h, draft[h] \in DraftValues, draft[h].state = "DRAFT", NEW s \in {"DRAFT", "POSTED", "VOID"},
           draft'[h] = [draft[h] EXCEPT !.state = s]
    PROVE  draft'[h] \in DraftValues /\ draft'[h].state = s /\ draft'[h].qty = draft[h].qty
BY DEF DraftValues, NoDraft

(* A hold released together with its draft.                                *)
LEMMA ReleaseGood ==
    ASSUME NEW h, HoldGood(h), Full(h), hold[h].state = "HELD",
           hold'[h] = [hold[h] EXCEPT !.state = "RELEASED"],
           draft'[h] = [draft[h] EXCEPT !.state = "VOID"]
    PROVE  HoldGood(h)' /\ Full(h)' /\ hold'[h].state = "RELEASED" /\ hold'[h].ticket = hold[h].ticket
           /\ hold'[h].entry = hold[h].entry /\ hold'[h].wish = hold[h].wish
<1>1. draft[h] \in DraftValues /\ draft[h].state = "DRAFT"
    BY DEF HoldGood
<1>2. draft'[h] \in DraftValues /\ draft'[h].state = "VOID"
    BY <1>1, DraftSet
<1>3. Full(h)' /\ hold'[h].state = "RELEASED" /\ hold'[h].ticket = hold[h].ticket
      /\ hold'[h].entry = hold[h].entry /\ hold'[h].wish = hold[h].wish
    BY StateSet
<1> QED
    BY <1>2, <1>3 DEF HoldGood

(* The holds and tickets of a step put together.                           *)
LEMMA StageFrom ==
    ASSUME StageOK,
           hold' = [h \in Holds |-> hold'[h]], draft' = [h \in Holds |-> draft'[h]],
           ticket' = [t \in Tickets |-> ticket'[t]], wish' = [w \in Wishes |-> wish'[w]],
           \A h \in Holds : HoldGood(h)' /\ HoldOwned(h)' /\ (Full(h)' => Full(h) /\ hold'[h].wish = hold[h].wish),
           \A t \in Tickets : TicketGood(t)',
           \A w \in Wishes : wish'[w] \in [state : WishStates, ticket : SUBSET Tickets]
    PROVE  StageOK'
<1>1. \A h \in Holds : WishesOf(h)' \subseteq WishesOf(h)
    BY DEF WishesOf, Full
<1>2. \A h, k \in Holds : h # k => WishesOf(h)' \cap WishesOf(k)' = {}
    BY <1>1 DEF StageOK
<1> QED
    BY <1>2 DEF StageOK

LEMMA PhaseSet ==
    ASSUME StageOK, NEW t \in Tickets, NEW p \in Phases, SetPhase(t, p),
           p \in {"working", "returned"} => ticket[t].worked
    PROVE  /\ ticket' = [s \in Tickets |-> ticket'[s]]
           /\ \A s \in Tickets : /\ TicketGood(s)'
                                 /\ ticket'[s].worked = ticket[s].worked
                                 /\ ticket'[s].phase = IF s = t THEN p ELSE ticket[s].phase
<1>1. ticket' = [ticket EXCEPT ![t].phase = p] /\ ticket = [s \in Tickets |-> ticket[s]]
      /\ \A s \in Tickets : ticket[s] \in [phase : Phases, worked : BOOLEAN]
    BY DEF SetPhase, StageOK, TicketGood
<1>2. \A s \in Tickets : ticket'[s] = IF s = t THEN [ticket[s] EXCEPT !.phase = p] ELSE ticket[s]
    BY <1>1
<1>3. ticket' = [s \in Tickets |-> ticket'[s]]
    BY <1>1
<1>4. \A s \in Tickets : ticket'[s] \in [phase : Phases, worked : BOOLEAN]
          /\ ticket'[s].worked = ticket[s].worked
          /\ ticket'[s].phase = IF s = t THEN p ELSE ticket[s].phase
    BY <1>1, <1>2
<1>5. \A s \in Tickets : TicketGood(s)'
    BY <1>4 DEF StageOK, TicketGood
<1> QED
    BY <1>3, <1>4, <1>5

(* The ticket waits for its setter in another way, or is closed.           *)
LEMMA PhaseKeeps ==
    ASSUME StageOK, Unclaim \/ SetOutcome
    PROVE  StageOK'
<1>1. PICK t \in Tickets, p \in {"waiting", "closed"} :
          /\ SetPhase(t, p) /\ ticket[t].phase = IF p = "waiting" THEN "assigned" ELSE "idle"
          /\ hold' = hold /\ draft' = draft /\ wish' = wish /\ row' = row
    BY DEF Unclaim, SetOutcome, At, Closable, store
<1>2. ticket' = [s \in Tickets |-> ticket'[s]]
      /\ \A s \in Tickets : /\ TicketGood(s)'
                            /\ ticket'[s].worked = ticket[s].worked
                            /\ ticket'[s].phase = IF s = t THEN p ELSE ticket[s].phase
    BY <1>1, PhaseSet DEF Phases
<1>3. \A h \in Holds : HoldGood(h)' /\ (Full(h)' <=> Full(h))
    BY <1>1, GoodStill DEF StageOK, Full
<1>4. \A h \in Holds : HoldOwned(h)'
  <2> SUFFICES ASSUME NEW h \in Holds PROVE HoldOwned(h)'
      OBVIOUS
  <2>1. HoldOwned(h) /\ (Full(h) => hold[h].ticket \in Tickets)
      BY DEF StageOK, Full, FullHold
  <2> QED
      BY <1>1, <1>2, <1>3, <2>1 DEF HoldOwned, Full
<1> QED
    BY <1>1, <1>2, <1>3, <1>4, StageFrom DEF StageOK

LEMMA CancelKeeps ==
    ASSUME StageOK, CancelPending
    PROVE  StageOK'
<1>1. PICK t \in Tickets : /\ ticket[t].phase \in {"assigned", "waiting"} /\ SetPhase(t, "idle")
                           /\ ReleasePendingHolds(t) /\ wish' = wish /\ row' = row
    BY DEF CancelPending, At, store
<1>2. ticket' = [s \in Tickets |-> ticket'[s]]
      /\ \A s \in Tickets : /\ TicketGood(s)'
                            /\ ticket'[s].worked = ticket[s].worked
                            /\ ticket'[s].phase = IF s = t THEN "idle" ELSE ticket[s].phase
    BY <1>1, PhaseSet DEF Phases
<1>3. hold' = [h \in Holds |-> hold'[h]] /\ draft' = [h \in Holds |-> draft'[h]]
      /\ \A h \in Holds :
             /\ hold'[h] = IF h \in PendingHolds(t) THEN [hold[h] EXCEPT !.state = "RELEASED"] ELSE hold[h]
             /\ draft'[h] = IF h \in PendingHolds(t) /\ Open(h) THEN [draft[h] EXCEPT !.state = "VOID"] ELSE draft[h]
    BY <1>1 DEF ReleasePendingHolds, ReleasedIn, Voided
<1>4. ASSUME NEW h \in Holds
      PROVE  HoldGood(h)' /\ HoldOwned(h)' /\ (Full(h)' => Full(h) /\ hold'[h].wish = hold[h].wish)
  <2>1. HoldGood(h) /\ HoldOwned(h) /\ (Full(h) => hold[h].ticket \in Tickets)
      BY DEF StageOK, Full, FullHold
  <2>2. CASE h \in PendingHolds(t)
    <3>1. Full(h) /\ hold[h].state = "HELD" /\ hold[h].ticket = t /\ Open(h)
        BY <2>1, <2>2 DEF PendingHolds, HoldsOf, HoldGood, NoHold, Deleted, Open
    <3>2. HoldGood(h)' /\ Full(h)' /\ hold'[h].state = "RELEASED" /\ hold'[h].ticket = hold[h].ticket
          /\ hold'[h].entry = hold[h].entry /\ hold'[h].wish = hold[h].wish
        BY <1>3, <2>1, <2>2, <3>1, ReleaseGood
    <3>3. HoldOwned(h)'
        BY <1>1, <1>2, <2>1, <3>1, <3>2, OwnedStill
    <3> QED
        BY <3>1, <3>2, <3>3
  <2>3. CASE h \notin PendingHolds(t)
    <3>1. hold'[h] = hold[h] /\ draft'[h] = draft[h] /\ row'[h] = row[h]
        BY <1>1, <1>3, <2>3
    <3>2. HoldGood(h)' /\ (Full(h)' <=> Full(h))
        BY <2>1, <3>1, GoodStill DEF Full
    <3>3. Full(h) /\ hold[h].state = "HELD" /\ hold[h].ticket = t => FALSE
        BY <1>1, <2>1, <2>3 DEF HoldOwned, PendingHolds, HoldsOf
    <3>4. HoldOwned(h)'
        BY <1>1, <1>2, <2>1, <3>1, <3>2, <3>3 DEF HoldOwned, Full
    <3> QED
        BY <3>1, <3>2, <3>4
  <2> QED
      BY <2>2, <2>3
<1> QED
    BY <1>1, <1>2, <1>3, <1>4, StageFrom DEF StageOK

LEMMA AcceptKeeps ==
    ASSUME StageOK, Accept
    PROVE  StageOK'
<1>1. PICK t \in Tickets :
          /\ ticket[t].phase = "assigned" /\ ticket[t].worked /\ SetPhase(t, "working")
          /\ hold' = [h \in Holds |-> IF h \in PendingHolds(t) THEN [hold[h] EXCEPT !.entry = TRUE] ELSE hold[h]]
          /\ draft' = draft /\ wish' = wish /\ row' = row
    BY DEF Accept, At, store
<1>2. ticket' = [s \in Tickets |-> ticket'[s]]
      /\ \A s \in Tickets : /\ TicketGood(s)'
                            /\ ticket'[s].worked = ticket[s].worked
                            /\ ticket'[s].phase = IF s = t THEN "working" ELSE ticket[s].phase
    BY <1>1, PhaseSet DEF Phases
<1>3. ASSUME NEW h \in Holds
      PROVE  HoldGood(h)' /\ HoldOwned(h)' /\ (Full(h)' => Full(h) /\ hold'[h].wish = hold[h].wish)
  <2>1. HoldGood(h) /\ HoldOwned(h) /\ (Full(h) => hold[h].ticket \in Tickets)
      BY DEF StageOK, Full, FullHold
  <2>2. CASE h \in PendingHolds(t)
    <3>1. Full(h) /\ hold[h].state = "HELD" /\ hold[h].ticket = t
        BY <2>1, <2>2 DEF PendingHolds, HoldsOf, HoldGood, NoHold, Deleted
    <3>2. hold'[h] = [hold[h] EXCEPT !.entry = TRUE]
        BY <1>1, <2>2
    <3>3. Full(h)' /\ hold'[h].state = "HELD" /\ hold'[h].ticket = t /\ hold'[h].entry
          /\ hold'[h].wish = hold[h].wish /\ hold'[h].qty = hold[h].qty
        BY <3>1, <3>2 DEF Full, FullHold
    <3>4. HoldGood(h)'
        BY <1>1, <2>1, <3>1, <3>3 DEF HoldGood
    <3>5. HoldOwned(h)'
        BY <1>1, <1>2, <2>1, <3>1, <3>3 DEF HoldOwned
    <3> QED
        BY <3>1, <3>3, <3>4, <3>5
  <2>3. CASE h \notin PendingHolds(t)
    <3>1. hold'[h] = hold[h] /\ draft'[h] = draft[h] /\ row'[h] = row[h]
        BY <1>1, <2>3
    <3>2. HoldGood(h)' /\ (Full(h)' <=> Full(h))
        BY <2>1, <3>1, GoodStill DEF Full
    <3>3. Full(h) /\ hold[h].state = "HELD" /\ hold[h].ticket = t => FALSE
        BY <1>1, <2>1, <2>3 DEF HoldOwned, PendingHolds, HoldsOf
    <3>4. HoldOwned(h)'
        BY <1>1, <1>2, <2>1, <3>1, <3>2, <3>3 DEF HoldOwned, Full
    <3> QED
        BY <3>1, <3>2, <3>4
  <2> QED
      BY <2>2, <2>3
<1> QED
    BY <1>1, <1>2, <1>3, StageFrom DEF StageOK

(* Tickets on which nobody has worked go, with what was held for them.     *)
LEMMA DeleteKeeps ==
    ASSUME StageOK, NEW ts \in SUBSET Tickets, \A t \in ts : ~ticket[t].worked, DeleteTickets(ts),
           draft' = [h \in Holds |-> draft'[h]],
           \A h \in Holds :
               draft'[h] = IF Full(h) /\ hold[h].state = "HELD" /\ hold[h].ticket \in ts
                           THEN [draft[h] EXCEPT !.state = "VOID"] ELSE draft[h]
    PROVE  StageOK'
<1>1. /\ hold' = [h \in Holds |-> IF "ticket" \in DOMAIN hold[h] /\ hold[h].ticket \in ts THEN Deleted ELSE hold[h]]
      /\ ticket' = [t \in Tickets |-> IF t \in ts THEN [ticket[t] EXCEPT !.phase = "deleted"] ELSE ticket[t]]
      /\ wish' = wish /\ row' = row
    BY DEF DeleteTickets, store
<1>2. ASSUME NEW t \in Tickets PROVE TicketGood(t)' /\ ticket'[t].worked = ticket[t].worked
                                     /\ (t \notin ts => ticket'[t] = ticket[t])
  <2>1. TicketGood(t)
      BY DEF StageOK
  <2>2. CASE t \in ts
    <3>1. ticket'[t] = [ticket[t] EXCEPT !.phase = "deleted"]
        BY <1>1, <2>2
    <3> QED
        BY <2>1, <2>2, <3>1 DEF TicketGood, Phases
  <2>3. CASE t \notin ts
      BY <1>1, <2>1, <2>3 DEF TicketGood
  <2> QED
      BY <2>2, <2>3
<1>3. ASSUME NEW h \in Holds
      PROVE  HoldGood(h)' /\ HoldOwned(h)' /\ (Full(h)' => Full(h) /\ hold'[h].wish = hold[h].wish)
  <2>1. HoldGood(h) /\ HoldOwned(h) /\ (Full(h) => hold[h].ticket \in Tickets)
      BY DEF StageOK, Full, FullHold
  <2>2. CASE Full(h) /\ hold[h].ticket \in ts
    <3>1. hold'[h] = Deleted
        BY <1>1, <2>2 DEF Full, FullHold
    <3>2. hold[h].state # "CONSUMED"
        BY <2>1, <2>2 DEF HoldGood, HoldOwned
    <3>3. draft'[h] \in DraftValues /\ draft'[h].state \notin {"DRAFT", "POSTED"}
      <4>1. CASE hold[h].state = "HELD"
        <5>1. draft'[h] = [draft[h] EXCEPT !.state = "VOID"] /\ draft[h] \in DraftValues /\ draft[h].state = "DRAFT"
            BY <2>1, <2>2, <4>1 DEF HoldGood
        <5> QED
            BY <5>1, DraftSet
      <4>2. CASE hold[h].state # "HELD"
          BY <2>1, <2>2, <3>2, <4>2 DEF HoldGood
      <4> QED
          BY <4>1, <4>2
    <3>4. ~Full(h)'
        BY <3>1 DEF Full, FullHold, Deleted
    <3>5. HoldGood(h)'
        BY <3>1, <3>3 DEF HoldGood, Deleted
    <3> QED
        BY <3>4, <3>5 DEF HoldOwned
  <2>3. CASE ~(Full(h) /\ hold[h].ticket \in ts)
    <3>1. hold'[h] = hold[h]
      <4>1. CASE Full(h)
          BY <1>1, <2>3, <4>1
      <4>2. CASE hold[h] \in {NoHold, Deleted}
          BY <1>1, <4>2 DEF NoHold, Deleted
      <4> QED
          BY <2>1, <4>1, <4>2 DEF HoldGood
    <3>2. draft'[h] = draft[h] /\ row'[h] = row[h]
        BY <1>1, <2>3
    <3>3. HoldGood(h)' /\ (Full(h)' <=> Full(h))
        BY <2>1, <3>1, <3>2, GoodStill DEF Full
    <3>4. HoldOwned(h)'
      <4>1. CASE Full(h)
        <5>1. ticket'[hold[h].ticket] = ticket[hold[h].ticket]
            BY <1>2, <2>1, <2>3, <4>1
        <5> QED
            BY <1>1, <2>1, <3>1, <5>1 DEF HoldOwned, Full
      <4>2. CASE ~Full(h)
          BY <3>3, <4>2 DEF HoldOwned
      <4> QED
          BY <4>1, <4>2
    <3> QED
        BY <3>1, <3>3, <3>4
  <2> QED
      BY <2>2, <2>3
<1>4. hold' = [h \in Holds |-> hold'[h]] /\ ticket' = [t \in Tickets |-> ticket'[t]]
    BY <1>1
<1> QED
    BY <1>1, <1>2, <1>3, <1>4, StageFrom DEF StageOK

LEMMA RemoveKeeps ==
    ASSUME StageOK, Remove \/ ClearSplit
    PROVE  StageOK'
<1>1. CASE Remove
  <2>1. PICK t \in Tickets : /\ ~ticket[t].worked /\ draft' = Voided(PendingHolds(t)) /\ DeleteTickets({t})
      BY <1>1 DEF Remove
  <2>2. ASSUME NEW h \in Holds
        PROVE  draft'[h] = IF Full(h) /\ hold[h].state = "HELD" /\ hold[h].ticket \in {t}
                           THEN [draft[h] EXCEPT !.state = "VOID"] ELSE draft[h]
    <3>1. HoldGood(h) /\ HoldOwned(h)
        BY DEF StageOK
    <3>2. h \in PendingHolds(t) <=> Full(h) /\ hold[h].state = "HELD" /\ hold[h].ticket = t
        BY <2>1, <3>1 DEF PendingHolds, HoldsOf, HoldGood, HoldOwned, NoHold, Deleted
    <3>3. hold[h].state = "HELD" => Open(h)
        BY <3>1 DEF HoldGood, Open
    <3>4. draft'[h] = IF h \in PendingHolds(t) /\ Open(h) THEN [draft[h] EXCEPT !.state = "VOID"] ELSE draft[h]
        BY <2>1 DEF Voided
    <3> QED
        BY <3>2, <3>3, <3>4
  <2>3. draft' = [h \in Holds |-> draft'[h]]
      BY <2>1 DEF Voided
  <2> QED
      BY <2>1, <2>2, <2>3, DeleteKeeps
<1>2. CASE ClearSplit
  <2>1. draft' = draft /\ DeleteTickets(Live) /\ \A t \in Live : ticket[t].phase = "idle" /\ ~ticket[t].worked
      BY <1>2 DEF ClearSplit, At
  <2>2. ASSUME NEW h \in Holds, Full(h), hold[h].state = "HELD", hold[h].ticket \in Live PROVE FALSE
      BY <2>1, <2>2 DEF StageOK, HoldOwned
  <2>3. Live \in SUBSET Tickets
      BY DEF Live
  <2> QED
      BY <2>1, <2>2, <2>3, DeleteKeeps DEF StageOK
<1> QED
    BY <1>1, <1>2

LEMMA WishKeeps ==
    ASSUME StageOK, CreateWish \/ EndWish
    PROVE  StageOK'
<1>1. PICK w \in Wishes, v \in [state : WishStates, ticket : SUBSET Tickets] :
          /\ wish[w].state # "ISSUED" /\ wish' = [wish EXCEPT ![w] = v]
          /\ hold' = hold /\ draft' = draft /\ ticket' = ticket /\ row' = row
  <2>1. CASE CreateWish
      BY <2>1 DEF CreateWish, store, WishStates
  <2>2. CASE EndWish
    <3>1. PICK w \in Wishes, end \in {"CANCELLED", "REJECTED"} :
              /\ wish[w].state = "PENDING" /\ wish' = [wish EXCEPT ![w].state = end]
              /\ hold' = hold /\ draft' = draft /\ ticket' = ticket /\ row' = row
        BY <2>2 DEF EndWish, Pending, store
    <3>2. [wish[w] EXCEPT !.state = end] \in [state : WishStates, ticket : SUBSET Tickets]
        BY DEF StageOK, WishStates
    <3>3. wish' = [wish EXCEPT ![w] = [wish[w] EXCEPT !.state = end]]
        BY <3>1
    <3> QED
        BY <3>1, <3>2, <3>3
  <2> QED
      BY <2>1, <2>2
<1>2. wish' = [x \in Wishes |-> wish'[x]]
      /\ \A x \in Wishes : wish'[x] = IF x = w THEN v ELSE wish[x]
    BY <1>1 DEF StageOK
<1>3. \A h \in Holds : HoldGood(h)' /\ HoldOwned(h)' /\ (Full(h)' => Full(h) /\ hold'[h].wish = hold[h].wish)
  <2> SUFFICES ASSUME NEW h \in Holds
               PROVE  HoldGood(h)' /\ HoldOwned(h)' /\ (Full(h)' => Full(h) /\ hold'[h].wish = hold[h].wish)
      OBVIOUS
  <2>1. HoldGood(h) /\ HoldOwned(h)
      BY DEF StageOK
  <2>2. HoldGood(h)' /\ (Full(h)' <=> Full(h))
      BY <1>1, <2>1, GoodStill DEF Full
  <2>3. HoldOwned(h)'
    <3>1. \A x \in Wishes : wish[x].state = "ISSUED" => wish'[x].state = "ISSUED"
        BY <1>1, <1>2
    <3> QED
        BY <1>1, <2>1, <3>1 DEF HoldOwned, Full, FullHold
  <2> QED
      BY <1>1, <2>2, <2>3
<1>4. \A t \in Tickets : TicketGood(t)'
    BY <1>1 DEF StageOK, TicketGood
<1>5. \A x \in Wishes : wish'[x] \in [state : WishStates, ticket : SUBSET Tickets]
    BY <1>2 DEF StageOK
<1>6. hold' = [h \in Holds |-> hold'[h]] /\ draft' = [h \in Holds |-> draft'[h]]
      /\ ticket' = [t \in Tickets |-> ticket'[t]]
    BY <1>1 DEF StageOK
<1> QED
    BY <1>2, <1>3, <1>4, <1>5, <1>6, StageFrom

LEMMA EarlyReturnKeeps ==
    ASSUME StageOK, ReturnStoneEarly
    PROVE  StageOK'
<1>t. PICK t \in Tickets, k \in Holds : /\ k \in EntryHolds(t) /\ UNCHANGED <<store, ticket, wish>>
          /\ \E back \in Bag(k) :
                 LET kept == hold[k].qty - back
                     end == kept = 0
                 IN  /\ hold' = [hold EXCEPT ![k].qty = kept, ![k].state = IF end THEN "RELEASED" ELSE @]
                     /\ draft' = [draft EXCEPT ![k].qty = kept, ![k].state = IF end THEN "VOID" ELSE @]
    BY DEF ReturnStoneEarly
<1>1. PICK back \in Bag(k) :
          LET kept == hold[k].qty - back
              end == kept = 0
          IN  /\ hold' = [hold EXCEPT ![k].qty = kept, ![k].state = IF end THEN "RELEASED" ELSE @]
              /\ draft' = [draft EXCEPT ![k].qty = kept, ![k].state = IF end THEN "VOID" ELSE @]
              /\ ticket' = ticket /\ wish' = wish /\ row' = row
    BY <1>t DEF store
<1> DEFINE kept == hold[k].qty - back
<1>2. k \in Holds /\ hold[k].state = "HELD" /\ HoldGood(k) /\ HoldOwned(k)
    BY <1>t DEF EntryHolds, HoldsOf, StageOK
<1>3. Full(k) /\ draft[k] \in DraftValues /\ draft[k].state = "DRAFT" /\ draft[k].qty = hold[k].qty
    BY <1>2 DEF HoldGood, NoHold, Deleted
<1>4. kept \in Nat
    BY <1>3 DEF Bag, Full, FullHold
<1>5. hold' = [h \in Holds |-> hold'[h]] /\ draft' = [h \in Holds |-> draft'[h]]
      /\ \A h \in Holds : h # k => hold'[h] = hold[h] /\ draft'[h] = draft[h]
    BY <1>1, <1>2 DEF StageOK
<1>6. Full(k)' /\ hold'[k].ticket = hold[k].ticket /\ hold'[k].entry = hold[k].entry
      /\ hold'[k].wish = hold[k].wish /\ hold'[k].qty = kept
      /\ hold'[k].state = IF kept = 0 THEN "RELEASED" ELSE "HELD"
  <2> DEFINE v == hold[k]
  <2>1. hold'[k] = [v EXCEPT !.qty = kept, !.state = IF kept = 0 THEN "RELEASED" ELSE @]
      BY <1>1, <1>2 DEF StageOK
  <2>2. v \in FullHold /\ v.state = "HELD"
      BY <1>2, <1>3 DEF Full
  <2> HIDE DEF v, kept
  <2>3. CASE kept = 0
    <3>1. hold'[k] = [v EXCEPT !.qty = kept, !.state = "RELEASED"]
        BY <2>1, <2>3
    <3>2. hold'[k] \in FullHold /\ hold'[k].ticket = v.ticket /\ hold'[k].entry = v.entry
          /\ hold'[k].wish = v.wish /\ hold'[k].qty = kept /\ hold'[k].state = "RELEASED"
        BY <1>4, <2>2, <3>1 DEF FullHold
    <3> QED
        BY <2>3, <3>2 DEF Full, v
  <2>4. CASE kept # 0
    <3>1. hold'[k] = [v EXCEPT !.qty = kept, !.state = "HELD"]
        BY <2>1, <2>2, <2>4
    <3>2. hold'[k] \in FullHold /\ hold'[k].ticket = v.ticket /\ hold'[k].entry = v.entry
          /\ hold'[k].wish = v.wish /\ hold'[k].qty = kept /\ hold'[k].state = "HELD"
        BY <1>4, <2>2, <3>1 DEF FullHold
    <3> QED
        BY <2>4, <3>2 DEF Full, v
  <2> QED
      BY <2>3, <2>4
<1>7. draft'[k] \in DraftValues /\ draft'[k].qty = kept
      /\ draft'[k].state = IF kept = 0 THEN "VOID" ELSE "DRAFT"
  <2> DEFINE d == draft[k]
  <2>1. draft'[k] = [d EXCEPT !.qty = kept, !.state = IF kept = 0 THEN "VOID" ELSE @]
      BY <1>1, <1>2 DEF StageOK
  <2>2. d \in [state : {"DRAFT", "POSTED", "VOID"}, mat : Stones, qty : Nat] /\ d.state = "DRAFT"
      BY <1>3 DEF DraftValues, NoDraft
  <2> HIDE DEF d, kept
  <2>3. CASE kept = 0
    <3>1. draft'[k] = [d EXCEPT !.qty = kept, !.state = "VOID"]
        BY <2>1, <2>3
    <3> QED
        BY <1>4, <2>2, <2>3, <3>1 DEF DraftValues
  <2>4. CASE kept # 0
    <3>1. draft'[k] = [d EXCEPT !.qty = kept, !.state = "DRAFT"]
        BY <2>1, <2>2, <2>4
    <3> QED
        BY <1>4, <2>2, <2>4, <3>1 DEF DraftValues
  <2> QED
      BY <2>3, <2>4
<1> HIDE DEF kept
<1>8. ASSUME NEW h \in Holds
      PROVE  HoldGood(h)' /\ HoldOwned(h)' /\ (Full(h)' => Full(h) /\ hold'[h].wish = hold[h].wish)
  <2>1. HoldGood(h) /\ HoldOwned(h)
      BY DEF StageOK
  <2>2. CASE h = k
    <3>1. HoldGood(h)'
        BY <1>6, <1>7, <2>2 DEF HoldGood
    <3>2. HoldOwned(h)'
        BY <1>1, <1>2, <1>3, <1>6, <2>2, OwnedStill DEF HoldOwned
    <3> QED
        BY <1>3, <1>6, <2>2, <3>1, <3>2
  <2>3. CASE h # k
    <3>1. hold'[h] = hold[h] /\ draft'[h] = draft[h] /\ row'[h] = row[h]
        BY <1>1, <1>5, <2>3
    <3>2. HoldGood(h)' /\ (Full(h)' <=> Full(h))
        BY <2>1, <3>1, GoodStill DEF Full
    <3>3. HoldOwned(h)'
        BY <1>1, <2>1, <3>1 DEF HoldOwned, Full
    <3> QED
        BY <3>1, <3>2, <3>3
  <2> QED
      BY <2>2, <2>3
<1>9. \A t2 \in Tickets : TicketGood(t2)'
    BY <1>1 DEF StageOK, TicketGood
<1> QED
    BY <1>1, <1>5, <1>8, <1>9, StageFrom DEF StageOK

LEMMA ReturnKeeps ==
    ASSUME StageOK, ReturnStage
    PROVE  StageOK'
<1>t. PICK t \in Tickets :
          /\ At(t, {"working", "returned"}) /\ SetPhase(t, "returned") /\ UNCHANGED <<store, draft, wish>>
          /\ \E left \in [EntryHolds(t) -> 0..MaxQty] :
                 hold' = [h \in Holds |-> IF h \in EntryHolds(t) THEN [hold[h] EXCEPT !.left = left[h]] ELSE hold[h]]
    BY DEF ReturnStage
<1>1. PICK left \in [EntryHolds(t) -> 0..MaxQty] :
          /\ ticket[t].phase \in {"working", "returned"} /\ SetPhase(t, "returned")
          /\ hold' = [h \in Holds |-> IF h \in EntryHolds(t) THEN [hold[h] EXCEPT !.left = left[h]] ELSE hold[h]]
          /\ draft' = draft /\ wish' = wish /\ row' = row
    BY <1>t DEF At, store
<1>2. ticket' = [s \in Tickets |-> ticket'[s]]
      /\ \A s \in Tickets : /\ TicketGood(s)'
                            /\ ticket'[s].worked = ticket[s].worked
                            /\ ticket'[s].phase = IF s = t THEN "returned" ELSE ticket[s].phase
  <2>1. ticket[t].worked
      BY <1>1 DEF StageOK, TicketGood
  <2> QED
      BY <1>1, <2>1, PhaseSet DEF Phases
<1>3. ASSUME NEW h \in Holds
      PROVE  HoldGood(h)' /\ HoldOwned(h)' /\ (Full(h)' => Full(h) /\ hold'[h].wish = hold[h].wish)
  <2>1. HoldGood(h) /\ HoldOwned(h) /\ (Full(h) => hold[h].ticket \in Tickets)
      BY DEF StageOK, Full, FullHold
  <2>2. CASE h \in EntryHolds(t)
    <3>1. Full(h) /\ hold[h].state = "HELD" /\ hold[h].ticket = t /\ hold[h].entry
        BY <2>1, <2>2 DEF EntryHolds, HoldsOf, HoldGood, NoHold, Deleted
    <3>2. hold'[h] = [hold[h] EXCEPT !.left = left[h]] /\ left[h] \in Nat
        BY <1>1, <2>2, QtyAssumption
    <3>3. Full(h)' /\ hold'[h].state = "HELD" /\ hold'[h].ticket = t /\ hold'[h].entry = hold[h].entry
          /\ hold'[h].wish = hold[h].wish /\ hold'[h].qty = hold[h].qty
        BY <3>1, <3>2 DEF Full, FullHold
    <3>4. HoldGood(h)'
        BY <1>1, <2>1, <3>1, <3>3 DEF HoldGood
    <3>5. HoldOwned(h)'
        BY <1>1, <1>2, <2>1, <3>1, <3>3 DEF HoldOwned
    <3> QED
        BY <3>1, <3>3, <3>4, <3>5
  <2>3. CASE h \notin EntryHolds(t)
    <3>1. hold'[h] = hold[h] /\ draft'[h] = draft[h] /\ row'[h] = row[h]
        BY <1>1, <2>3
    <3>2. HoldGood(h)' /\ (Full(h)' <=> Full(h))
        BY <2>1, <3>1, GoodStill DEF Full
    <3>3. Full(h) /\ hold[h].state = "HELD" /\ hold[h].ticket = t => FALSE
        BY <1>1, <2>1, <2>3 DEF HoldOwned, EntryHolds, HoldsOf
    <3>4. HoldOwned(h)'
        BY <1>1, <1>2, <2>1, <3>1, <3>2, <3>3 DEF HoldOwned, Full
    <3> QED
        BY <3>1, <3>2, <3>4
  <2> QED
      BY <2>2, <2>3
<1> QED
    BY <1>1, <1>2, <1>3, StageFrom DEF StageOK

(* A request of the office or of a setter for stones has been checked.     *)
LEMMA AskKeeps ==
    ASSUME RowInv, HoldInv, OrderFree, NEW c \in Clients, NEW t \in Tickets, NEW ws,
           \/ ws = {} /\ ticket[t].phase = "idle"
           \/ \E w \in Wishes : ws = {w} /\ wish[w].state = "PENDING" /\ ticket[t].phase = "working",
           AskHold(c, t, ws)
    PROVE  HoldInv'
<1>1. PICK h \in Holds, m \in Stones, q \in Qty :
          /\ hold[h] = NoHold
          /\ Begin(c, [op |-> "hold", hold |-> h, mat |-> m, qty |-> q, ticket |-> t, wish |-> ws])
    BY DEF AskHold
<1>2. req'[c] = [op |-> "hold", hold |-> h, mat |-> m, qty |-> q, ticket |-> t, wish |-> ws]
      /\ \A d \in Clients : d # c => req'[d] = req[d]
    BY <1>1 DEF Begin, RowInv
<1>3. hold' = hold /\ draft' = draft /\ ticket' = ticket /\ wish' = wish /\ row' = row
    BY <1>1 DEF Begin, store, stage
<1>4. StageOK'
    BY <1>3 DEF HoldInv, StageOK, HoldGood, HoldOwned, TicketGood, Full, WishesOf
<1>5. \A d \in Clients : Busy(d)' => d = c
    BY <1>2 DEF OrderFree, Busy, InHold, InConsume
<1>6. ~InConsume(c)'
    BY <1>2 DEF InConsume
<1>7. Asked(c)'
    BY <1>1, <1>2, <1>3, QtyAssumption DEF Asked, Qty
<1> QED
    BY <1>4, <1>5, <1>6, <1>7 DEF HoldInv, Busy

LEMMA ConsumeAsked ==
    ASSUME RowInv, HoldInv, NEW c \in Clients, ConsumeStoneHolds(c)
    PROVE  HoldInv'
<1>1. PICK t \in Tickets : /\ OrderFree /\ ticket[t].phase = "returned"
          /\ StockTx(c, "consume",
                 [h \in UsedHolds(t) |-> RowOf("AUTO_OUT", draft[h].mat, Used(h), {})], <<>>, {}, {t})
    BY DEF ConsumeStoneHolds, At
<1> DEFINE f == [h \in UsedHolds(t) |-> RowOf("AUTO_OUT", draft[h].mat, Used(h), {})]
<1>2. DOMAIN f = UsedHolds(t)
      /\ \A h \in UsedHolds(t) : f[h].kind = "AUTO_OUT" /\ f[h].qty = hold[h].qty - hold[h].left
    BY DEF RowOf, Used
<1> HIDE DEF f
<1>3. req' = [req EXCEPT ![c] = Tx("consume", f, <<>>, {}, {t})] /\ UNCHANGED <<store, stage>>
    BY <1>1 DEF StockTx, Begin, Tx, f
<1>4. req'[c] = Tx("consume", f, <<>>, {}, {t}) /\ \A d \in Clients : d # c => req'[d] = req[d]
    BY <1>3 DEF RowInv
<1>5. hold' = hold /\ draft' = draft /\ ticket' = ticket /\ wish' = wish /\ row' = row
    BY <1>3 DEF store, stage
<1>6. StageOK'
    BY <1>5 DEF HoldInv, StageOK, HoldGood, HoldOwned, TicketGood, Full, WishesOf
<1>7. \A d \in Clients : Busy(d)' => d = c
    BY <1>1, <1>4 DEF OrderFree, Busy, InHold, InConsume
<1>8. ~InHold(c)' /\ req'[c].rows = f /\ req'[c].tickets = {t}
    BY <1>4 DEF InHold, Tx
<1>9. UsedHolds(t)' = UsedHolds(t)
    BY <1>5 DEF UsedHolds, EntryHolds, HoldsOf, Used
<1>10. Confirming(c)'
    BY <1>1, <1>2, <1>5, <1>8, <1>9 DEF Confirming
<1> QED
    BY <1>6, <1>7, <1>8, <1>10 DEF HoldInv, Busy

(* The draft and the hold appear together.                                 *)
LEMMA NewHoldKeeps ==
    ASSUME StageOK, NEW k \in Holds, NEW v \in FullHold, NEW d \in DraftValues,
           v.state = "HELD", d.state = "DRAFT", d.qty = v.qty, hold[k] = NoHold,
           hold' = [hold EXCEPT ![k] = v], draft' = [draft EXCEPT ![k] = d],
           row' = row,
           ticket' = [s \in Tickets |-> ticket'[s]],
           \A s \in Tickets : /\ TicketGood(s)' /\ ticket'[s].worked = ticket[s].worked
                              /\ ticket'[s].phase = ticket[s].phase \/ ticket[s].phase = "idle",
           ticket'[v.ticket].phase \in IF v.entry THEN {"working", "returned"} ELSE {"assigned", "waiting"},
           wish' = [w \in Wishes |-> IF w \in v.wish THEN [wish[w] EXCEPT !.state = "ISSUED"] ELSE wish[w]],
           \A w \in v.wish : wish[w].state = "PENDING"
    PROVE  StageOK'
<1> DEFINE ws == v.wish
<1>1. hold'[k] = v /\ draft'[k] = d
      /\ hold' = [h \in Holds |-> hold'[h]] /\ draft' = [h \in Holds |-> draft'[h]]
      /\ \A h \in Holds : h # k => hold'[h] = hold[h] /\ draft'[h] = draft[h]
    BY DEF StageOK
<1>2. Full(k)' /\ ~Full(k)
  <2>1. Full(k)'
      BY <1>1 DEF Full
  <2>2. ~Full(k)
      BY DEF Full, FullHold, NoHold
  <2> QED
      BY <2>1, <2>2
<1>3. wish' = [w \in Wishes |-> wish'[w]]
      /\ \A w \in Wishes : /\ wish'[w] \in [state : WishStates, ticket : SUBSET Tickets]
                           /\ wish[w].state = "ISSUED" \/ w \in ws => wish'[w].state = "ISSUED"
  <2>1. wish' = [w \in Wishes |-> wish'[w]]
      OBVIOUS
  <2>2. ASSUME NEW w \in Wishes
        PROVE  /\ wish'[w] \in [state : WishStates, ticket : SUBSET Tickets]
               /\ wish[w].state = "ISSUED" \/ w \in ws => wish'[w].state = "ISSUED"
    <3>1. wish[w] \in [state : WishStates, ticket : SUBSET Tickets]
        BY DEF StageOK
    <3>2. CASE w \in ws
      <4>1. wish'[w] = [wish[w] EXCEPT !.state = "ISSUED"]
          BY <3>2
      <4> QED
          BY <3>1, <4>1 DEF WishStates
    <3>3. CASE w \notin ws
        BY <3>1, <3>3
    <3> QED
        BY <3>2, <3>3
  <2> QED
      BY <2>1, <2>2
<1>4. ASSUME NEW h \in Holds PROVE HoldGood(h)' /\ HoldOwned(h)'
  <2>1. CASE h = k
    <3>2. HoldGood(k)'
        BY <1>1, <1>2 DEF HoldGood
    <3>3. v.ticket \in Tickets /\ (v.entry => ticket'[v.ticket].worked)
        BY DEF TicketGood, FullHold
    <3>4. HoldOwned(k)'
      <4>1. \A w \in ws : wish'[w].state = "ISSUED"
          BY <1>3 DEF FullHold
      <4> QED
          BY <1>1, <3>3, <4>1 DEF HoldOwned
    <3> QED
        BY <2>1, <3>2, <3>4
  <2>2. CASE h # k
    <3>1. HoldGood(h) /\ HoldOwned(h) /\ (Full(h) => hold[h].ticket \in Tickets /\ hold[h].wish \subseteq Wishes)
        BY DEF StageOK, Full, FullHold
    <3>2. hold'[h] = hold[h] /\ draft'[h] = draft[h] /\ row'[h] = row[h]
        BY <1>1, <2>2
    <3>3. HoldGood(h)' /\ (Full(h)' <=> Full(h))
        BY <3>1, <3>2, GoodStill DEF Full
    <3>4. HoldOwned(h)'
      <4>1. CASE Full(h)
        <5>1. ticket'[hold[h].ticket].worked = ticket[hold[h].ticket].worked
            BY <3>1, <4>1
        <5>2. hold[h].state = "HELD" => ticket'[hold[h].ticket].phase = ticket[hold[h].ticket].phase
            BY <3>1, <4>1 DEF HoldOwned
        <5>3. \A w \in hold[h].wish : wish'[w].state = "ISSUED"
            BY <1>3, <3>1, <4>1 DEF HoldOwned
        <5> QED
            BY <3>1, <3>2, <4>1, <5>1, <5>2, <5>3 DEF HoldOwned
      <4>2. CASE ~Full(h)
          BY <3>3, <4>2 DEF HoldOwned
      <4> QED
          BY <4>1, <4>2
    <3> QED
        BY <3>3, <3>4
  <2> QED
      BY <2>1, <2>2
<1>5. \A h \in Holds : h # k => WishesOf(h)' = WishesOf(h) /\ WishesOf(h) \cap ws = {}
  <2> SUFFICES ASSUME NEW h \in Holds, h # k
               PROVE  WishesOf(h)' = WishesOf(h) /\ WishesOf(h) \cap ws = {}
      OBVIOUS
  <2>1. WishesOf(h)' = WishesOf(h)
      BY <1>1 DEF WishesOf, Full
  <2>2. \A w \in WishesOf(h) : wish[w].state = "ISSUED"
      BY DEF WishesOf, StageOK, HoldOwned
  <2> QED
      BY <2>1, <2>2
<1>6. WishesOf(k)' = ws
    BY <1>1, <1>2 DEF WishesOf
<1>7. \A h, j \in Holds : h # j => WishesOf(h)' \cap WishesOf(j)' = {}
    BY <1>5, <1>6 DEF StageOK
<1> QED
    BY <1>1, <1>3, <1>4, <1>7 DEF StageOK

LEMMA AssignSaved ==
    ASSUME RowInv, HoldInv, NEW c \in Clients, AssignSave(c)
    PROVE  HoldInv'
<1> DEFINE r == req[c]
           t == r.ticket
<1>1. /\ r.op = "hold" /\ r.wish = {}
      /\ hold' = [ReleasedIn(PendingHolds(t), hold) EXCEPT ![r.hold] = NewHold(r, FALSE)]
      /\ draft' = [Voided(PendingHolds(t)) EXCEPT ![r.hold] = NewDraft(r)]
      /\ SetPhase(t, "assigned") /\ req' = [req EXCEPT ![c] = Idle] /\ wish' = wish /\ row' = row
    BY DEF AssignSave, store
<1>2. InHold(c) /\ Asked(c)
    BY <1>1 DEF InHold, HoldInv
<1>3. /\ r.hold \in Holds /\ hold[r.hold] = NoHold /\ r.mat \in Stones /\ r.qty \in Nat /\ t \in Tickets
      /\ ticket[t].phase = "idle"
    BY <1>1, <1>2 DEF Asked
<1>4. PendingHolds(t) = {}
  <2> SUFFICES ASSUME NEW h \in Holds, hold[h].state = "HELD", hold[h].ticket = t PROVE FALSE
      BY DEF PendingHolds, HoldsOf
  <2>1. Full(h)
      BY DEF HoldInv, StageOK, HoldGood, NoHold, Deleted
  <2> QED
      BY <1>3, <2>1 DEF HoldInv, StageOK, HoldOwned
<1>5. ReleasedIn({}, hold) = hold /\ Voided({}) = draft
    BY DEF ReleasedIn, Voided, HoldInv, StageOK
<1> DEFINE v == NewHold(r, FALSE)
           d == NewDraft(r)
<1>6. hold' = [hold EXCEPT ![r.hold] = v] /\ draft' = [draft EXCEPT ![r.hold] = d]
    BY <1>1, <1>4, <1>5
<1>v. v \in FullHold /\ v.state = "HELD" /\ v.ticket = t /\ ~v.entry /\ v.wish = {} /\ v.qty = r.qty
    BY <1>1, <1>3 DEF NewHold, FullHold
<1>d. d \in DraftValues /\ d.state = "DRAFT" /\ d.qty = r.qty
    BY <1>3 DEF NewDraft, DraftValues
<1>7. StageOK
    BY DEF HoldInv
<1> HIDE DEF r
<1>8. ticket' = [s \in Tickets |-> ticket'[s]]
      /\ \A s \in Tickets : /\ TicketGood(s)'
                            /\ ticket'[s].worked = ticket[s].worked
                            /\ ticket'[s].phase = IF s = t THEN "assigned" ELSE ticket[s].phase
    BY <1>1, <1>3, <1>7, PhaseSet DEF Phases
<1>9. wish' = [w \in Wishes |-> IF w \in v.wish THEN [wish[w] EXCEPT !.state = "ISSUED"] ELSE wish[w]]
    BY <1>1, <1>7, <1>v DEF StageOK
<1> DEFINE k == r.hold
<1>k. k \in Holds /\ hold[k] = NoHold /\ hold' = [hold EXCEPT ![k] = v] /\ draft' = [draft EXCEPT ![k] = d]
    BY <1>3, <1>6
<1> HIDE DEF v, d, k
<1>t. ticket'[v.ticket].phase \in IF v.entry THEN {"working", "returned"} ELSE {"assigned", "waiting"}
    BY <1>3, <1>8, <1>v
<1>s. \A s \in Tickets : /\ TicketGood(s)' /\ ticket'[s].worked = ticket[s].worked
                         /\ ticket'[s].phase = ticket[s].phase \/ ticket[s].phase = "idle"
    BY <1>3, <1>8
<1>w. row' = row /\ d.qty = v.qty /\ \A w \in v.wish : wish[w].state = "PENDING"
    BY <1>1, <1>3, <1>v, <1>d
<1>10. StageOK'
    BY <1>k, <1>t, <1>s, <1>w, <1>7, <1>8, <1>9, <1>v, <1>d, NewHoldKeeps
<1> QED
    BY <1>1, <1>2, <1>10, SaveEnds DEF Busy

LEMMA IssueSaved ==
    ASSUME RowInv, HoldInv, NEW c \in Clients, IssueWishSave(c)
    PROVE  HoldInv'
<1> DEFINE r == req[c]
           t == r.ticket
<1>1. /\ r.op = "hold" /\ r.wish # {}
      /\ hold' = [hold EXCEPT ![r.hold] = NewHold(r, TRUE)]
      /\ draft' = [draft EXCEPT ![r.hold] = NewDraft(r)]
      /\ wish' = [w \in Wishes |-> IF w \in r.wish THEN [wish[w] EXCEPT !.state = "ISSUED"] ELSE wish[w]]
      /\ req' = [req EXCEPT ![c] = Idle] /\ ticket' = ticket /\ row' = row
    BY DEF IssueWishSave, store
<1>2. InHold(c) /\ Asked(c)
    BY <1>1 DEF InHold, HoldInv
<1>3. /\ r.hold \in Holds /\ hold[r.hold] = NoHold /\ r.mat \in Stones /\ r.qty \in Nat /\ t \in Tickets
      /\ ticket[t].phase = "working" /\ r.wish \in SUBSET Wishes /\ \A w \in r.wish : wish[w].state = "PENDING"
    BY <1>1, <1>2 DEF Asked
<1> DEFINE v == NewHold(r, TRUE)
           d == NewDraft(r)
<1>6. hold' = [hold EXCEPT ![r.hold] = v] /\ draft' = [draft EXCEPT ![r.hold] = d]
    BY <1>1
<1>v. v \in FullHold /\ v.state = "HELD" /\ v.ticket = t /\ v.entry /\ v.wish = r.wish /\ v.qty = r.qty
    BY <1>3 DEF NewHold, FullHold
<1>d. d \in DraftValues /\ d.state = "DRAFT" /\ d.qty = r.qty
    BY <1>3 DEF NewDraft, DraftValues
<1>7. StageOK
    BY DEF HoldInv
<1> HIDE DEF r
<1>8. ticket' = [s \in Tickets |-> ticket'[s]]
      /\ \A s \in Tickets : /\ TicketGood(s)'
                            /\ ticket'[s].worked = ticket[s].worked
                            /\ ticket'[s].phase = ticket[s].phase
    BY <1>1, <1>7 DEF StageOK, TicketGood
<1>9. wish' = [w \in Wishes |-> IF w \in v.wish THEN [wish[w] EXCEPT !.state = "ISSUED"] ELSE wish[w]]
    BY <1>1, <1>v
<1> DEFINE k == r.hold
<1>k. k \in Holds /\ hold[k] = NoHold /\ hold' = [hold EXCEPT ![k] = v] /\ draft' = [draft EXCEPT ![k] = d]
    BY <1>3, <1>6
<1> HIDE DEF v, d, k
<1>t. ticket'[v.ticket].phase \in IF v.entry THEN {"working", "returned"} ELSE {"assigned", "waiting"}
    BY <1>3, <1>8, <1>v
<1>s. \A s \in Tickets : /\ TicketGood(s)' /\ ticket'[s].worked = ticket[s].worked
                         /\ ticket'[s].phase = ticket[s].phase \/ ticket[s].phase = "idle"
    BY <1>3, <1>8
<1>w. row' = row /\ d.qty = v.qty /\ \A w \in v.wish : wish[w].state = "PENDING"
    BY <1>1, <1>3, <1>v, <1>d
<1>10. StageOK'
    BY <1>k, <1>t, <1>s, <1>w, <1>7, <1>8, <1>9, <1>v, <1>d, NewHoldKeeps
<1> QED
    BY <1>1, <1>2, <1>10, SaveEnds DEF Busy

(* The keeper's confirmation: what was used leaves the store with its       *)
(* draft and its hold, the rest is released.                               *)
LEMMA ConfirmSaved ==
    ASSUME RowInv, HoldInv, NEW c \in Clients, ConfirmSave(c)
    PROVE  HoldInv'
<1> DEFINE f == req[c].rows
<1>1. InConsume(c) /\ Confirming(c)
    BY DEF ConfirmSave, RowInv, HoldInv, InHold, InStock, Idle
<1>2. PICK t \in Tickets :
          /\ req[c].tickets = {t} /\ ticket[t].phase = "returned" /\ DOMAIN f = UsedHolds(t)
          /\ \A h \in UsedHolds(t) : f[h].kind = "AUTO_OUT" /\ f[h].qty = hold[h].qty - hold[h].left
    BY <1>1 DEF Confirming
<1>3. /\ row' = RowsAfter(c) /\ req' = [req EXCEPT ![c] = Idle] /\ wish' = wish /\ SetPhase(t, "idle")
      /\ draft' = [h \in Holds |->
             IF h \in DOMAIN f THEN [draft[h] EXCEPT !.state = "POSTED"]
             ELSE IF h \in EntryHolds(t) THEN [draft[h] EXCEPT !.state = "VOID"] ELSE draft[h]]
      /\ hold' = [h \in Holds |->
             IF h \in DOMAIN f THEN [hold[h] EXCEPT !.state = "CONSUMED"]
             ELSE IF h \in EntryHolds(t) THEN [hold[h] EXCEPT !.state = "RELEASED"] ELSE hold[h]]
    BY <1>2 DEF ConfirmSave, WriteStore
<1>4. \A h \in Holds : row'[h] = IF h \in UsedHolds(t) THEN f[h] ELSE row[h]
    BY <1>2, <1>3 DEF RowsAfter, Written, AllRows
<1>5. UsedHolds(t) \subseteq EntryHolds(t)
    BY DEF UsedHolds
<1> HIDE DEF f
<1>6. StageOK
    BY DEF HoldInv
<1>7. ticket' = [s \in Tickets |-> ticket'[s]]
      /\ \A s \in Tickets : /\ TicketGood(s)'
                            /\ ticket'[s].worked = ticket[s].worked
                            /\ ticket'[s].phase = IF s = t THEN "idle" ELSE ticket[s].phase
    BY <1>3, <1>6, PhaseSet DEF Phases
<1>8. ASSUME NEW h \in Holds
      PROVE  HoldGood(h)' /\ HoldOwned(h)' /\ (Full(h)' => Full(h) /\ hold'[h].wish = hold[h].wish)
  <2>1. HoldGood(h) /\ HoldOwned(h) /\ (Full(h) => hold[h].ticket \in Tickets)
      BY <1>6 DEF StageOK, Full, FullHold
  <2>2. ASSUME h \in EntryHolds(t)
        PROVE  /\ Full(h) /\ hold[h].state = "HELD" /\ hold[h].ticket = t /\ hold[h].entry
               /\ draft[h] \in DraftValues /\ draft[h].state = "DRAFT"
      BY <2>1, <2>2 DEF EntryHolds, HoldsOf, HoldGood, NoHold, Deleted
  <2>3. CASE h \in UsedHolds(t)
    <3>1. hold'[h] = [hold[h] EXCEPT !.state = "CONSUMED"] /\ draft'[h] = [draft[h] EXCEPT !.state = "POSTED"]
          /\ row'[h].kind = "AUTO_OUT" /\ row'[h].qty = hold[h].qty - hold[h].left
        BY <1>2, <1>3, <1>4, <2>3
    <3>2. Full(h) /\ hold[h].state = "HELD" /\ hold[h].ticket = t /\ hold[h].entry
          /\ draft[h] \in DraftValues /\ draft[h].state = "DRAFT"
        BY <1>5, <2>2, <2>3
    <3>3. Full(h)' /\ hold'[h].state = "CONSUMED" /\ hold'[h].ticket = t /\ hold'[h].qty = hold[h].qty
          /\ hold'[h].entry = hold[h].entry /\ hold'[h].left = hold[h].left /\ hold'[h].wish = hold[h].wish
        BY <3>1, <3>2, StateSet
    <3>4. draft'[h] \in DraftValues /\ draft'[h].state = "POSTED"
        BY <3>1, <3>2, DraftSet
    <3>5. HoldGood(h)'
        BY <3>1, <3>2, <3>3, <3>4 DEF HoldGood
    <3>6. HoldOwned(h)'
        BY <1>3, <1>7, <2>1, <3>2, <3>3 DEF HoldOwned
    <3> QED
        BY <3>2, <3>3, <3>5, <3>6
  <2>4. CASE h \in EntryHolds(t) /\ h \notin UsedHolds(t)
    <3>1. hold'[h] = [hold[h] EXCEPT !.state = "RELEASED"] /\ draft'[h] = [draft[h] EXCEPT !.state = "VOID"]
        BY <1>2, <1>3, <2>4
    <3>2. Full(h) /\ hold[h].state = "HELD" /\ hold[h].ticket = t
        BY <2>2, <2>4
    <3>3. HoldGood(h)' /\ Full(h)' /\ hold'[h].state = "RELEASED" /\ hold'[h].ticket = hold[h].ticket
          /\ hold'[h].entry = hold[h].entry /\ hold'[h].wish = hold[h].wish
        BY <2>1, <3>1, <3>2, ReleaseGood
    <3>4. HoldOwned(h)'
        BY <1>3, <1>7, <2>1, <3>2, <3>3 DEF HoldOwned
    <3> QED
        BY <3>2, <3>3, <3>4
  <2>5. CASE h \notin EntryHolds(t)
    <3>1. hold'[h] = hold[h] /\ draft'[h] = draft[h] /\ row'[h] = row[h]
        BY <1>2, <1>3, <1>4, <1>5, <2>5
    <3>2. HoldGood(h)' /\ (Full(h)' <=> Full(h))
        BY <2>1, <3>1, GoodStill DEF Full
    <3>3. Full(h) /\ hold[h].state = "HELD" /\ hold[h].ticket = t => FALSE
        BY <1>2, <2>1, <2>5 DEF HoldOwned, EntryHolds, HoldsOf
    <3>4. HoldOwned(h)'
        BY <1>3, <1>7, <2>1, <3>1, <3>2, <3>3 DEF HoldOwned, Full
    <3> QED
        BY <3>1, <3>2, <3>4
  <2> QED
      BY <2>3, <2>4, <2>5
<1>9. hold' = [h \in Holds |-> hold'[h]] /\ draft' = [h \in Holds |-> draft'[h]]
    BY <1>3
<1>10. StageOK'
    BY <1>3, <1>6, <1>7, <1>8, <1>9, StageFrom DEF StageOK
<1> QED
    BY <1>1, <1>3, <1>10, SaveEnds DEF Busy

(* The store's own transactions leave the holds' rows to production.       *)
LEMMA StoreStepKeepsHolds ==
    ASSUME RowInv, HoldInv, NEW c \in Clients, StoreStep(c)
    PROVE  HoldInv'
<1>1. CASE \/ CreateInbound(c) \/ CreateOutbound(c) \/ Transfer(c) \/ UpdateOutbound(c)
           \/ DeleteOutbound(c) \/ UpdateInbound(c) \/ DeleteInbound(c) \/ UpdateStock(c)
           \/ RevokeAutoInbounds(c) \/ IssueStock(c)
  <2>1. Starts(c)
      BY <1>1, MovementsStart
  <2>2. row' = row /\ UNCHANGED stage
      BY <1>1 DEF CreateInbound, CreateOutbound, Transfer, UpdateOutbound, DeleteOutbound, UpdateInbound,
                  DeleteInbound, UpdateStock, RevokeAutoInbounds, IssueStock, WriteRows, StockTx, Begin, store
  <2>3. PICK f, g, locked : req' = [req EXCEPT ![c] = Tx("stock", f, g, locked, {})]
      BY <2>1 DEF Starts
  <2>4. req'[c].op = "stock" /\ \A d \in Clients : d # c => req'[d] = req[d]
      BY <2>3 DEF RowInv, Tx
  <2>5. \A d \in Clients : /\ InHold(d)' => InHold(d) /\ req'[d] = req[d]
                           /\ InConsume(d)' => InConsume(d) /\ req'[d] = req[d]
      BY <2>4 DEF InHold, InConsume
  <2> QED
      BY <2>2, <2>5, StoreKeepsHolds
<1>2. CASE CreateAutoInbound(c)
  <2>0. PICK r \in Rows : \E v : row' = [row EXCEPT ![r] = v] /\ req' = req /\ UNCHANGED stage
      BY <1>2 DEF CreateAutoInbound
  <2>1. PICK v : row' = [row EXCEPT ![r] = v] /\ req' = req /\ UNCHANGED stage
      BY <2>0
  <2>2. \A h \in Holds : row'[h] = row[h]
      BY <2>1, DisjointAssumption DEF RowInv
  <2>3. \A d \in Clients : /\ InHold(d)' => InHold(d) /\ req'[d] = req[d]
                           /\ InConsume(d)' => InConsume(d) /\ req'[d] = req[d]
      BY <2>1 DEF InHold, InConsume
  <2> QED
      BY <2>1, <2>2, <2>3, StoreKeepsHolds
<1>3. CASE Recompute(c)
  <2>1. InTx(c) /\ row' = row /\ UNCHANGED stage
      BY <1>3 DEF Recompute, store
  <2>2. PICK v : /\ req' = [req EXCEPT ![c] = v]
                 /\ v = [req[c] EXCEPT !.summed = TRUE, !.locked = @ \cup Twice(c),
                             !.sum = [m \in Materials |-> NetOf(OpeningAfter(c), RowsAfter(c), m)]]
      BY <1>3 DEF Recompute
  <2>3. InStock(c) \/ InConsume(c)
      BY <2>1 DEF InTx, RowInv, InHold, Idle
  <2>4. DOMAIN v = TxFields /\ v.op = req[c].op /\ v.rows = req[c].rows /\ v.tickets = req[c].tickets
      BY <2>2, <2>3 DEF InStock, InConsume, TxFields
  <2>5. req'[c] = v /\ \A d \in Clients : d # c => req'[d] = req[d]
      BY <2>2 DEF RowInv
  <2>6. ~InHold(c)' /\ (InConsume(c)' => InConsume(c))
      BY <2>3, <2>4, <2>5 DEF InHold, InConsume, InStock
  <2>7. \A d \in Clients : d # c => (InHold(d)' <=> InHold(d)) /\ (InConsume(d)' <=> InConsume(d))
      BY <2>5 DEF InHold, InConsume
  <2>8. \A d \in Clients :
            /\ InHold(d)' => InHold(d) /\ req'[d] = req[d]
            /\ InConsume(d)' => InConsume(d) /\ req'[d].rows = req[d].rows /\ req'[d].tickets = req[d].tickets
      BY <2>4, <2>5, <2>6, <2>7
  <2>9. \A h \in Holds : row'[h] = row[h]
      BY <2>1
  <2> QED
      BY <2>1, <2>8, <2>9, StoreKeepsHolds
<1>4. CASE Commit(c) \/ Fail(c)
  <2>1. req' = [req EXCEPT ![c] = Idle] /\ UNCHANGED stage
      BY <1>4 DEF Commit, Fail, WriteStore
  <2>2. \A h \in Holds : row'[h] = row[h]
    <3>1. CASE Commit(c)
      <4>1. InStock(c) /\ row' = RowsAfter(c)
          BY <3>1 DEF Commit, WriteStore, RowInv, InHold, InConsume, Idle
      <4>2. DOMAIN req[c].rows \subseteq Rows
          BY <4>1 DEF RowInv, GoodRows
      <4> QED
          BY <4>1, <4>2, DisjointAssumption DEF RowsAfter, Written, AllRows
    <3>2. CASE Fail(c)
        BY <3>2 DEF Fail, store
    <3> QED
        BY <1>4, <3>1, <3>2
  <2>3. req'[c] = Idle /\ \A d \in Clients : d # c => req'[d] = req[d]
      BY <2>1 DEF RowInv
  <2>4. \A d \in Clients : /\ InHold(d)' => InHold(d) /\ req'[d] = req[d]
                           /\ InConsume(d)' => InConsume(d) /\ req'[d] = req[d]
      BY <2>3 DEF InHold, InConsume, Idle
  <2> QED
      BY <2>1, <2>2, <2>4, StoreKeepsHolds
<1> QED
    BY <1>1, <1>2, <1>3, <1>4 DEF StoreStep

LEMMA StageStepKeepsHolds ==
    ASSUME RowInv, HoldInv, NEW c \in Clients, StageStep(c)
    PROVE  HoldInv'
<1>1. CASE Assign(c)
  <2>1. PICK t \in Tickets : OrderFree /\ ticket[t].phase = "idle" /\ AskHold(c, t, {})
      BY <1>1 DEF Assign, At
  <2> QED
      BY <2>1, AskKeeps
<1>2. CASE IssueWish(c)
  <2>1. PICK w \in Wishes : \E t \in wish[w].ticket :
            OrderFree /\ wish[w].state = "PENDING" /\ ticket[t].phase = "working" /\ AskHold(c, t, {w})
      BY <1>2 DEF IssueWish, At, Pending
  <2>2. wish[w].ticket \subseteq Tickets
      BY DEF HoldInv, StageOK
  <2>3. PICK t \in Tickets :
            OrderFree /\ wish[w].state = "PENDING" /\ ticket[t].phase = "working" /\ AskHold(c, t, {w})
      BY <2>1, <2>2
  <2> QED
      BY <2>3, AskKeeps
<1> QED
    BY <1>1, <1>2, AssignSaved, IssueSaved, ConsumeAsked, ConfirmSaved DEF StageStep

LEMMA QuietStepKeepsHolds ==
    ASSUME RowInv, HoldInv, Office = FALSE,
           \/ Unclaim \/ CancelPending \/ Accept \/ Remove \/ SetOutcome \/ ClearSplit \/ ChangeStatus
           \/ RemoveOrder \/ CreateWish \/ EndWish \/ ReturnStoneEarly \/ ReturnStage
    PROVE  HoldInv'
<1>1. ~ChangeStatus /\ ~RemoveOrder
    BY DEF ChangeStatus, RemoveOrder
<1>2. OrderFree /\ req' = req
    BY <1>1 DEF Unclaim, CancelPending, Accept, Remove, SetOutcome, ClearSplit, CreateWish, EndWish,
                ReturnStoneEarly, ReturnStage, DeleteTickets
<1>3. StageOK
    BY DEF HoldInv
<1>4. StageOK'
    BY <1>1, <1>3, PhaseKeeps, CancelKeeps, AcceptKeeps, RemoveKeeps, WishKeeps, EarlyReturnKeeps, ReturnKeeps
<1> QED
    BY <1>2, <1>4, QuietStage

LEMMA HoldInvNext ==
    ASSUME RowInv, HoldInv, Office = FALSE, [Next]_stones
    PROVE  HoldInv'
<1>1. CASE UNCHANGED stones
  <2>1. UNCHANGED stage /\ row' = row /\ req' = req
      BY <1>1 DEF stones, store
  <2>2. \A d \in Clients : /\ InHold(d)' => InHold(d) /\ req'[d] = req[d]
                           /\ InConsume(d)' => InConsume(d) /\ req'[d] = req[d]
      BY <2>1 DEF InHold, InConsume
  <2>3. \A h \in Holds : row'[h] = row[h]
      BY <2>1
  <2> QED
      BY <2>1, <2>2, <2>3, StoreKeepsHolds
<1> QED
    BY <1>1, StoreStepKeepsHolds, StageStepKeepsHolds, QuietStepKeepsHolds DEF Next

LEMMA HoldInvInit == ASSUME Init PROVE HoldInv
<1>1. RowInv
    BY RowInvInit
<1>2. \A c \in Clients : ~Busy(c) /\ ~InHold(c) /\ ~InConsume(c)
    BY DEF Init, Busy, InHold, InConsume, Idle
<1>3. \A h \in Holds : hold[h] = NoHold /\ draft[h] = NoDraft /\ ~Full(h)
    BY DEF Init, Full, FullHold, NoHold
<1>4. \A h \in Holds : HoldGood(h) /\ HoldOwned(h) /\ WishesOf(h) = {}
    BY <1>3 DEF HoldGood, HoldOwned, WishesOf, NoHold, NoDraft, DraftValues
<1>5. \A t \in Tickets : TicketGood(t)
    BY DEF Init, TicketGood, Phases
<1>6. \A w \in Wishes : wish[w] \in [state : WishStates, ticket : SUBSET Tickets]
    BY DEF Init, WishStates
<1>7. StageOK
    BY <1>4, <1>5, <1>6 DEF Init, StageOK
<1> QED
    BY <1>2, <1>7 DEF HoldInv

(* As long as the office leaves the order alone, both sides of every        *)
(* reservation agree to its end: any number of tickets, holds, requests     *)
(* and clients, corrections of the store's rows included.                   *)
THEOREM HoldsStayBacked == Office = FALSE => (Spec => []HoldsBacked)
<1> SUFFICES ASSUME Office = FALSE PROVE Spec => []HoldsBacked
    OBVIOUS
<1>1. Init => RowInv /\ HoldInv
    BY RowInvInit, HoldInvInit
<1>2. RowInv /\ HoldInv /\ [Next]_stones => (RowInv /\ HoldInv)'
    BY RowInvNext, HoldInvNext
<1>3. HoldInv => HoldsBacked
    BY HoldInvImplies
<1> QED
    BY <1>1, <1>2, <1>3, PTL DEF Spec

-----------------------------------------------------------------------------
(* Types, whatever the office does.  A hold takes its row of the store only *)
(* when it is consumed.                                                    *)
Placed(h) ==
    /\ Full(h) \/ hold[h] \in {NoHold, Deleted}
    /\ draft[h] \in DraftValues /\ row[h] \in RowValues
    /\ hold[h] = NoHold => draft[h] = NoDraft
    /\ Full(h) => draft[h] # NoDraft
    /\ hold[h] = NoHold \/ hold[h].state = "HELD" => row[h] = NoRow

StageTyped ==
    /\ hold = [h \in Holds |-> hold[h]] /\ draft = [h \in Holds |-> draft[h]]
    /\ ticket \in [Tickets -> [phase : Phases, worked : BOOLEAN]]
    /\ wish \in [Wishes -> [state : WishStates, ticket : SUBSET Tickets]]
    /\ \A h \in Holds : Placed(h)

(* What a confirmation under way will take: holds that are still held.     *)
Taking(f) == \A h \in DOMAIN f :
    /\ h \in Holds /\ Full(h) /\ hold[h].state = "HELD"
    /\ f[h] \in RowValues /\ f[h].kind = "AUTO_OUT" /\ f[h].mat = draft[h].mat

PlaceInv ==
    /\ opening \in [Materials -> Nat] /\ ledger \in [Materials -> Int]
    /\ row = [r \in AllRows |-> row[r]]
    /\ StageTyped
    /\ \A c, d \in Clients : Busy(c) /\ Busy(d) => c = d
    /\ \A c \in Clients : /\ RequestOK(req[c])
                          /\ InHold(c) => hold[req[c].hold] = NoHold
                          /\ InConsume(c) => Taking(req[c].rows)

LEMMA PlaceInvIsType == ASSUME RowInv, PlaceInv PROVE StoneTypeOK
<1>1. \A h \in Holds : hold[h] \in HoldValues /\ draft[h] \in DraftValues /\ row[h] \in RowValues
    BY DEF PlaceInv, StageTyped, Placed, Full, FullHold, HoldValues
<1>2. \A r \in Rows : row[r] \in RowValues
    BY DEF RowInv, RowOK, FullRow, RowValues
<1> QED
    BY <1>1, <1>2 DEF PlaceInv, StageTyped, StoneTypeOK, RowInv, AllRows

LEMMA PlacedStill ==
    ASSUME NEW h, Placed(h), hold'[h] = hold[h], draft'[h] = draft[h], row'[h] = row[h]
    PROVE  Placed(h)'
BY DEF Placed, Full

LEMMA PlacedMoves ==
    ASSUME NEW h, Placed(h), row'[h] = row[h], Full(h)', draft'[h] \in DraftValues, draft'[h] # NoDraft,
           hold'[h].state = "HELD" => hold[h].state = "HELD"
    PROVE  Placed(h)'
BY DEF Placed, Full, FullHold, NoHold

(* A draft that is closed is still one.                                    *)
LEMMA DraftCloses ==
    ASSUME NEW h, draft[h] \in DraftValues, draft[h] # NoDraft, NEW s \in {"DRAFT", "POSTED", "VOID"},
           draft'[h] = [draft[h] EXCEPT !.state = s]
    PROVE  draft'[h] \in DraftValues /\ draft'[h] # NoDraft
BY DEF DraftValues, NoDraft

LEMMA StageTypedQuiet ==
    ASSUME RowInv, PlaceInv, OrderFree, req' = req, UNCHANGED store, StageTyped'
    PROVE  PlaceInv'
<1>1. \A c \in Clients : ~InHold(c)' /\ ~InConsume(c)'
    BY DEF OrderFree, InHold, InConsume
<1>2. opening' = opening /\ ledger' = ledger /\ row' = row
    BY DEF store
<1>3. \A c \in Clients : RequestOK(req[c])'
    BY DEF PlaceInv
<1> QED
    BY <1>1, <1>2, <1>3 DEF PlaceInv, Busy

LEMMA StageTypedSave ==
    ASSUME RowInv, PlaceInv, NEW c \in Clients, Busy(c), req' = [req EXCEPT ![c] = Idle], StageTyped',
           opening' \in [Materials -> Nat], ledger' \in [Materials -> Int], row' = [r \in AllRows |-> row'[r]]
    PROVE  PlaceInv'
<1>1. req'[c] = Idle /\ \A d \in Clients : d # c => req'[d] = req[d]
    BY DEF RowInv
<1>2. \A d \in Clients : ~Busy(d)'
    BY <1>1 DEF PlaceInv, Busy, InHold, InConsume, Idle
<1>3. \A d \in Clients : RequestOK(req[d])'
    BY <1>1 DEF PlaceInv, RequestOK
<1> QED
    BY <1>2, <1>3 DEF PlaceInv, Busy

LEMMA TicketTyped ==
    ASSUME StageTyped, NEW t \in Tickets, NEW p \in Phases, SetPhase(t, p)
    PROVE  ticket' \in [Tickets -> [phase : Phases, worked : BOOLEAN]]
BY DEF StageTyped, SetPhase

(* Only the tickets change.                                                *)
LEMMA TicketsTyped ==
    ASSUME StageTyped, ticket' \in [Tickets -> [phase : Phases, worked : BOOLEAN]],
           UNCHANGED <<hold, draft, wish, row>>
    PROVE  StageTyped'
<1>1. \A h \in Holds : Placed(h)'
    BY PlacedStill DEF StageTyped
<1> QED
    BY <1>1 DEF StageTyped

LEMMA PhasesTyped ==
    ASSUME StageTyped, Unclaim \/ SetOutcome \/ ChangeStatus
    PROVE  StageTyped'
<1>0. UNCHANGED <<hold, draft, wish, row>>
    BY DEF Unclaim, SetOutcome, ChangeStatus, store
<1>1. CASE Unclaim \/ SetOutcome
  <2>1. PICK t \in Tickets, p \in {"waiting", "closed"} : SetPhase(t, p)
      BY <1>1 DEF Unclaim, SetOutcome
  <2> QED
      BY <2>1, <1>0, TicketTyped, TicketsTyped DEF Phases
<1>2. CASE ChangeStatus
  <2>1. PICK ts : ticket' = [t \in Tickets |-> IF t \in ts THEN [ticket[t] EXCEPT !.phase = "idle"] ELSE ticket[t]]
      BY <1>2 DEF ChangeStatus
  <2>2. \A t \in Tickets : ticket[t] \in [phase : Phases, worked : BOOLEAN]
      BY DEF StageTyped
  <2>3. \A t \in Tickets : ticket'[t] \in [phase : Phases, worked : BOOLEAN]
      BY <2>1, <2>2 DEF Phases
  <2>4. ticket' \in [Tickets -> [phase : Phases, worked : BOOLEAN]]
      BY <2>1, <2>3
  <2> QED
      BY <2>4, <1>0, TicketsTyped
<1> QED
    BY <1>1, <1>2

LEMMA CancelTyped ==
    ASSUME StageTyped, CancelPending
    PROVE  StageTyped'
<1>1. PICK t \in Tickets : SetPhase(t, "idle") /\ ReleasePendingHolds(t) /\ wish' = wish /\ row' = row
    BY DEF CancelPending, store
<1>2. ticket' \in [Tickets -> [phase : Phases, worked : BOOLEAN]]
    BY <1>1, TicketTyped DEF Phases
<1>3. hold' = [h \in Holds |-> hold'[h]] /\ draft' = [h \in Holds |-> draft'[h]]
      /\ \A h \in Holds :
             /\ hold'[h] = IF h \in PendingHolds(t) THEN [hold[h] EXCEPT !.state = "RELEASED"] ELSE hold[h]
             /\ draft'[h] = IF h \in PendingHolds(t) /\ Open(h) THEN [draft[h] EXCEPT !.state = "VOID"] ELSE draft[h]
    BY <1>1 DEF ReleasePendingHolds, ReleasedIn, Voided
<1>4. ASSUME NEW h \in Holds PROVE Placed(h)'
  <2>1. Placed(h)
      BY DEF StageTyped
  <2>2. CASE h \in PendingHolds(t)
    <3>1. Full(h) /\ draft[h] \in DraftValues /\ draft[h] # NoDraft
        BY <2>1, <2>2 DEF PendingHolds, HoldsOf, Placed, NoHold, Deleted
    <3>2. Full(h)' /\ hold'[h].state = "RELEASED"
        BY <1>3, <2>2, <3>1, StateSet
    <3>3. draft'[h] \in DraftValues /\ draft'[h] # NoDraft
        BY <1>3, <2>2, <3>1, DraftCloses
    <3> QED
        BY <1>1, <2>1, <3>2, <3>3, PlacedMoves
  <2>3. CASE h \notin PendingHolds(t)
      BY <1>1, <1>3, <2>1, <2>3, PlacedStill
  <2> QED
      BY <2>2, <2>3
<1> QED
    BY <1>1, <1>2, <1>3, <1>4 DEF StageTyped

LEMMA AcceptTyped ==
    ASSUME StageTyped, Accept
    PROVE  StageTyped'
<1>1. PICK t \in Tickets :
          /\ SetPhase(t, "working") /\ draft' = draft /\ wish' = wish /\ row' = row
          /\ hold' = [h \in Holds |-> IF h \in PendingHolds(t) THEN [hold[h] EXCEPT !.entry = TRUE] ELSE hold[h]]
    BY DEF Accept, store
<1>2. ticket' \in [Tickets -> [phase : Phases, worked : BOOLEAN]]
    BY <1>1, TicketTyped DEF Phases
<1>4. ASSUME NEW h \in Holds PROVE Placed(h)'
  <2>1. Placed(h)
      BY DEF StageTyped
  <2>2. CASE h \in PendingHolds(t)
    <3>1. Full(h) /\ draft[h] \in DraftValues /\ draft[h] # NoDraft
        BY <2>1, <2>2 DEF PendingHolds, HoldsOf, Placed, NoHold, Deleted
    <3>2. Full(h)' /\ hold'[h].state = hold[h].state
        BY <1>1, <2>2, <3>1 DEF Full, FullHold
    <3> QED
        BY <1>1, <2>1, <3>1, <3>2, PlacedMoves
  <2>3. CASE h \notin PendingHolds(t)
      BY <1>1, <2>1, <2>3, PlacedStill
  <2> QED
      BY <2>2, <2>3
<1> QED
    BY <1>1, <1>2, <1>4 DEF StageTyped

LEMMA DeleteTyped ==
    ASSUME StageTyped, NEW ts, DeleteTickets(ts), draft' = [h \in Holds |-> draft'[h]],
           \A h \in Holds : draft'[h] = draft[h] \/ (draft[h] # NoDraft /\ draft'[h] = [draft[h] EXCEPT !.state = "VOID"])
    PROVE  StageTyped'
<1>1. /\ hold' = [h \in Holds |-> IF "ticket" \in DOMAIN hold[h] /\ hold[h].ticket \in ts THEN Deleted ELSE hold[h]]
      /\ ticket' = [t \in Tickets |-> IF t \in ts THEN [ticket[t] EXCEPT !.phase = "deleted"] ELSE ticket[t]]
      /\ wish' = wish /\ row' = row
    BY DEF DeleteTickets, store
<1>2. ticket' \in [Tickets -> [phase : Phases, worked : BOOLEAN]]
    BY <1>1 DEF StageTyped, Phases
<1>3. ASSUME NEW h \in Holds PROVE Placed(h)'
  <2>1. Placed(h) /\ draft[h] \in DraftValues
      BY DEF StageTyped, Placed
  <2>2. draft'[h] \in DraftValues /\ (draft[h] # NoDraft => draft'[h] # NoDraft)
      BY <2>1, DraftCloses
  <2>3. CASE hold'[h] = Deleted
      BY <1>1, <2>1, <2>2, <2>3 DEF Placed, Full, FullHold, Deleted, NoHold
  <2>4. CASE hold'[h] = hold[h]
    <3>1. CASE hold[h] = NoHold
      <4>1. draft'[h] = draft[h]
          BY <2>1, <3>1 DEF Placed
      <4> QED
          BY <1>1, <2>1, <2>4, <4>1, PlacedStill
    <3>2. CASE hold[h] # NoHold
        BY <1>1, <2>1, <2>2, <2>4, <3>2 DEF Placed, Full
    <3> QED
        BY <3>1, <3>2
  <2> QED
      BY <1>1, <2>3, <2>4
<1> QED
    BY <1>1, <1>2, <1>3 DEF StageTyped

LEMMA RemoveTyped ==
    ASSUME StageTyped, Remove \/ ClearSplit \/ RemoveOrder
    PROVE  StageTyped'
<1>1. CASE Remove
  <2>1. PICK t \in Tickets : draft' = Voided(PendingHolds(t)) /\ DeleteTickets({t})
      BY <1>1 DEF Remove
  <2>2. draft' = [h \in Holds |-> draft'[h]]
      BY <2>1 DEF Voided
  <2>3. \A h \in Holds : draft'[h] = draft[h] \/ (draft[h] # NoDraft /\ draft'[h] = [draft[h] EXCEPT !.state = "VOID"])
      BY <2>1 DEF Voided, Open, NoDraft
  <2> QED
      BY <2>1, <2>2, <2>3, DeleteTyped
<1>2. CASE ClearSplit \/ RemoveOrder
  <2>1. draft' = draft /\ DeleteTickets(Live)
      BY <1>2 DEF ClearSplit, RemoveOrder
  <2>2. draft' = [h \in Holds |-> draft'[h]]
      BY <2>1 DEF StageTyped
  <2> QED
      BY <2>1, <2>2, DeleteTyped
<1> QED
    BY <1>1, <1>2

LEMMA WishTyped ==
    ASSUME StageTyped, CreateWish \/ EndWish
    PROVE  StageTyped'
<1>0. hold' = hold /\ draft' = draft /\ ticket' = ticket /\ row' = row
    BY DEF CreateWish, EndWish, store
<1>1. wish' \in [Wishes -> [state : WishStates, ticket : SUBSET Tickets]]
    BY DEF CreateWish, EndWish, StageTyped, WishStates
<1>2. \A h \in Holds : Placed(h)'
    BY <1>0, PlacedStill DEF StageTyped
<1> QED
    BY <1>0, <1>1, <1>2 DEF StageTyped

LEMMA EarlyReturnTyped ==
    ASSUME StageTyped, ReturnStoneEarly
    PROVE  StageTyped'
<1>t. PICK t \in Tickets, k \in Holds : /\ k \in EntryHolds(t) /\ UNCHANGED <<store, ticket, wish>>
          /\ \E back \in Bag(k) :
                 LET kept == hold[k].qty - back
                     end == kept = 0
                 IN  /\ hold' = [hold EXCEPT ![k].qty = kept, ![k].state = IF end THEN "RELEASED" ELSE @]
                     /\ draft' = [draft EXCEPT ![k].qty = kept, ![k].state = IF end THEN "VOID" ELSE @]
    BY DEF ReturnStoneEarly
<1>1. PICK back \in Bag(k) :
          LET kept == hold[k].qty - back
              end == kept = 0
          IN  /\ hold' = [hold EXCEPT ![k].qty = kept, ![k].state = IF end THEN "RELEASED" ELSE @]
              /\ draft' = [draft EXCEPT ![k].qty = kept, ![k].state = IF end THEN "VOID" ELSE @]
              /\ ticket' = ticket /\ wish' = wish /\ row' = row
    BY <1>t DEF store
<1> DEFINE kept == hold[k].qty - back
           v == hold[k]
           d == draft[k]
<1>2. Placed(k) /\ v.state = "HELD"
    BY <1>t DEF EntryHolds, HoldsOf, StageTyped
<1>3. v \in FullHold /\ d \in DraftValues /\ d # NoDraft
    BY <1>2 DEF Placed, Full, NoHold, Deleted
<1>4. kept \in Nat
    BY <1>3 DEF Bag, FullHold
<1>5. hold' = [h \in Holds |-> hold'[h]] /\ draft' = [h \in Holds |-> draft'[h]]
      /\ \A h \in Holds : h # k => hold'[h] = hold[h] /\ draft'[h] = draft[h]
    BY <1>1 DEF StageTyped
<1>6. hold'[k] = [v EXCEPT !.qty = kept, !.state = IF kept = 0 THEN "RELEASED" ELSE @]
      /\ draft'[k] = [d EXCEPT !.qty = kept, !.state = IF kept = 0 THEN "VOID" ELSE @]
    BY <1>1 DEF StageTyped
<1> HIDE DEF v, d, kept
<1>7. hold'[k] \in FullHold
    BY <1>2, <1>3, <1>4, <1>6 DEF FullHold
<1>8. draft'[k] \in DraftValues /\ draft'[k] # NoDraft
    BY <1>3, <1>4, <1>6 DEF DraftValues, NoDraft
<1>9. Placed(k)'
    BY <1>1, <1>2, <1>7, <1>8, PlacedMoves DEF Full, v
<1>10. \A h \in Holds : Placed(h)'
    BY <1>1, <1>5, <1>9, PlacedStill DEF StageTyped
<1> QED
    BY <1>1, <1>5, <1>10 DEF StageTyped

LEMMA ReturnTyped ==
    ASSUME StageTyped, ReturnStage
    PROVE  StageTyped'
<1>t. PICK t \in Tickets : /\ SetPhase(t, "returned") /\ UNCHANGED <<store, draft, wish>>
          /\ \E left \in [EntryHolds(t) -> 0..MaxQty] :
                 hold' = [h \in Holds |-> IF h \in EntryHolds(t) THEN [hold[h] EXCEPT !.left = left[h]] ELSE hold[h]]
    BY DEF ReturnStage
<1>1. PICK left \in [EntryHolds(t) -> 0..MaxQty] :
          hold' = [h \in Holds |-> IF h \in EntryHolds(t) THEN [hold[h] EXCEPT !.left = left[h]] ELSE hold[h]]
    BY <1>t
<1>2. ticket' \in [Tickets -> [phase : Phases, worked : BOOLEAN]]
    BY <1>t, TicketTyped DEF Phases
<1>3. draft' = draft /\ wish' = wish /\ row' = row
    BY <1>t DEF store
<1>4. ASSUME NEW h \in Holds PROVE Placed(h)'
  <2>1. Placed(h)
      BY DEF StageTyped
  <2>2. CASE h \in EntryHolds(t)
    <3>1. Full(h) /\ draft[h] \in DraftValues /\ draft[h] # NoDraft
        BY <2>1, <2>2 DEF EntryHolds, HoldsOf, Placed, NoHold, Deleted
    <3>2. left[h] \in Nat /\ hold'[h] = [hold[h] EXCEPT !.left = left[h]]
        BY <1>1, <2>2, QtyAssumption
    <3>3. Full(h)' /\ hold'[h].state = hold[h].state
        BY <3>1, <3>2 DEF Full, FullHold
    <3> QED
        BY <1>3, <2>1, <3>1, <3>3, PlacedMoves
  <2>3. CASE h \notin EntryHolds(t)
      BY <1>1, <1>3, <2>1, <2>3, PlacedStill
  <2> QED
      BY <2>2, <2>3
<1> QED
    BY <1>1, <1>2, <1>3, <1>4 DEF StageTyped

LEMMA HoldSavedTyped ==
    ASSUME StageTyped, NEW k \in Holds, hold[k] = NoHold, NEW r, r \in [op : {"hold"}, hold : Holds, mat : Stones,
               qty : Qty, ticket : Tickets, wish : SUBSET Wishes], r.hold = k, NEW e \in BOOLEAN,
           hold'[k] = NewHold(r, e), draft'[k] = NewDraft(r), row'[k] = row[k]
    PROVE  Placed(k)'
<1>1. Placed(k)
    BY DEF StageTyped
<1>2. Full(k)' /\ draft'[k] \in DraftValues /\ draft'[k] # NoDraft
    BY QtyAssumption DEF NewHold, NewDraft, Full, FullHold, DraftValues, NoDraft, Qty
<1> QED
    BY <1>1, <1>2 DEF Placed, Full, FullHold, NoHold

LEMMA AssignTyped ==
    ASSUME RowInv, PlaceInv, NEW c \in Clients, AssignSave(c)
    PROVE  PlaceInv'
<1>r. PICK r : r = req[c]
    OBVIOUS
<1>k. PICK k, hs : k = r.hold /\ hs = PendingHolds(r.ticket)
    OBVIOUS
<1>1. /\ r.op = "hold"
      /\ hold' = [ReleasedIn(hs, hold) EXCEPT ![k] = NewHold(r, FALSE)]
      /\ draft' = [Voided(hs) EXCEPT ![k] = NewDraft(r)]
      /\ SetPhase(r.ticket, "assigned")
      /\ req' = [req EXCEPT ![c] = Idle] /\ UNCHANGED <<opening, ledger, row, wish>>
    BY <1>r, <1>k DEF AssignSave, store
<1>2. InHold(c) /\ hold[k] = NoHold /\ StageTyped
      /\ r \in [op : {"hold"}, hold : Holds, mat : Stones, qty : Qty, ticket : Tickets, wish : SUBSET Wishes]
    BY <1>1, <1>r, <1>k DEF PlaceInv, InHold, RequestOK, Idle
<1>3. k \in Holds /\ r.ticket \in Tickets
    BY <1>2, <1>k
<1>4. ticket' \in [Tickets -> [phase : Phases, worked : BOOLEAN]]
    BY <1>1, <1>2, <1>3, TicketTyped DEF Phases
<1>5. hold' = [h \in Holds |-> hold'[h]] /\ draft' = [h \in Holds |-> draft'[h]]
      /\ hold'[k] = NewHold(r, FALSE) /\ draft'[k] = NewDraft(r)
      /\ \A h \in Holds : h # k =>
             /\ hold'[h] = IF h \in hs THEN [hold[h] EXCEPT !.state = "RELEASED"] ELSE hold[h]
             /\ draft'[h] = IF h \in hs /\ Open(h) THEN [draft[h] EXCEPT !.state = "VOID"] ELSE draft[h]
    BY <1>1, <1>3 DEF ReleasedIn, Voided
<1>6. Placed(k)'
    BY <1>k, <1>1, <1>2, <1>3, <1>5, HoldSavedTyped
<1>7. ASSUME NEW h \in Holds, h # k PROVE Placed(h)'
  <2>1. Placed(h)
      BY <1>2 DEF StageTyped
  <2>2. CASE h \in hs
    <3>1. Full(h) /\ draft[h] \in DraftValues /\ draft[h] # NoDraft
        BY <1>k, <2>1, <2>2 DEF PendingHolds, HoldsOf, Placed, NoHold, Deleted
    <3>2. Full(h)' /\ hold'[h].state = "RELEASED"
        BY <1>5, <1>7, <2>2, <3>1, StateSet
    <3>3. draft'[h] \in DraftValues /\ draft'[h] # NoDraft
        BY <1>5, <1>7, <2>2, <3>1, DraftCloses
    <3> QED
        BY <1>1, <2>1, <3>2, <3>3, PlacedMoves
  <2>3. CASE h \notin hs
      BY <1>1, <1>5, <1>7, <2>1, <2>3, PlacedStill
  <2> QED
      BY <2>2, <2>3
<1>8. StageTyped'
    BY <1>1, <1>2, <1>4, <1>5, <1>6, <1>7 DEF StageTyped
<1> QED
    BY <1>1, <1>2, <1>8, StageTypedSave DEF Busy, PlaceInv

LEMMA IssueTyped ==
    ASSUME RowInv, PlaceInv, NEW c \in Clients, IssueWishSave(c)
    PROVE  PlaceInv'
<1>r. PICK r : r = req[c]
    OBVIOUS
<1>k. PICK k : k = r.hold
    OBVIOUS
<1>1. /\ r.op = "hold"
      /\ hold' = [hold EXCEPT ![k] = NewHold(r, TRUE)]
      /\ draft' = [draft EXCEPT ![k] = NewDraft(r)]
      /\ wish' = [w \in Wishes |-> IF w \in r.wish THEN [wish[w] EXCEPT !.state = "ISSUED"] ELSE wish[w]]
      /\ req' = [req EXCEPT ![c] = Idle] /\ UNCHANGED <<opening, ledger, row, ticket>>
    BY <1>r, <1>k DEF IssueWishSave, store
<1>2. InHold(c) /\ hold[k] = NoHold /\ StageTyped
      /\ r \in [op : {"hold"}, hold : Holds, mat : Stones, qty : Qty, ticket : Tickets, wish : SUBSET Wishes]
    BY <1>1, <1>r, <1>k DEF PlaceInv, InHold, RequestOK, Idle
<1>3. k \in Holds
    BY <1>2, <1>k
<1>4. wish' \in [Wishes -> [state : WishStates, ticket : SUBSET Tickets]]
    BY <1>1, <1>2 DEF StageTyped, WishStates
<1>5. hold' = [h \in Holds |-> hold'[h]] /\ draft' = [h \in Holds |-> draft'[h]]
      /\ hold'[k] = NewHold(r, TRUE) /\ draft'[k] = NewDraft(r)
      /\ \A h \in Holds : h # k => hold'[h] = hold[h] /\ draft'[h] = draft[h]
    BY <1>1, <1>2, <1>3 DEF StageTyped
<1>6. Placed(k)'
    BY <1>k, <1>1, <1>2, <1>3, <1>5, HoldSavedTyped
<1>7. \A h \in Holds : Placed(h)'
    BY <1>1, <1>2, <1>5, <1>6, PlacedStill DEF StageTyped
<1>8. StageTyped'
    BY <1>1, <1>2, <1>4, <1>5, <1>7 DEF StageTyped
<1> QED
    BY <1>1, <1>2, <1>8, StageTypedSave DEF Busy, PlaceInv

-----------------------------------------------------------------------------
(* Sums over rows and holds.                                               *)
LEMMA RowsAreFinite == IsFiniteSet(AllRows) /\ IsFiniteSet(Holds)
BY FiniteRows, FS_Union DEF AllRows

LEMMA SignedIsInt ==
    ASSUME NEW v \in RowValues, NEW m
    PROVE  Signed(v, m) \in Int
BY DEF Signed, RowValues, NoRow, Gone, InKinds, OutKinds

(* The net of a material is a number whatever the rows are.                *)
LEMMA NetIsInt ==
    ASSUME NEW open, NEW rows, NEW m, open[m] \in Int, \A r \in AllRows : rows[r] \in RowValues
    PROVE  NetOf(open, rows, m) \in Int
<1> DEFINE f == [r \in AllRows |-> Signed(rows[r], m)]
<1>1. \A r \in AllRows : f[r] \in Int
    BY SignedIsInt
<1> HIDE DEF f
<1>2. SumFunctionOnSet(f, AllRows) \in Int
    BY <1>1, RowsAreFinite, SumIsInt
<1> QED
    BY <1>2 DEF NetOf, f

LEMMA RowsTyped ==
    ASSUME RowInv, PlaceInv
    PROVE  \A r \in AllRows : row[r] \in RowValues
BY PlaceInvIsType DEF StoneTypeOK

(* What a transaction will leave.                                          *)
LEMMA AfterTyped ==
    ASSUME RowInv, PlaceInv, NEW c \in Clients, InTx(c)
    PROVE  /\ OpeningAfter(c) \in [Materials -> Nat]
           /\ \A r \in AllRows : RowsAfter(c)[r] \in RowValues
           /\ \A m \in Materials : NetOf(OpeningAfter(c), RowsAfter(c), m) \in Int
<1>1. /\ \A x \in DOMAIN req[c].rows : req[c].rows[x] \in RowValues
      /\ \A m \in DOMAIN req[c].opening : req[c].opening[m] \in Nat
    BY DEF PlaceInv, RequestOK, InTx, Idle
<1>2. OpeningAfter(c) \in [Materials -> Nat]
    BY <1>1 DEF PlaceInv, OpeningAfter
<1>3. \A r \in AllRows : RowsAfter(c)[r] \in RowValues
    BY <1>1, RowsTyped DEF RowsAfter, Written
<1>4. ASSUME NEW m \in Materials PROVE NetOf(OpeningAfter(c), RowsAfter(c), m) \in Int
  <2>1. OpeningAfter(c)[m] \in Int
      BY <1>2
  <2> QED
      BY <2>1, <1>3, NetIsInt
<1> QED
    BY <1>2, <1>3, <1>4

(* A save of the store keeps the ledger a number.                          *)
LEMMA StoreSavedTyped ==
    ASSUME RowInv, PlaceInv, NEW c \in Clients, WriteStore(c)
    PROVE  /\ opening' \in [Materials -> Nat] /\ ledger' \in [Materials -> Int]
           /\ row' = [r \in AllRows |-> row'[r]]
<1>1. opening' \in [Materials -> Nat]
    BY AfterTyped DEF WriteStore
<1>2. \A m \in Materials : req[c].sum[m] \in Int
    BY DEF PlaceInv, RequestOK, WriteStore, InTx, Idle
<1>3. ledger' \in [Materials -> Int]
    BY <1>2 DEF WriteStore, PlaceInv
<1>4. row' = [r \in AllRows |-> row'[r]]
    BY DEF WriteStore, RowsAfter, Written
<1> QED
    BY <1>1, <1>3, <1>4

LEMMA ConfirmTyped ==
    ASSUME RowInv, PlaceInv, NEW c \in Clients, ConfirmSave(c)
    PROVE  PlaceInv'
<1> DEFINE f == req[c].rows
<1>1. InConsume(c) /\ Taking(f) /\ DOMAIN f \subseteq Holds /\ req[c].tickets \subseteq Tickets
    BY DEF ConfirmSave, RowInv, PlaceInv, InHold, InStock, InConsume, Idle, RequestOK
<1>2. PICK t \in Tickets :
          /\ SetPhase(t, "idle") /\ wish' = wish /\ row' = RowsAfter(c) /\ req' = [req EXCEPT ![c] = Idle]
          /\ draft' = [h \in Holds |->
                 IF h \in DOMAIN f THEN [draft[h] EXCEPT !.state = "POSTED"]
                 ELSE IF h \in EntryHolds(t) THEN [draft[h] EXCEPT !.state = "VOID"] ELSE draft[h]]
          /\ hold' = [h \in Holds |->
                 IF h \in DOMAIN f THEN [hold[h] EXCEPT !.state = "CONSUMED"]
                 ELSE IF h \in EntryHolds(t) THEN [hold[h] EXCEPT !.state = "RELEASED"] ELSE hold[h]]
    BY <1>1 DEF ConfirmSave, WriteStore
<1>3. \A h \in Holds : row'[h] = IF h \in DOMAIN f THEN f[h] ELSE row[h]
    BY <1>2 DEF RowsAfter, Written, AllRows
<1> HIDE DEF f
<1>4. StageTyped
    BY DEF PlaceInv
<1>5. ticket' \in [Tickets -> [phase : Phases, worked : BOOLEAN]]
    BY <1>2, <1>4, TicketTyped DEF Phases
<1>6. ASSUME NEW h \in Holds PROVE Placed(h)'
  <2>1. Placed(h)
      BY <1>4 DEF StageTyped
  <2>2. CASE h \in DOMAIN f
    <3>1. Full(h) /\ draft[h] \in DraftValues /\ draft[h] # NoDraft /\ f[h] \in RowValues
        BY <1>1, <2>1, <2>2 DEF Taking, Placed
    <3>2. Full(h)' /\ hold'[h].state = "CONSUMED"
        BY <1>2, <2>2, <3>1, StateSet
    <3>3. draft'[h] \in DraftValues /\ draft'[h] # NoDraft
        BY <1>2, <2>2, <3>1, DraftCloses
    <3> QED
        BY <1>3, <2>2, <3>1, <3>2, <3>3 DEF Placed, Full, FullHold, NoHold
  <2>3. CASE h \notin DOMAIN f /\ h \in EntryHolds(t)
    <3>1. Full(h) /\ draft[h] \in DraftValues /\ draft[h] # NoDraft
        BY <2>1, <2>3 DEF EntryHolds, HoldsOf, Placed, NoHold, Deleted
    <3>2. Full(h)' /\ hold'[h].state = "RELEASED"
        BY <1>2, <2>3, <3>1, StateSet
    <3>3. draft'[h] \in DraftValues /\ draft'[h] # NoDraft
        BY <1>2, <2>3, <3>1, DraftCloses
    <3> QED
        BY <1>3, <2>1, <2>3, <3>2, <3>3, PlacedMoves
  <2>4. CASE h \notin DOMAIN f /\ h \notin EntryHolds(t)
      BY <1>2, <1>3, <2>1, <2>4, PlacedStill
  <2> QED
      BY <2>2, <2>3, <2>4
<1>7. hold' = [h \in Holds |-> hold'[h]] /\ draft' = [h \in Holds |-> draft'[h]]
    BY <1>2
<1>8. StageTyped'
    BY <1>2, <1>4, <1>5, <1>6, <1>7 DEF StageTyped
<1>9. opening' \in [Materials -> Nat] /\ ledger' \in [Materials -> Int] /\ row' = [r \in AllRows |-> row'[r]]
    BY StoreSavedTyped DEF ConfirmSave
<1> QED
    BY <1>1, <1>2, <1>8, <1>9, StageTypedSave DEF Busy

(* A step of the store: production sees nothing of it.                     *)
LEMMA StoreKeepsPlaces ==
    ASSUME PlaceInv, UNCHANGED stage, \A h \in Holds : row'[h] = row[h], row' = [r \in AllRows |-> row'[r]],
           opening' \in [Materials -> Nat], ledger' \in [Materials -> Int],
           \A d \in Clients :
               /\ RequestOK(req'[d])
               /\ InHold(d)' => InHold(d) /\ req'[d] = req[d]
               /\ InConsume(d)' => InConsume(d) /\ req'[d].rows = req[d].rows
    PROVE  PlaceInv'
<1>1. hold' = hold /\ draft' = draft /\ ticket' = ticket /\ wish' = wish
    BY DEF stage
<1>2. \A h \in Holds : Placed(h)'
    BY <1>1, PlacedStill DEF PlaceInv, StageTyped
<1>3. StageTyped'
    BY <1>1, <1>2 DEF PlaceInv, StageTyped
<1>4. \A c, d \in Clients : Busy(c)' /\ Busy(d)' => c = d
    BY DEF PlaceInv, Busy
<1>5. \A d \in Clients : InHold(d)' => hold'[req'[d].hold] = NoHold
    BY <1>1 DEF PlaceInv
<1>6. \A d \in Clients : InConsume(d)' => Taking(req[d].rows)'
    BY <1>1 DEF PlaceInv, Taking, Full
<1>7. \A d \in Clients : RequestOK(req[d])'
    OBVIOUS
<1> QED
    BY <1>3, <1>4, <1>5, <1>6, <1>7 DEF PlaceInv

LEMMA StartsTyped ==
    ASSUME RowInv, PlaceInv, NEW c \in Clients, Starts(c), UNCHANGED stage, UNCHANGED store
    PROVE  PlaceInv'
<1>1. PICK f, g, locked :
          /\ GoodRows(f) /\ DOMAIN g \subseteq Materials /\ \A m \in DOMAIN g : g[m] \in Nat
          /\ locked \subseteq Materials /\ req' = [req EXCEPT ![c] = Tx("stock", f, g, locked, {})]
    BY DEF Starts
<1>2. PICK v : v = Tx("stock", f, g, locked, {})
    OBVIOUS
<1>3. v.op = "stock" /\ DOMAIN v = TxFields /\ v.rows = f /\ v.opening = g /\ v.locked = locked
      /\ v.summed = FALSE /\ v.sum = [m \in Materials |-> 0] /\ v.tickets = {}
    BY <1>2 DEF Tx, TxFields
<1>4. req'[c] = v /\ \A d \in Clients : d # c => req'[d] = req[d]
    BY <1>1, <1>2 DEF RowInv
<1>5. DOMAIN f \subseteq AllRows /\ \A x \in DOMAIN f : f[x] \in RowValues
    BY <1>1 DEF GoodRows, RowOK, FullRow, RowValues, AllRows
<1>6. v.sum \in [Materials -> Int]
    BY <1>3
<1>7. RequestOK(v)
    BY <1>1, <1>3, <1>5, <1>6 DEF RequestOK, TxFields
<1>8. \A d \in Clients : /\ RequestOK(req'[d])
                         /\ InHold(d)' => InHold(d) /\ req'[d] = req[d]
                         /\ InConsume(d)' => InConsume(d) /\ req'[d].rows = req[d].rows
    BY <1>3, <1>4, <1>7 DEF PlaceInv, InHold, InConsume
<1>9. opening' = opening /\ ledger' = ledger /\ row' = row
    BY DEF store
<1>10. /\ opening' \in [Materials -> Nat] /\ ledger' \in [Materials -> Int]
       /\ row' = [r \in AllRows |-> row'[r]] /\ \A h \in Holds : row'[h] = row[h]
    BY <1>9 DEF PlaceInv
<1> QED
    BY <1>8, <1>10, StoreKeepsPlaces

LEMMA AutoInboundTyped ==
    ASSUME RowInv, PlaceInv, NEW c \in Clients, CreateAutoInbound(c)
    PROVE  PlaceInv'
<1>1. PICK m \in Metals, q \in Qty, r \in Rows :
          /\ row' = [row EXCEPT ![r] = RowOf("AUTO_IN", m, q, {})] /\ ledger' = [ledger EXCEPT ![m] = @ + q]
          /\ opening' = opening /\ req' = req /\ UNCHANGED stage
    BY DEF CreateAutoInbound
<1>2. q \in Int
    BY DEF Qty
<1>3. ledger' \in [Materials -> Int] /\ opening' \in [Materials -> Nat]
    BY <1>1, <1>2 DEF PlaceInv, Materials
<1>4. row' = [x \in AllRows |-> row'[x]] /\ \A h \in Holds : row'[h] = row[h]
    BY <1>1, DisjointAssumption DEF PlaceInv
<1>5. \A d \in Clients : /\ RequestOK(req'[d])
                         /\ InHold(d)' => InHold(d) /\ req'[d] = req[d]
                         /\ InConsume(d)' => InConsume(d) /\ req'[d].rows = req[d].rows
    BY <1>1 DEF PlaceInv, InHold, InConsume
<1> QED
    BY <1>1, <1>3, <1>4, <1>5, StoreKeepsPlaces

LEMMA RecomputeTyped ==
    ASSUME RowInv, PlaceInv, NEW c \in Clients, Recompute(c)
    PROVE  PlaceInv'
<1>1. InTx(c) /\ UNCHANGED <<store, stage>>
    BY DEF Recompute
<1>2. PICK v : /\ req' = [req EXCEPT ![c] = v]
               /\ v = [req[c] EXCEPT !.summed = TRUE, !.locked = @ \cup Twice(c),
                           !.sum = [m \in Materials |-> NetOf(OpeningAfter(c), RowsAfter(c), m)]]
    BY DEF Recompute
<1>3. InStock(c) \/ InConsume(c)
    BY <1>1 DEF InTx, RowInv, InHold, Idle
<1>4. PICK s : s = [m \in Materials |-> NetOf(OpeningAfter(c), RowsAfter(c), m)]
    OBVIOUS
<1>5. s \in [Materials -> Int]
    BY <1>1, <1>4, AfterTyped
<1>6. /\ DOMAIN v = TxFields /\ v.op = req[c].op /\ v.rows = req[c].rows /\ v.tickets = req[c].tickets
      /\ v.opening = req[c].opening /\ v.summed = TRUE /\ v.locked = req[c].locked \cup Twice(c) /\ v.sum = s
    BY <1>2, <1>3, <1>4 DEF InStock, InConsume, TxFields
<1>7. req'[c] = v /\ \A d \in Clients : d # c => req'[d] = req[d]
    BY <1>2 DEF RowInv
<1>8. Twice(c) \subseteq Materials
    BY DEF Twice
<1>9. RequestOK(req[c]) /\ req[c] # Idle /\ req[c].op # "hold"
    BY <1>3 DEF PlaceInv, InStock, InConsume, Idle
<1>10. RequestOK(v)
  <2>1. /\ v.op \in {"stock", "consume"}
        /\ DOMAIN v.rows \subseteq AllRows /\ \A x \in DOMAIN v.rows : v.rows[x] \in RowValues
        /\ DOMAIN v.opening \subseteq Materials /\ \A m \in DOMAIN v.opening : v.opening[m] \in Nat
        /\ req[c].locked \subseteq Materials /\ v.tickets \subseteq Tickets
      BY <1>6, <1>9 DEF RequestOK
  <2> QED
      BY <2>1, <1>5, <1>6, <1>8 DEF RequestOK, TxFields
<1>11. \A d \in Clients : /\ RequestOK(req'[d])
                          /\ InHold(d)' => InHold(d) /\ req'[d] = req[d]
                          /\ InConsume(d)' => InConsume(d) /\ req'[d].rows = req[d].rows
  <2> SUFFICES ASSUME NEW d \in Clients
               PROVE  /\ RequestOK(req'[d])
                      /\ InHold(d)' => InHold(d) /\ req'[d] = req[d]
                      /\ InConsume(d)' => InConsume(d) /\ req'[d].rows = req[d].rows
      OBVIOUS
  <2>1. CASE d = c
      BY <2>1, <1>3, <1>6, <1>7, <1>10 DEF InHold, InConsume, InStock
  <2>2. CASE d # c
      BY <2>2, <1>7 DEF PlaceInv, InHold, InConsume
  <2> QED
      BY <2>1, <2>2
<1>12. opening' = opening /\ ledger' = ledger /\ row' = row
    BY <1>1 DEF store
<1>13. /\ opening' \in [Materials -> Nat] /\ ledger' \in [Materials -> Int]
       /\ row' = [r \in AllRows |-> row'[r]] /\ \A h \in Holds : row'[h] = row[h]
    BY <1>12 DEF PlaceInv
<1> QED
    BY <1>1, <1>11, <1>13, StoreKeepsPlaces

LEMMA EndTyped ==
    ASSUME RowInv, PlaceInv, NEW c \in Clients, Commit(c) \/ Fail(c)
    PROVE  PlaceInv'
<1>1. req' = [req EXCEPT ![c] = Idle] /\ UNCHANGED stage
    BY DEF Commit, Fail, WriteStore
<1>2. \A h \in Holds : row'[h] = row[h]
  <2>1. CASE Commit(c)
    <3>1. InStock(c) /\ row' = RowsAfter(c)
        BY <2>1 DEF Commit, WriteStore, RowInv, InHold, InConsume, Idle
    <3>2. DOMAIN req[c].rows \subseteq Rows
        BY <3>1 DEF RowInv, GoodRows
    <3> QED
        BY <3>1, <3>2, DisjointAssumption DEF RowsAfter, Written, AllRows
  <2>2. CASE Fail(c)
      BY <2>2 DEF Fail, store
  <2> QED
      BY <2>1, <2>2
<1>3. opening' \in [Materials -> Nat] /\ ledger' \in [Materials -> Int] /\ row' = [r \in AllRows |-> row'[r]]
  <2>1. CASE Commit(c)
      BY <2>1, StoreSavedTyped DEF Commit
  <2>2. CASE Fail(c)
      BY <2>2 DEF Fail, store, PlaceInv
  <2> QED
      BY <2>1, <2>2
<1>4. req'[c] = Idle /\ \A d \in Clients : d # c => req'[d] = req[d]
    BY <1>1 DEF RowInv
<1>5. \A d \in Clients : /\ RequestOK(req'[d])
                         /\ InHold(d)' => InHold(d) /\ req'[d] = req[d]
                         /\ InConsume(d)' => InConsume(d) /\ req'[d].rows = req[d].rows
    BY <1>4 DEF PlaceInv, InHold, InConsume, Idle, RequestOK
<1> QED
    BY <1>1, <1>2, <1>3, <1>5, StoreKeepsPlaces

(* Production begins a transaction while nobody else holds the order.      *)
LEMMA BusyBegins ==
    ASSUME RowInv, PlaceInv, OrderFree, NEW c \in Clients, NEW v, req' = [req EXCEPT ![c] = v],
           UNCHANGED <<store, stage>>, RequestOK(v), v.op = "hold" => hold[v.hold] = NoHold,
           v.op = "consume" => Taking(v.rows)
    PROVE  PlaceInv'
<1>1. req'[c] = v /\ \A d \in Clients : d # c => req'[d] = req[d]
    BY DEF RowInv
<1>2. \A d \in Clients : ~Busy(d)
    BY DEF OrderFree, Busy, InHold, InConsume
<1>3. \A d \in Clients : Busy(d)' => d = c
    BY <1>1, <1>2 DEF Busy, InHold, InConsume
<1>4. opening' = opening /\ ledger' = ledger /\ row' = row /\ hold' = hold /\ draft' = draft
      /\ ticket' = ticket /\ wish' = wish
    BY DEF store, stage
<1>5. StageTyped'
    BY <1>4 DEF PlaceInv, StageTyped, Placed, Full
<1>6. \A d \in Clients : RequestOK(req[d])'
    BY <1>1 DEF PlaceInv
<1>7. \A d \in Clients : (InHold(d)' => hold'[req'[d].hold] = NoHold)
    BY <1>1, <1>3, <1>4 DEF Busy, InHold
<1>8. \A d \in Clients : (InConsume(d)' => Taking(req[d].rows)')
    BY <1>1, <1>3, <1>4 DEF Busy, InConsume, Taking, Full
<1> QED
    BY <1>3, <1>4, <1>5, <1>6, <1>7, <1>8 DEF PlaceInv

LEMMA AskTyped ==
    ASSUME RowInv, PlaceInv, OrderFree, NEW c \in Clients, NEW t \in Tickets, NEW ws \in SUBSET Wishes,
           AskHold(c, t, ws)
    PROVE  PlaceInv'
<1>1. PICK h \in Holds, m \in Stones, q \in Qty :
          /\ hold[h] = NoHold
          /\ Begin(c, [op |-> "hold", hold |-> h, mat |-> m, qty |-> q, ticket |-> t, wish |-> ws])
    BY DEF AskHold
<1>2. PICK v : v = [op |-> "hold", hold |-> h, mat |-> m, qty |-> q, ticket |-> t, wish |-> ws]
    OBVIOUS
<1>3. RequestOK(v) /\ v.op = "hold" /\ v.hold = h
    BY <1>2 DEF RequestOK
<1>4. req' = [req EXCEPT ![c] = v] /\ UNCHANGED <<store, stage>>
    BY <1>1, <1>2 DEF Begin
<1> QED
    BY <1>1, <1>3, <1>4, BusyBegins

LEMMA ConsumeTyped ==
    ASSUME RowInv, PlaceInv, NEW c \in Clients, ConsumeStoneHolds(c)
    PROVE  PlaceInv'
<1>1. PICK t \in Tickets : OrderFree /\ StockTx(c, "consume",
           [h \in UsedHolds(t) |-> RowOf("AUTO_OUT", draft[h].mat, Used(h), {})], <<>>, {}, {t})
    BY DEF ConsumeStoneHolds
<1>2. PICK f : f = [h \in UsedHolds(t) |-> RowOf("AUTO_OUT", draft[h].mat, Used(h), {})]
    OBVIOUS
<1>3. PICK v : v = Tx("consume", f, <<>>, {}, {t})
    OBVIOUS
<1>4. req' = [req EXCEPT ![c] = v] /\ UNCHANGED <<store, stage>>
    BY <1>1, <1>2, <1>3 DEF StockTx, Begin, Tx
<1>5. v.op = "consume" /\ DOMAIN v = TxFields /\ v.rows = f /\ v.opening = <<>> /\ v.locked = {}
      /\ v.summed = FALSE /\ v.sum = [m \in Materials |-> 0] /\ v.tickets = {t}
    BY <1>3 DEF Tx, TxFields
<1>6. Taking(f)
  <2> SUFFICES ASSUME NEW h \in UsedHolds(t)
               PROVE  /\ h \in Holds /\ Full(h) /\ hold[h].state = "HELD"
                      /\ f[h] \in RowValues /\ f[h].kind = "AUTO_OUT" /\ f[h].mat = draft[h].mat
      BY <1>2 DEF Taking
  <2>1. h \in Holds /\ hold[h].state = "HELD" /\ Used(h) > 0
      BY DEF UsedHolds, EntryHolds, HoldsOf
  <2>p. Placed(h)
      BY <2>1 DEF PlaceInv, StageTyped
  <2>2. Full(h) /\ draft[h] \in DraftValues /\ draft[h] # NoDraft
      BY <2>1, <2>p DEF Placed, NoHold, Deleted
  <2>3. draft[h].mat \in Materials
      BY <2>2 DEF DraftValues, Materials
  <2>4. Used(h) \in Nat
      BY <2>1, <2>2 DEF Used, Full, FullHold
  <2>5. f[h] = RowOf("AUTO_OUT", draft[h].mat, Used(h), {})
      BY <1>2
  <2>6. f[h] \in RowValues /\ f[h].kind = "AUTO_OUT" /\ f[h].mat = draft[h].mat
      BY <2>3, <2>4, <2>5 DEF RowOf, RowValues, OutKinds
  <2> QED
      BY <2>1, <2>2, <2>6
<1>7. DOMAIN f \subseteq AllRows /\ \A x \in DOMAIN f : f[x] \in RowValues
    BY <1>6 DEF Taking, AllRows
<1>8. v.sum \in [Materials -> Int] /\ DOMAIN v.opening = {}
    BY <1>5
<1>9. RequestOK(v)
    BY <1>5, <1>7, <1>8 DEF RequestOK, TxFields
<1> QED
    BY <1>1, <1>4, <1>5, <1>6, <1>9, BusyBegins

LEMMA PlaceInvNext ==
    ASSUME RowInv, PlaceInv, [Next]_stones
    PROVE  PlaceInv'
<1>1. ASSUME NEW c \in Clients, StoreStep(c) PROVE PlaceInv'
  <2>1. CASE \/ CreateInbound(c) \/ CreateOutbound(c) \/ Transfer(c) \/ UpdateOutbound(c)
             \/ DeleteOutbound(c) \/ UpdateInbound(c) \/ DeleteInbound(c) \/ UpdateStock(c)
             \/ RevokeAutoInbounds(c) \/ IssueStock(c)
    <3>1. Starts(c)
        BY <2>1, MovementsStart
    <3>2. UNCHANGED store /\ UNCHANGED stage
        BY <2>1 DEF CreateInbound, CreateOutbound, Transfer, UpdateOutbound, DeleteOutbound, UpdateInbound,
                    DeleteInbound, UpdateStock, RevokeAutoInbounds, IssueStock, WriteRows, StockTx, Begin
    <3> QED
        BY <3>1, <3>2, StartsTyped
  <2> QED
      BY <1>1, <2>1, AutoInboundTyped, RecomputeTyped, EndTyped DEF StoreStep
<1>2. ASSUME NEW c \in Clients, StageStep(c) PROVE PlaceInv'
  <2>1. CASE Assign(c)
    <3>1. PICK t \in Tickets : OrderFree /\ AskHold(c, t, {})
        BY <2>1 DEF Assign
    <3> QED
        BY <3>1, AskTyped
  <2>2. CASE IssueWish(c)
    <3>1. PICK w \in Wishes : \E t \in wish[w].ticket : OrderFree /\ AskHold(c, t, {w})
        BY <2>2 DEF IssueWish
    <3>2. wish[w].ticket \subseteq Tickets
        BY DEF PlaceInv, StageTyped
    <3>3. PICK t \in Tickets : OrderFree /\ AskHold(c, t, {w})
        BY <3>1, <3>2
    <3> QED
        BY <3>3, AskTyped
  <2> QED
      BY <1>2, <2>1, <2>2, AssignTyped, IssueTyped, ConsumeTyped, ConfirmTyped DEF StageStep
<1>3. CASE \/ Unclaim \/ CancelPending \/ Accept \/ Remove \/ SetOutcome \/ ClearSplit \/ ChangeStatus
           \/ RemoveOrder \/ CreateWish \/ EndWish \/ ReturnStoneEarly \/ ReturnStage
  <2>1. OrderFree /\ req' = req /\ UNCHANGED store
      BY <1>3 DEF Unclaim, CancelPending, Accept, Remove, SetOutcome, ClearSplit, ChangeStatus, RemoveOrder,
                  CreateWish, EndWish, ReturnStoneEarly, ReturnStage, DeleteTickets
  <2>2. StageTyped
      BY DEF PlaceInv
  <2>3. StageTyped'
      BY <1>3, <2>2, PhasesTyped, CancelTyped, AcceptTyped, RemoveTyped, WishTyped, EarlyReturnTyped, ReturnTyped
  <2> QED
      BY <2>1, <2>3, StageTypedQuiet
<1>4. CASE UNCHANGED stones
  <2>1. UNCHANGED stage /\ opening' = opening /\ ledger' = ledger /\ row' = row /\ req' = req
      BY <1>4 DEF stones, store
  <2>2. \A d \in Clients : /\ RequestOK(req'[d])
                           /\ InHold(d)' => InHold(d) /\ req'[d] = req[d]
                           /\ InConsume(d)' => InConsume(d) /\ req'[d].rows = req[d].rows
      BY <2>1 DEF PlaceInv, InHold, InConsume
  <2>3. /\ opening' \in [Materials -> Nat] /\ ledger' \in [Materials -> Int]
        /\ row' = [r \in AllRows |-> row'[r]] /\ \A h \in Holds : row'[h] = row[h]
      BY <2>1 DEF PlaceInv
  <2> QED
      BY <2>1, <2>2, <2>3, StoreKeepsPlaces
<1> QED
    BY <1>1, <1>2, <1>3, <1>4 DEF Next

LEMMA PlaceInvInit == ASSUME Init PROVE PlaceInv
<1>1. opening \in [Materials -> Nat] /\ ledger \in [Materials -> Int] /\ row = [r \in AllRows |-> row[r]]
    BY QtyAssumption DEF Init
<1>2. \A h \in Holds : Placed(h)
    BY DEF Init, Placed, Full, FullHold, NoHold, NoDraft, DraftValues, RowValues, AllRows
<1>3. StageTyped
    BY <1>2 DEF Init, StageTyped, Phases, WishStates
<1>4. \A c \in Clients : ~Busy(c) /\ ~InHold(c) /\ ~InConsume(c) /\ RequestOK(req[c])
    BY DEF Init, Busy, InHold, InConsume, Idle, RequestOK
<1> QED
    BY <1>1, <1>3, <1>4 DEF PlaceInv

(* Type correctness of the store and of stone setting for every instance,  *)
(* office and corrections included: no returned, split or consumed         *)
(* reservation ever leaves a quantity below zero or half a record.         *)
THEOREM StoneTypeCorrect == Spec => []StoneTypeOK
<1>1. Init => RowInv /\ PlaceInv
    BY RowInvInit, PlaceInvInit
<1>2. RowInv /\ PlaceInv /\ [Next]_stones => (RowInv /\ PlaceInv)'
    BY RowInvNext, PlaceInvNext
<1>3. RowInv /\ PlaceInv => StoneTypeOK
    BY PlaceInvIsType
<1> QED
    BY <1>1, <1>2, <1>3, PTL DEF Spec

-----------------------------------------------------------------------------
(* The ledger.                                                             *)
LEMMA SignedElsewhere ==
    ASSUME NEW v \in RowValues, NEW m, HasPair(v) => v.mat # m
    PROVE  Signed(v, m) = 0
BY DEF Signed, RowValues, NoRow, Gone, InKinds, OutKinds, HasPair

LEMMA NetSame ==
    ASSUME NEW open, NEW rows, NEW open2, NEW rows2, NEW m, open2[m] = open[m],
           \A r \in AllRows : Signed(rows2[r], m) = Signed(rows[r], m)
    PROVE  NetOf(open2, rows2, m) = NetOf(open, rows, m)
<1> DEFINE f == [r \in AllRows |-> Signed(rows[r], m)]
           g == [r \in AllRows |-> Signed(rows2[r], m)]
<1>1. \A r \in AllRows : g[r] = f[r]
    OBVIOUS
<1> HIDE DEF f, g
<1>2. SumFunctionOnSet(g, AllRows) = SumFunctionOnSet(f, AllRows)
    BY <1>1, RowsAreFinite, SumSame
<1> QED
    BY <1>2 DEF NetOf, f, g

(* A transaction writes on a row only what has its material.               *)
LEMMA TxFollows ==
    ASSUME RowInv, PlaceInv, NEW c \in Clients, InTx(c), NEW r \in DOMAIN req[c].rows
    PROVE  /\ r \in AllRows /\ req[c].rows[r] \in RowValues /\ row[r] \in RowValues
           /\ Follows(row[r], req[c].rows[r])
<1>1. /\ r \in AllRows /\ req[c].rows[r] \in RowValues /\ row[r] \in RowValues
    BY RowsTyped DEF PlaceInv, RequestOK, InTx, Idle
<1>2. CASE InStock(c)
  <2>1. GoodRows(req[c].rows)
      BY <1>2 DEF RowInv
  <2> QED
      BY <1>1, <2>1 DEF GoodRows
<1>3. CASE InConsume(c)
  <2>1. r \in Holds /\ hold[r].state = "HELD"
      BY <1>3 DEF PlaceInv, Taking
  <2>2. row[r] = NoRow
      BY <2>1 DEF PlaceInv, StageTyped, Placed
  <2> QED
      BY <1>1, <2>2 DEF Follows, HasPair, NoRow
<1> QED
    BY <1>2, <1>3 DEF InTx, RowInv, InHold, Idle

LEMMA PairMeansMat ==
    ASSUME NEW v \in RowValues
    PROVE  HasPair(v) <=> "mat" \in DOMAIN v
BY DEF RowValues, NoRow, Gone, HasPair

LEMMA UntouchedNet ==
    ASSUME RowInv, PlaceInv, NEW c \in Clients, InTx(c), NEW m \in Materials, m \notin Touched(c)
    PROVE  NetOf(OpeningAfter(c), RowsAfter(c), m) = OnHand(m)
<1>1. RowsIn(c, m) = {} /\ OpeningAfter(c)[m] = opening[m]
    BY DEF Touched, OpeningAfter
<1>2. ASSUME NEW r \in AllRows PROVE Signed(RowsAfter(c)[r], m) = Signed(row[r], m)
  <2>1. CASE r \notin DOMAIN req[c].rows
      BY <2>1 DEF RowsAfter, Written
  <2>2. CASE r \in DOMAIN req[c].rows
    <3>1. PICK v, w : v = row[r] /\ w = req[c].rows[r]
        OBVIOUS
    <3>2. v \in RowValues /\ w \in RowValues /\ Follows(v, w)
        BY <2>2, <3>1, TxFollows
    <3>3. MatOf(req[c].rows, r) # m
        BY <1>1, <2>2 DEF RowsIn
    <3>4. (IF HasPair(w) THEN w.mat ELSE v.mat) # m
        BY <3>1, <3>2, <3>3, PairMeansMat DEF MatOf
    <3>5. (HasPair(w) => w.mat # m) /\ (HasPair(v) => v.mat # m)
        BY <3>2, <3>4 DEF Follows
    <3>6. Signed(v, m) = 0 /\ Signed(w, m) = 0
        BY <3>2, <3>5, SignedElsewhere
    <3>7. RowsAfter(c)[r] = w
        BY <2>2, <3>1 DEF RowsAfter, Written
    <3> QED
        BY <3>1, <3>6, <3>7
  <2> QED
      BY <2>1, <2>2
<1> QED
    BY <1>1, <1>2, NetSame DEF OnHand

(* One row of the store is entered where there was none.                   *)
LEMMA NetOfNewRow ==
    ASSUME NEW rows, NEW rows2, NEW r \in AllRows, NEW m, opening[m] \in Int,
           \A x \in AllRows : rows[x] \in RowValues /\ rows2[x] \in RowValues,
           \A x \in AllRows : x # r => rows2[x] = rows[x]
    PROVE  NetOf(opening, rows2, m) = NetOf(opening, rows, m) - Signed(rows[r], m) + Signed(rows2[r], m)
<1> DEFINE f == [x \in AllRows |-> Signed(rows[x], m)]
           g == [x \in AllRows |-> Signed(rows2[x], m)]
<1>1. /\ \A x \in AllRows : f[x] \in Int /\ g[x] \in Int
      /\ \A x \in AllRows : x # r => g[x] = f[x]
    BY SignedIsInt
<1>2. f[r] = Signed(rows[r], m) /\ g[r] = Signed(rows2[r], m)
    OBVIOUS
<1> HIDE DEF f, g
<1>3. SumFunctionOnSet(g, AllRows) = SumFunctionOnSet(f, AllRows) - f[r] + g[r]
    BY <1>1, RowsAreFinite, SumOneChanges
<1>4. SumFunctionOnSet(f, AllRows) \in Int /\ f[r] \in Int /\ g[r] \in Int
    BY <1>1, RowsAreFinite, SumIsInt
<1>5. NetOf(opening, rows, m) = opening[m] + SumFunctionOnSet(f, AllRows)
      /\ NetOf(opening, rows2, m) = opening[m] + SumFunctionOnSet(g, AllRows)
    BY DEF NetOf, f, g
<1> QED
    BY <1>2, <1>3, <1>4, <1>5

OneDesk == \A c, d \in Clients : c = d

(* The ledger is never behind, and a sum taken is what the store will be.  *)
LedgerInv ==
    /\ \A m \in Materials : ledger[m] = OnHand(m)
    /\ \A c \in Clients : InTx(c) /\ req[c].summed =>
           \A m \in Materials : req[c].sum[m] = NetOf(OpeningAfter(c), RowsAfter(c), m)

(* A step that leaves the store alone; sums already taken stay.            *)
LEMMA LedgerStill ==
    ASSUME LedgerInv, UNCHANGED store,
           \A d \in Clients : InTx(d)' /\ req'[d].summed =>
               \/ req'[d] = req[d]
               \/ \A m \in Materials : req'[d].sum[m] = NetOf(OpeningAfter(d)', RowsAfter(d)', m)
    PROVE  LedgerInv'
<1>1. opening' = opening /\ row' = row /\ ledger' = ledger
    BY DEF store
<1>2. \A m \in Materials : OnHand(m)' = OnHand(m)
    BY <1>1 DEF OnHand, NetOf
<1>3. ASSUME NEW d \in Clients, req'[d] = req[d], InTx(d)', req'[d].summed, NEW m \in Materials
      PROVE  req'[d].sum[m] = NetOf(OpeningAfter(d)', RowsAfter(d)', m)
  <2>1. InTx(d) /\ req[d].summed
      BY <1>3 DEF InTx
  <2>2. OpeningAfter(d)' = OpeningAfter(d) /\ RowsAfter(d)' = RowsAfter(d)
      BY <1>1, <1>3 DEF OpeningAfter, RowsAfter
  <2> QED
      BY <1>3, <2>1, <2>2 DEF LedgerInv
<1>4. \A d \in Clients : InTx(d)' /\ req'[d].summed =>
          \A m \in Materials : req'[d].sum[m] = NetOf(OpeningAfter(d)', RowsAfter(d)', m)
    BY <1>3
<1>5. \A d \in Clients : InTx(d)' /\ req'[d].summed =>
          \A m \in Materials : req'[d].sum[m] = NetOf(OpeningAfter(d), RowsAfter(d), m)'
    BY <1>4 DEF NetOf
<1> QED
    BY <1>1, <1>2, <1>5 DEF LedgerInv

LEMMA LedgerBegins ==
    ASSUME RowInv, LedgerInv, UNCHANGED store, NEW c \in Clients, NEW v, req' = [req EXCEPT ![c] = v],
           v.op \in {"stock", "consume"} => v.summed = FALSE
    PROVE  LedgerInv'
<1>1. req'[c] = v /\ \A d \in Clients : d # c => req'[d] = req[d]
    BY DEF RowInv
<1>2. \A d \in Clients : InTx(d)' /\ req'[d].summed => req'[d] = req[d]
    BY <1>1 DEF InTx
<1> QED
    BY <1>2, LedgerStill

LEMMA LedgerSummed ==
    ASSUME RowInv, LedgerInv, NEW c \in Clients, Recompute(c)
    PROVE  LedgerInv'
<1>1. InTx(c) /\ UNCHANGED store
    BY DEF Recompute
<1>2. PICK v : /\ req' = [req EXCEPT ![c] = v]
               /\ v = [req[c] EXCEPT !.summed = TRUE, !.locked = @ \cup Twice(c),
                           !.sum = [m \in Materials |-> NetOf(OpeningAfter(c), RowsAfter(c), m)]]
    BY DEF Recompute
<1>3. InStock(c) \/ InConsume(c)
    BY <1>1 DEF InTx, RowInv, InHold, Idle
<1>4. PICK s : s = [m \in Materials |-> NetOf(OpeningAfter(c), RowsAfter(c), m)]
    OBVIOUS
<1>5. v.rows = req[c].rows /\ v.opening = req[c].opening /\ v.sum = s
    BY <1>2, <1>3, <1>4 DEF InStock, InConsume, TxFields
<1>6. req'[c] = v /\ \A d \in Clients : d # c => req'[d] = req[d]
    BY <1>2 DEF RowInv
<1>7. OpeningAfter(c)' = OpeningAfter(c) /\ RowsAfter(c)' = RowsAfter(c)
    BY <1>1, <1>5, <1>6 DEF store, OpeningAfter, RowsAfter
<1>8. \A m \in Materials : req'[c].sum[m] = NetOf(OpeningAfter(c)', RowsAfter(c)', m)
    BY <1>4, <1>5, <1>6, <1>7
<1>9. \A d \in Clients : InTx(d)' /\ req'[d].summed =>
          \/ req'[d] = req[d]
          \/ \A m \in Materials : req'[d].sum[m] = NetOf(OpeningAfter(d)', RowsAfter(d)', m)
    BY <1>6, <1>8
<1> QED
    BY <1>1, <1>9, LedgerStill

LEMMA LedgerSaved ==
    ASSUME OneDesk, RowInv, PlaceInv, LedgerInv, NEW c \in Clients, WriteStore(c)
    PROVE  LedgerInv'
<1>1. /\ InTx(c) /\ req[c].summed
      /\ opening' = OpeningAfter(c) /\ row' = RowsAfter(c)
      /\ ledger' = [m \in Materials |-> IF m \in Touched(c) THEN req[c].sum[m] ELSE ledger[m]]
      /\ req' = [req EXCEPT ![c] = Idle]
    BY DEF WriteStore
<1>2. \A d \in Clients : ~InTx(d)'
    BY <1>1 DEF OneDesk, RowInv, InTx, Idle
<1>3. ASSUME NEW m \in Materials PROVE ledger'[m] = OnHand(m)'
  <2>1. OnHand(m)' = NetOf(OpeningAfter(c), RowsAfter(c), m)
      BY <1>1 DEF OnHand, NetOf
  <2>2. CASE m \in Touched(c)
      BY <1>1, <2>1, <2>2 DEF LedgerInv
  <2>3. CASE m \notin Touched(c)
      BY <1>1, <2>1, <2>3, UntouchedNet DEF LedgerInv
  <2> QED
      BY <2>2, <2>3
<1> QED
    BY <1>2, <1>3 DEF LedgerInv

LEMMA LedgerIncrements ==
    ASSUME OneDesk, RowInv, PlaceInv, LedgerInv, RowInv', PlaceInv', NEW c \in Clients, CreateAutoInbound(c)
    PROVE  LedgerInv'
<1>1. PICK m \in Metals, q \in Qty, r \in Rows :
          /\ Fresh(r) /\ row' = [row EXCEPT ![r] = RowOf("AUTO_IN", m, q, {})]
          /\ ledger' = [ledger EXCEPT ![m] = @ + q]
          /\ opening' = opening /\ req' = req /\ req[c] = Idle
    BY DEF CreateAutoInbound
<1>2. \A d \in Clients : ~InTx(d)'
    BY <1>1 DEF OneDesk, InTx, Idle
<1>3. row[r].kind = "NONE" /\ row'[r] = RowOf("AUTO_IN", m, q, {})
      /\ \A x \in AllRows : x # r => row'[x] = row[x]
    BY <1>1 DEF Fresh, Exists, RowInv, AllRows
<1>4. \A x \in AllRows : row[x] \in RowValues /\ row'[x] \in RowValues
  <2>1. \A x \in Rows : row'[x] \in RowValues
      BY DEF RowInv, RowOK, FullRow, RowValues
  <2>2. \A x \in Holds : row'[x] \in RowValues
      BY DEF PlaceInv, StageTyped, Placed
  <2> QED
      BY <2>1, <2>2, RowsTyped DEF AllRows
<1>5. ASSUME NEW n \in Materials PROVE ledger'[n] = OnHand(n)'
  <2>1. r \in AllRows /\ opening[n] \in Int /\ q \in Int /\ ledger[n] \in Int /\ ledger[n] = OnHand(n)
      BY DEF AllRows, PlaceInv, Qty, LedgerInv
  <2>r. PICK was, now : was = row /\ now = row'
      OBVIOUS
  <2>v. /\ \A x \in AllRows : was[x] \in RowValues /\ now[x] \in RowValues
        /\ \A x \in AllRows : x # r => now[x] = was[x]
      BY <1>3, <1>4, <2>r
  <2>w. NetOf(opening, now, n) = NetOf(opening, was, n) - Signed(was[r], n) + Signed(now[r], n)
      BY <2>1, <2>v, NetOfNewRow
  <2>2. NetOf(opening, row', n) = NetOf(opening, row, n) - Signed(row[r], n) + Signed(row'[r], n)
      BY <2>r, <2>w
  <2>3. Signed(row[r], n) = 0
      BY <1>3 DEF Signed, InKinds, OutKinds
  <2>4. Signed(row'[r], n) = IF n = m THEN q ELSE 0
      BY <1>3 DEF Signed, RowOf, InKinds, OutKinds
  <2>5. ledger'[n] = IF n = m THEN ledger[n] + q ELSE ledger[n]
      BY <1>1 DEF PlaceInv
  <2>6. OnHand(n)' = NetOf(opening, row', n) /\ OnHand(n) = NetOf(opening, row, n)
      BY <1>1 DEF OnHand, NetOf
  <2> QED
      BY <2>1, <2>2, <2>3, <2>4, <2>5, <2>6
<1> QED
    BY <1>2, <1>5 DEF LedgerInv

LEMMA LedgerInvNext ==
    ASSUME OneDesk, RowInv, PlaceInv, LedgerInv, RowInv', PlaceInv', [Next]_stones
    PROVE  LedgerInv'
<1>1. ASSUME NEW c \in Clients, StoreStep(c) PROVE LedgerInv'
  <2>1. CASE \/ CreateInbound(c) \/ CreateOutbound(c) \/ Transfer(c) \/ UpdateOutbound(c)
             \/ DeleteOutbound(c) \/ UpdateInbound(c) \/ DeleteInbound(c) \/ UpdateStock(c)
             \/ RevokeAutoInbounds(c) \/ IssueStock(c)
    <3>1. Starts(c)
        BY <2>1, MovementsStart
    <3>2. UNCHANGED store
        BY <2>1 DEF CreateInbound, CreateOutbound, Transfer, UpdateOutbound, DeleteOutbound, UpdateInbound,
                    DeleteInbound, UpdateStock, RevokeAutoInbounds, IssueStock, WriteRows, StockTx, Begin
    <3>3. PICK f, g, locked : req' = [req EXCEPT ![c] = Tx("stock", f, g, locked, {})]
        BY <3>1 DEF Starts
    <3>4. Tx("stock", f, g, locked, {}).summed = FALSE
        BY DEF Tx
    <3> QED
        BY <3>2, <3>3, <3>4, LedgerBegins
  <2>2. CASE Commit(c)
      BY <2>2, LedgerSaved DEF Commit
  <2>3. CASE Fail(c)
    <3>1. UNCHANGED store /\ req' = [req EXCEPT ![c] = Idle]
        BY <2>3 DEF Fail
    <3> QED
        BY <3>1, LedgerBegins DEF Idle
  <2> QED
      BY <1>1, <2>1, <2>2, <2>3, LedgerIncrements, LedgerSummed DEF StoreStep
<1>2. ASSUME NEW c \in Clients, StageStep(c) PROVE LedgerInv'
  <2>1. CASE Assign(c) \/ IssueWish(c)
    <3>1. PICK t, ws : AskHold(c, t, ws)
        BY <2>1 DEF Assign, IssueWish
    <3>2. PICK h \in Holds, m \in Stones, q \in Qty :
              Begin(c, [op |-> "hold", hold |-> h, mat |-> m, qty |-> q, ticket |-> t, wish |-> ws])
        BY <3>1 DEF AskHold
    <3>3. PICK v : v = [op |-> "hold", hold |-> h, mat |-> m, qty |-> q, ticket |-> t, wish |-> ws]
        OBVIOUS
    <3>4. UNCHANGED store /\ req' = [req EXCEPT ![c] = v] /\ v.op = "hold"
        BY <3>2, <3>3 DEF Begin
    <3> QED
        BY <3>4, LedgerBegins
  <2>2. CASE AssignSave(c) \/ IssueWishSave(c)
    <3>1. UNCHANGED store /\ req' = [req EXCEPT ![c] = Idle]
        BY <2>2 DEF AssignSave, IssueWishSave
    <3> QED
        BY <3>1, LedgerBegins DEF Idle
  <2>3. CASE ConsumeStoneHolds(c)
    <3>1. PICK f, ts : StockTx(c, "consume", f, <<>>, {}, ts)
        BY <2>3 DEF ConsumeStoneHolds
    <3>2. PICK v : v = Tx("consume", f, <<>>, {}, ts)
        OBVIOUS
    <3>3. UNCHANGED store /\ req' = [req EXCEPT ![c] = v] /\ v.summed = FALSE
        BY <3>1, <3>2 DEF StockTx, Begin, Tx
    <3> QED
        BY <3>3, LedgerBegins
  <2>4. CASE ConfirmSave(c)
      BY <2>4, LedgerSaved DEF ConfirmSave
  <2> QED
      BY <1>2, <2>1, <2>2, <2>3, <2>4 DEF StageStep
<1>3. CASE \/ Unclaim \/ CancelPending \/ Accept \/ Remove \/ SetOutcome \/ ClearSplit \/ ChangeStatus
           \/ RemoveOrder \/ CreateWish \/ EndWish \/ ReturnStoneEarly \/ ReturnStage \/ UNCHANGED stones
  <2>1. req' = req /\ UNCHANGED store
      BY <1>3 DEF Unclaim, CancelPending, Accept, Remove, SetOutcome, ClearSplit, ChangeStatus, RemoveOrder,
                  CreateWish, EndWish, ReturnStoneEarly, ReturnStage, DeleteTickets, stones
  <2>2. \A d \in Clients : req'[d] = req[d]
      BY <2>1
  <2> QED
      BY <2>1, <2>2, LedgerStill
<1> QED
    BY <1>1, <1>2, <1>3 DEF Next

LEMMA LedgerInvInit == ASSUME Init PROVE LedgerInv
<1>1. \A c \in Clients : ~InTx(c)
    BY DEF Init, InTx, Idle
<1>2. ASSUME NEW m \in Materials PROVE ledger[m] = OnHand(m)
  <2> DEFINE f == [r \in AllRows |-> Signed(row[r], m)]
  <2>1. \A r \in AllRows : f[r] = 0
      BY DEF Init, Signed, NoRow, InKinds, OutKinds
  <2> HIDE DEF f
  <2>2. SumFunctionOnSet(f, AllRows) = 0
      BY <2>1, RowsAreFinite, SumOfZeros
  <2>3. OnHand(m) = opening[m] + SumFunctionOnSet(f, AllRows)
      BY DEF OnHand, NetOf, f
  <2>4. opening[m] = Opening /\ ledger[m] = Opening
      BY DEF Init
  <2> QED
      BY <2>2, <2>3, <2>4, QtyAssumption
<1> QED
    BY <1>1, <1>2 DEF LedgerInv

(* With one transaction open at a time the ledger says what the rows add   *)
(* up to, whatever is entered, corrected, revoked or consumed: only the     *)
(* snapshot taken before the wait for the balance row can leave it behind.  *)
THEOREM OneDeskLedgerAgrees == OneDesk => (Spec => []LedgerAgrees)
<1> SUFFICES ASSUME OneDesk PROVE Spec => []LedgerAgrees
    OBVIOUS
<1>1. Init => RowInv /\ PlaceInv /\ LedgerInv
    BY RowInvInit, PlaceInvInit, LedgerInvInit
<1>2. RowInv /\ PlaceInv /\ LedgerInv /\ [Next]_stones => (RowInv /\ PlaceInv /\ LedgerInv)'
    BY RowInvNext, PlaceInvNext, LedgerInvNext
<1>3. LedgerInv => LedgerAgrees
    BY DEF LedgerInv, LedgerAgrees
<1> QED
    BY <1>1, <1>2, <1>3, PTL DEF Spec

-----------------------------------------------------------------------------
(* What is promised is in the store.                                       *)
PromisedIn(d, h, m) == IF d[h].state = "DRAFT" /\ d[h].mat = m THEN d[h].qty ELSE 0
HeldIn(d, m) == SumFunctionOnSet([h \in Holds |-> PromisedIn(d, h, m)], Holds)

LEMMA HeldIs ==
    ASSUME NEW m
    PROVE  Held(m) = HeldIn(draft, m) /\ Held(m)' = HeldIn(draft', m)
           /\ OnHand(m) = NetOf(opening, row, m) /\ OnHand(m)' = NetOf(opening', row', m)
BY DEF Held, HeldBy, HeldIn, Promised, PromisedIn, Open, OnHand, NetOf

LEMMA PromisedIsNat ==
    ASSUME NEW d, NEW h, d[h] \in DraftValues, NEW m
    PROVE  PromisedIn(d, h, m) \in Nat
BY DEF PromisedIn, DraftValues, NoDraft

LEMMA HeldIsNat ==
    ASSUME NEW d, \A h \in Holds : d[h] \in DraftValues, NEW m
    PROVE  HeldIn(d, m) \in Nat
<1> DEFINE f == [h \in Holds |-> PromisedIn(d, h, m)]
<1>1. \A h \in Holds : f[h] \in Nat
    BY PromisedIsNat
<1> HIDE DEF f
<1>2. SumFunctionOnSet(f, Holds) \in Nat
    BY <1>1, RowsAreFinite, SumIsNat
<1> QED
    BY <1>2 DEF HeldIn, f

(* Drafts that only get smaller promise less.                              *)
LEMMA HeldNotMore ==
    ASSUME NEW d, NEW e, \A h \in Holds : d[h] \in DraftValues /\ e[h] \in DraftValues, NEW m,
           \A h \in Holds : PromisedIn(e, h, m) <= PromisedIn(d, h, m)
    PROVE  HeldIn(e, m) <= HeldIn(d, m)
<1> DEFINE f == [h \in Holds |-> PromisedIn(d, h, m)]
           g == [h \in Holds |-> PromisedIn(e, h, m)]
<1>1. \A h \in Holds : f[h] \in Int /\ g[h] \in Int /\ g[h] <= f[h]
    BY PromisedIsNat
<1> HIDE DEF f, g
<1>2. SumFunctionOnSet(g, Holds) <= SumFunctionOnSet(f, Holds)
    BY <1>1, RowsAreFinite, SumNotMore
<1> QED
    BY <1>2 DEF HeldIn, f, g

LEMMA HeldOneMore ==
    ASSUME NEW d, NEW e, \A h \in Holds : d[h] \in DraftValues /\ e[h] \in DraftValues, NEW m,
           NEW k \in Holds, \A h \in Holds : h # k => e[h] = d[h]
    PROVE  HeldIn(e, m) = HeldIn(d, m) - PromisedIn(d, k, m) + PromisedIn(e, k, m)
<1> DEFINE f == [h \in Holds |-> PromisedIn(d, h, m)]
           g == [h \in Holds |-> PromisedIn(e, h, m)]
<1>1. /\ \A h \in Holds : f[h] \in Int /\ g[h] \in Int
      /\ \A h \in Holds : h # k => g[h] = f[h]
      /\ f[k] = PromisedIn(d, k, m) /\ g[k] = PromisedIn(e, k, m)
    BY PromisedIsNat DEF PromisedIn
<1> HIDE DEF f, g
<1>2. SumFunctionOnSet(g, Holds) = SumFunctionOnSet(f, Holds) - f[k] + g[k]
    BY <1>1, RowsAreFinite, SumOneChanges
<1> QED
    BY <1>1, <1>2 DEF HeldIn, f, g

(* What writing the rows f changes of a material.                          *)
Part(f, r, m) == IF r \in DOMAIN f THEN Signed(f[r], m) - Signed(row[r], m) ELSE 0
Change(f, m) == SumFunctionOnSet([r \in AllRows |-> Part(f, r, m)], AllRows)

LEMMA PartIsInt ==
    ASSUME NEW f, NEW m, NEW r \in AllRows, row[r] \in RowValues, r \in DOMAIN f => f[r] \in RowValues
    PROVE  Part(f, r, m) \in Int
BY SignedIsInt DEF Part

LEMMA ChangeIsInt ==
    ASSUME NEW f, NEW m, \A r \in AllRows : row[r] \in RowValues /\ (r \in DOMAIN f => f[r] \in RowValues)
    PROVE  Change(f, m) \in Int
<1> DEFINE g == [r \in AllRows |-> Part(f, r, m)]
<1>1. \A r \in AllRows : g[r] \in Int
    BY PartIsInt
<1> HIDE DEF g
<1>2. SumFunctionOnSet(g, AllRows) \in Int
    BY <1>1, RowsAreFinite, SumIsInt
<1> QED
    BY <1>2 DEF Change, g

LEMMA WrittenNet ==
    ASSUME NEW f, NEW m, NEW open, open[m] = opening[m], opening[m] \in Int,
           \A r \in AllRows : row[r] \in RowValues /\ (r \in DOMAIN f => f[r] \in RowValues)
    PROVE  NetOf(open, Written(row, f), m) = OnHand(m) + Change(f, m)
<1> DEFINE was == [r \in AllRows |-> Signed(row[r], m)]
           part == [r \in AllRows |-> Part(f, r, m)]
           now == [r \in AllRows |-> Signed(Written(row, f)[r], m)]
<1>1. ASSUME NEW r \in AllRows PROVE was[r] \in Int /\ part[r] \in Int /\ now[r] = was[r] + part[r]
  <2>1. Signed(row[r], m) \in Int /\ Part(f, r, m) \in Int
      BY SignedIsInt, PartIsInt
  <2>2. r \in DOMAIN f => Signed(f[r], m) \in Int
      BY SignedIsInt
  <2>3. Written(row, f)[r] = IF r \in DOMAIN f THEN f[r] ELSE row[r]
      BY DEF Written
  <2> QED
      BY <2>1, <2>2, <2>3 DEF Part
<1>2. SumFunctionOnSet(was, AllRows) \in Int /\ SumFunctionOnSet(part, AllRows) \in Int
  <2> HIDE DEF was, part
  <2> QED
      BY <1>1, RowsAreFinite, SumIsInt
<1>3. SumFunctionOnSet(now, AllRows) = SumFunctionOnSet(was, AllRows) + SumFunctionOnSet(part, AllRows)
  <2> HIDE DEF was, part, now
  <2> QED
      BY <1>1, RowsAreFinite, SumOfBoth
<1>4. /\ OnHand(m) = opening[m] + SumFunctionOnSet(was, AllRows)
      /\ Change(f, m) = SumFunctionOnSet(part, AllRows)
      /\ NetOf(open, Written(row, f), m) = opening[m] + SumFunctionOnSet(now, AllRows)
    BY DEF OnHand, NetOf, Change
<1> HIDE DEF was, part, now
<1> QED
    BY <1>2, <1>3, <1>4

(* Only the row r changes what there is of m.                              *)
LEMMA ChangeOfOne ==
    ASSUME NEW f, NEW m, \A x \in AllRows : row[x] \in RowValues /\ (x \in DOMAIN f => f[x] \in RowValues),
           NEW r \in AllRows, \A x \in AllRows : x # r => Part(f, x, m) = 0
    PROVE  Change(f, m) = Part(f, r, m)
<1> DEFINE z == [x \in AllRows |-> 0]
           g == [x \in AllRows |-> Part(f, x, m)]
<1>1. /\ \A x \in AllRows : z[x] \in Int /\ g[x] \in Int
      /\ \A x \in AllRows : x # r => g[x] = z[x]
      /\ \A x \in AllRows : z[x] = 0
      /\ g[r] = Part(f, r, m)
    BY PartIsInt
<1> HIDE DEF z, g
<1>2. SumFunctionOnSet(g, AllRows) = SumFunctionOnSet(z, AllRows) - z[r] + g[r]
    BY <1>1, RowsAreFinite, SumOneChanges
<1>3. SumFunctionOnSet(z, AllRows) = 0
    BY <1>1, RowsAreFinite, SumOfZeros
<1> QED
    BY <1>1, <1>2, <1>3 DEF Change, g

LEMMA ChangeOfNone ==
    ASSUME NEW f, NEW m, \A x \in AllRows : Part(f, x, m) = 0
    PROVE  Change(f, m) = 0
<1> DEFINE g == [x \in AllRows |-> Part(f, x, m)]
<1>1. \A x \in AllRows : g[x] = 0
    OBVIOUS
<1> HIDE DEF g
<1>2. SumFunctionOnSet(g, AllRows) = 0
    BY <1>1, RowsAreFinite, SumOfZeros
<1> QED
    BY <1>2 DEF Change, g

(* The rows of a transaction still change the same.                        *)
LEMMA ChangeStill ==
    ASSUME NEW f, NEW m, \A r \in DOMAIN f : row'[r] = row[r]
    PROVE  Change(f, m)' = Change(f, m)
<1> DEFINE g == [r \in AllRows |-> Part(f, r, m)]
           h == [r \in AllRows |-> IF r \in DOMAIN f THEN Signed(f[r], m) - Signed(row'[r], m) ELSE 0]
<1>1. \A r \in AllRows : h[r] = g[r]
    BY DEF Part
<1> HIDE DEF g, h
<1>2. SumFunctionOnSet(h, AllRows) = SumFunctionOnSet(g, AllRows)
    BY <1>1, RowsAreFinite, SumSame
<1> QED
    BY <1>2 DEF Change, Part, g, h

(* A transaction that takes from a stone has its balance locked, and what  *)
(* it takes is free.                                                       *)
Covers(f, locked, m) ==
    LET e == Change(f, m)
    IN  e >= 0 \/ (m \in locked /\ Held(m) <= OnHand(m) + e)

StockInv ==
    /\ \A c, d \in Clients : c # d => Locks(c) \cap Locks(d) = {}
    /\ \A m \in Stones : Held(m) <= OnHand(m)
    /\ \A c \in Clients : InHold(c) =>
           req[c].mat \in Stones /\ req[c].qty + Held(req[c].mat) <= OnHand(req[c].mat)
    /\ \A c \in Clients : InTx(c) => DOMAIN req[c].opening = {}
    /\ \A c \in Clients : InStock(c) => \A m \in Stones : Covers(req[c].rows, req[c].locked, m)

LEMMA Numbers ==
    ASSUME RowInv, PlaceInv, NEW m \in Stones
    PROVE  OnHand(m) \in Int /\ Held(m) \in Nat
<1>1. opening[m] \in Int
    BY DEF PlaceInv, Materials
<1>2. NetOf(opening, row, m) \in Int
    BY <1>1, RowsTyped, NetIsInt
<1>3. \A h \in Holds : draft[h] \in DraftValues
    BY DEF PlaceInv, StageTyped, Placed
<1> QED
    BY <1>2, <1>3, HeldIs, HeldIsNat

LEMMA NumbersNext ==
    ASSUME RowInv', PlaceInv', NEW m \in Stones
    PROVE  OnHand(m)' \in Int /\ Held(m)' \in Nat
<1>1. opening'[m] \in Int
    BY DEF PlaceInv, Materials
<1>2. \A h \in Holds : draft'[h] \in DraftValues /\ row'[h] \in RowValues
    BY DEF PlaceInv, StageTyped, Placed
<1>3. \A r \in Rows : row'[r] \in RowValues
    BY DEF RowInv, RowOK, FullRow, RowValues
<1>4. PICK open, rows, d : open = opening' /\ rows = row' /\ d = draft'
    OBVIOUS
<1>5. \A r \in AllRows : rows[r] \in RowValues
    BY <1>2, <1>3, <1>4 DEF AllRows
<1>6. NetOf(open, rows, m) \in Int
    BY <1>1, <1>4, <1>5, NetIsInt
<1>7. HeldIn(d, m) \in Nat
    BY <1>2, <1>4, HeldIsNat
<1> QED
    BY <1>4, <1>6, <1>7, HeldIs

(* What a step may do to a stone.                                          *)
Moves(m) ==
    \/ OnHand(m)' > OnHand(m) /\ Held(m)' = Held(m)
    \/ OnHand(m)' < OnHand(m) /\ Held(m)' = Held(m) /\ OnHand(m) - OnHand(m)' <= OnHand(m) - Held(m)
    \/ OnHand(m)' = OnHand(m) /\ Held(m)' > Held(m) /\ Held(m)' - Held(m) <= OnHand(m) - Held(m)
    \/ OnHand(m)' = OnHand(m) /\ Held(m)' < Held(m)
    \/ OnHand(m)' < OnHand(m) /\ OnHand(m) - OnHand(m)' <= Held(m) - Held(m)'
    \/ OnHand(m)' = OnHand(m) /\ Held(m)' = Held(m)
Frees(m) == OnHand(m) - Held(m) <= OnHand(m)' - Held(m)'

(* The other transactions go on, the acting one has ended.                 *)
LEMMA StockFrom ==
    ASSUME RowInv, PlaceInv, StockInv, RowInv', PlaceInv',
           \A m \in Stones : Moves(m),
           \A m \in Stones : Frees(m) \/ \A d \in Clients : req'[d] = req[d] => m \notin Locks(d),
           \A d \in Clients :
               \/ req'[d] = Idle
               \/ req'[d] = req[d] /\ (InStock(d) => \A r \in DOMAIN req[d].rows : row'[r] = row[r])
    PROVE  StockInv'
<1>n. \A m \in Stones : OnHand(m) \in Int /\ Held(m) \in Nat /\ OnHand(m)' \in Int /\ Held(m)' \in Nat
    BY Numbers, NumbersNext
<1>1. ASSUME NEW d \in Clients PROVE Locks(d)' \subseteq Locks(d)
  <2>1. CASE req'[d] = Idle
      BY <2>1 DEF Locks, InTx, Idle
  <2>2. CASE req'[d] = req[d]
      BY <2>2 DEF Locks, InTx
  <2> QED
      BY <2>1, <2>2
<1>2. \A c, d \in Clients : c # d => Locks(c)' \cap Locks(d)' = {}
    BY <1>1 DEF StockInv
<1>3. ASSUME NEW m \in Stones PROVE Held(m)' <= OnHand(m)'
  <2>1. Held(m) <= OnHand(m) /\ Moves(m)
      BY DEF StockInv
  <2> QED
      BY <1>n, <2>1 DEF Moves
<1>4. ASSUME NEW d \in Clients, InHold(d)'
      PROVE  req'[d].mat \in Stones /\ req'[d].qty + Held(req[d].mat)' <= OnHand(req[d].mat)'
  <2>1. InHold(d) /\ req'[d] = req[d]
      BY <1>4 DEF InHold, Idle
  <2>2. PICK m, q : m = req[d].mat /\ q = req[d].qty
      OBVIOUS
  <2>3. m \in Stones /\ q + Held(m) <= OnHand(m)
      BY <2>1, <2>2 DEF StockInv
  <2>4. RequestOK(req[d])
      BY DEF PlaceInv
  <2>5. q \in Int
      BY <2>1, <2>2, <2>4 DEF RequestOK, InHold, Idle, Qty
  <2>6. m \in Locks(d)
      BY <2>1, <2>2 DEF Locks, InTx, InHold
  <2>7. Frees(m)
      BY <2>1, <2>3, <2>6
  <2>8. q + Held(m)' <= OnHand(m)'
      BY <1>n, <2>3, <2>5, <2>7 DEF Frees
  <2>9. Held(req[d].mat)' = Held(m)' /\ OnHand(req[d].mat)' = OnHand(m)'
      BY <2>1, <2>2, HeldIs DEF Held, HeldBy, OnHand, NetOf, Promised, Open
  <2> QED
      BY <2>1, <2>2, <2>3, <2>8, <2>9
<1>5. ASSUME NEW d \in Clients, InStock(d)'
      PROVE  \A m \in Stones : Covers(req[d].rows, req[d].locked, m)'
  <2>1. InStock(d) /\ req'[d] = req[d]
      BY <1>5 DEF InStock, Idle
  <2>2. PICK f, l : f = req[d].rows /\ l = req[d].locked
      OBVIOUS
  <2>3. ASSUME NEW m \in Stones PROVE Covers(f, l, m)'
    <3>1. Covers(f, l, m)
        BY <2>1, <2>2 DEF StockInv
    <3>2. Change(f, m)' = Change(f, m)
        BY <2>1, <2>2, ChangeStill DEF InStock, Idle
    <3>3. CASE Change(f, m) >= 0
        BY <3>2, <3>3 DEF Covers
    <3>4. CASE m \in l /\ Held(m) <= OnHand(m) + Change(f, m)
      <4>1. m \in Locks(d)
          BY <2>1, <2>2, <3>4 DEF Locks, InTx, InStock
      <4>2. Frees(m)
          BY <2>1, <4>1
      <4>3. Change(f, m) \in Int
        <5>1. \A r \in DOMAIN f : f[r] \in RowValues
            BY <2>1, <2>2, TxFollows DEF InTx, InStock
        <5> QED
            BY <5>1, RowsTyped, ChangeIsInt
      <4>4. Held(m)' <= OnHand(m)' + Change(f, m)
          BY <1>n, <3>4, <4>2, <4>3 DEF Frees
      <4> QED
          BY <3>2, <3>4, <4>4 DEF Covers
    <3> QED
        BY <3>1, <3>3, <3>4 DEF Covers
  <2>5. \A m \in Stones : Covers(req[d].rows, req[d].locked, m)'
    <3>1. req'[d].rows = f /\ req'[d].locked = l
        BY <2>1, <2>2
    <3> QED
        BY <2>3, <3>1 DEF Covers, Change, Part, Held, HeldBy, OnHand, NetOf, Promised, Open
  <2> QED
      BY <2>5
<1>6. \A d \in Clients : InTx(d)' => DOMAIN req'[d].opening = {}
    BY DEF StockInv, InTx, Idle
<1> QED
    BY <1>2, <1>3, <1>4, <1>5, <1>6 DEF StockInv

LEMMA CoversStill ==
    ASSUME NEW d, NEW f, NEW l, req'[d].rows = f, req'[d].locked = l, \A m \in Stones : Covers(f, l, m)'
    PROVE  \A m \in Stones : Covers(req[d].rows, req[d].locked, m)'
BY DEF Covers, Change, Part, Held, HeldBy, OnHand, NetOf, Promised, Open

(* A step that only changes what the client c has under way.               *)
LEMMA StockBegins ==
    ASSUME RowInv, PlaceInv, StockInv, NEW c \in Clients, NEW v, req' = [req EXCEPT ![c] = v],
           UNCHANGED <<store, stage>>,
           v.op \in {"stock", "consume"} => \A m \in v.locked : m \in Locks(c) \/ BalanceFree(m),
           v.op = "hold" => BalanceFree(v.mat) /\ v.mat \in Stones /\ v.qty + Held(v.mat) <= OnHand(v.mat),
           v.op \in {"stock", "consume"} => DOMAIN v.opening = {},
           v.op = "stock" /\ DOMAIN v = TxFields => \A m \in Stones : Covers(v.rows, v.locked, m)
    PROVE  StockInv' /\ \A m \in Stones : Moves(m)
<1>1. req'[c] = v /\ \A d \in Clients : d # c => req'[d] = req[d]
    BY DEF RowInv
<1>2. opening' = opening /\ row' = row /\ draft' = draft
    BY DEF store, stage
<1>3. \A m : OnHand(m)' = OnHand(m) /\ Held(m)' = Held(m)
    BY <1>2, HeldIs
<1>4. \A f, l, m : Covers(f, l, m) => Covers(f, l, m)'
    BY <1>2 DEF Covers, Change, Part, OnHand, NetOf, Held, HeldBy, Promised, Open
<1>5. ASSUME NEW d \in Clients, d # c
      PROVE  Locks(d)' = Locks(d) /\ (InHold(d)' <=> InHold(d)) /\ (InStock(d)' <=> InStock(d))
    BY <1>1, <1>5 DEF Locks, InTx, InHold, InStock
<1>6. \A m \in Locks(c)' : m \in Locks(c) \/ BalanceFree(m)
    BY <1>1 DEF Locks, InTx
<1>7. \A d, e \in Clients : d # e => Locks(d)' \cap Locks(e)' = {}
  <2>1. \A d \in Clients : d # c => Locks(d)' \cap Locks(c)' = {}
      BY <1>5, <1>6 DEF StockInv, BalanceFree
  <2>2. \A d, e \in Clients : d # e /\ d # c /\ e # c => Locks(d)' \cap Locks(e)' = {}
      BY <1>5 DEF StockInv
  <2> QED
      BY <2>1, <2>2
<1>8. \A m \in Stones : Held(m)' <= OnHand(m)'
    BY <1>3 DEF StockInv
<1>9. ASSUME NEW d \in Clients, InHold(d)'
      PROVE  req'[d].mat \in Stones /\ req'[d].qty + Held(req[d].mat)' <= OnHand(req[d].mat)'
  <2>1. PICK m, q : m = req'[d].mat /\ q = req'[d].qty
      OBVIOUS
  <2>2. m \in Stones /\ q + Held(m) <= OnHand(m)
    <3>1. CASE d = c
        BY <1>1, <1>9, <2>1, <3>1 DEF InHold
    <3>2. CASE d # c
        BY <1>1, <1>5, <1>9, <2>1, <3>2 DEF StockInv
    <3> QED
        BY <3>1, <3>2
  <2>3. Held(req[d].mat)' = Held(m) /\ OnHand(req[d].mat)' = OnHand(m)
      BY <1>2, <2>1 DEF Held, HeldBy, OnHand, NetOf, Promised, Open
  <2> QED
      BY <2>1, <2>2, <2>3
<1>10. ASSUME NEW d \in Clients, InStock(d)'
       PROVE  \A m \in Stones : Covers(req[d].rows, req[d].locked, m)'
  <2>1. PICK f, l : f = req'[d].rows /\ l = req'[d].locked
      OBVIOUS
  <2>2. \A m \in Stones : Covers(f, l, m)
    <3>1. CASE d = c
        BY <1>1, <1>10, <2>1, <3>1 DEF InStock
    <3>2. CASE d # c
        BY <1>1, <1>5, <1>10, <2>1, <3>2 DEF StockInv
    <3> QED
        BY <3>1, <3>2
  <2>3. \A m \in Stones : Covers(f, l, m)'
      BY <1>4, <2>2
  <2>4. \A m \in Stones : Covers(req[d].rows, req[d].locked, m)'
      BY <2>1, <2>3, CoversStill
  <2> QED
      BY <2>4
<1>12. \A d \in Clients : InTx(d)' => DOMAIN req'[d].opening = {}
    BY <1>1 DEF StockInv, InTx
<1>11. \A m \in Stones : Moves(m)
    BY <1>3 DEF Moves
<1> QED
    BY <1>7, <1>8, <1>9, <1>10, <1>11, <1>12 DEF StockInv

LEMMA FreshSigned ==
    ASSUME NEW r, row[r].kind = "NONE", NEW m
    PROVE  Signed(row[r], m) = 0
BY DEF Signed, InKinds, OutKinds

(* One row is written.                                                     *)
LEMMA OneCovers ==
    ASSUME RowInv, PlaceInv, StockInv, NEW r \in Rows, NEW v \in RowValues, NEW l, NEW m \in Stones,
           LET e == Signed(v, m) - Signed(row[r], m)
           IN  e >= 0 \/ (m \in l /\ Held(m) <= OnHand(m) + e)
    PROVE  Covers(One(r, v), l, m)
<1> DEFINE f == One(r, v)
<1>1. DOMAIN f = {r} /\ f[r] = v
    BY DEF One
<1> HIDE DEF f
<1>2. r \in AllRows /\ \A x \in AllRows : row[x] \in RowValues
    BY RowsTyped DEF AllRows
<1>3. \A x \in AllRows : x # r => Part(f, x, m) = 0
    BY <1>1 DEF Part
<1>4. \A x \in AllRows : row[x] \in RowValues /\ (x \in DOMAIN f => f[x] \in RowValues)
    BY <1>1, <1>2
<1>5. Change(f, m) = Part(f, r, m)
    BY <1>2, <1>3, <1>4, ChangeOfOne
<1>6. Part(f, r, m) = Signed(v, m) - Signed(row[r], m)
    BY <1>1 DEF Part
<1> QED
    BY <1>5, <1>6 DEF Covers, f

(* What is taken by hand from a stone was looked up under its lock.        *)
LEMMA MovementCovers ==
    ASSUME RowInv, PlaceInv, StockInv, Corrections = FALSE, NEW c \in Clients,
           \/ CreateInbound(c) \/ CreateOutbound(c) \/ Transfer(c) \/ UpdateOutbound(c)
           \/ DeleteOutbound(c) \/ UpdateInbound(c) \/ DeleteInbound(c) \/ UpdateStock(c)
           \/ RevokeAutoInbounds(c) \/ IssueStock(c)
    PROVE  \E f, l : /\ WriteRows(c, f, l)
                     /\ \A m \in l : BalanceFree(m)
                     /\ \A m \in Stones : Covers(f, l, m)
<1>n. \A m \in Stones : OnHand(m) \in Int /\ Held(m) \in Nat /\ Held(m) <= OnHand(m)
    BY Numbers DEF StockInv
<1>q. Qty \subseteq Nat
    BY QtyAssumption DEF Qty
<1>v. ASSUME NEW kind \in InKinds \cup OutKinds, NEW m \in Materials, NEW q \in Qty, NEW p \in SUBSET Rows
      PROVE  RowOf(kind, m, q, p) \in RowValues
    BY <1>q DEF RowOf, RowValues
<1>0. ~DeleteOutbound(c) /\ ~UpdateInbound(c) /\ ~DeleteInbound(c) /\ ~UpdateStock(c)
    BY DEF DeleteOutbound, UpdateInbound, DeleteInbound, UpdateStock
<1>1. CASE CreateInbound(c)
  <2>1. PICK m \in Materials, q \in Qty, r \in Rows :
            Fresh(r) /\ WriteRows(c, One(r, RowOf("IN", m, q, {})), {})
      BY <1>1 DEF CreateInbound
  <2>2. PICK v : v = RowOf("IN", m, q, {})
      OBVIOUS
  <2>3. v \in RowValues /\ row[r].kind = "NONE"
      BY <2>1, <2>2, <1>v DEF InKinds, Fresh, Exists
  <2>4. ASSUME NEW n \in Stones PROVE Covers(One(r, v), {}, n)
    <3>1. Signed(row[r], n) = 0
        BY <2>3, FreshSigned
    <3>2. Signed(v, n) = IF n = m THEN q ELSE 0
        BY <2>2 DEF Signed, RowOf, InKinds, OutKinds
    <3>3. Signed(v, n) - Signed(row[r], n) >= 0
        BY <1>q, <3>1, <3>2
    <3> QED
        BY <2>3, <3>3, OneCovers
  <2> QED
      BY <2>1, <2>2, <2>4
<1>2. CASE CreateOutbound(c)
  <2>1. PICK m \in Materials, q \in Qty, r \in Rows :
            /\ Fresh(r) /\ BalanceFree(m) /\ q <= OnHand(m) + 0 - Held(m)
            /\ WriteRows(c, One(r, RowOf("OUT", m, q, {})), {m})
      BY <1>2 DEF CreateOutbound, EnoughStock
  <2>2. PICK v : v = RowOf("OUT", m, q, {})
      OBVIOUS
  <2>3. v \in RowValues /\ row[r].kind = "NONE"
      BY <2>1, <2>2, <1>v DEF OutKinds, Fresh, Exists
  <2>4. ASSUME NEW n \in Stones PROVE Covers(One(r, v), {m}, n)
    <3>1. Signed(row[r], n) = 0
        BY <2>3, FreshSigned
    <3>2. Signed(v, n) = IF n = m THEN -q ELSE 0
        BY <2>2 DEF Signed, RowOf, InKinds, OutKinds
    <3>3. CASE n = m
      <4>1. Signed(v, n) - Signed(row[r], n) = -q
          BY <1>q, <3>1, <3>2, <3>3
      <4>2. Held(n) <= OnHand(n) + (-q)
          BY <1>n, <1>q, <2>1, <3>3
      <4> QED
          BY <2>3, <3>3, <4>1, <4>2, OneCovers
    <3>4. CASE n # m
        BY <2>3, <3>1, <3>2, <3>4, OneCovers
    <3> QED
        BY <3>3, <3>4
  <2> QED
      BY <2>1, <2>2, <2>4
<1>3. CASE Transfer(c)
  <2>1. PICK m, to \in Materials, q \in Qty, r, s \in Rows :
            /\ m # to /\ r # s /\ Fresh(r) /\ Fresh(s) /\ BalanceFree(m) /\ q <= OnHand(m) + 0 - Held(m)
            /\ WriteRows(c, Two(r, RowOf("OUT", m, q, {s}), s, RowOf("TRANSFER_IN", to, q, {r})), {m})
      BY <1>3 DEF Transfer, EnoughStock
  <2>2. PICK v, w : v = RowOf("OUT", m, q, {s}) /\ w = RowOf("TRANSFER_IN", to, q, {r})
      OBVIOUS
  <2>3. v \in RowValues /\ w \in RowValues /\ row[r].kind = "NONE" /\ row[s].kind = "NONE"
      BY <2>1, <2>2, <1>v DEF InKinds, OutKinds, Fresh, Exists
  <2>4. PICK f : f = Two(r, v, s, w)
      OBVIOUS
  <2>5. DOMAIN f = {r, s} /\ f[r] = v /\ f[s] = w
      BY <2>1, <2>4 DEF Two
  <2>6. ASSUME NEW n \in Stones PROVE Covers(f, {m}, n)
    <3>1. Signed(row[r], n) = 0 /\ Signed(row[s], n) = 0
        BY <2>3, FreshSigned
    <3>2. Signed(v, n) = (IF n = m THEN -q ELSE 0) /\ Signed(w, n) = (IF n = to THEN q ELSE 0)
        BY <2>2 DEF Signed, RowOf, InKinds, OutKinds
    <3>3. Part(f, r, n) = (IF n = m THEN -q ELSE 0) /\ Part(f, s, n) = (IF n = to THEN q ELSE 0)
          /\ \A x \in AllRows : x # r /\ x # s => Part(f, x, n) = 0
        BY <1>q, <2>5, <3>1, <3>2 DEF Part
    <3>4. r \in AllRows /\ s \in AllRows
          /\ \A x \in AllRows : row[x] \in RowValues /\ (x \in DOMAIN f => f[x] \in RowValues)
        BY <2>3, <2>5, RowsTyped DEF AllRows
    <3>5. CASE n = m
      <4>1. \A x \in AllRows : x # r => Part(f, x, n) = 0
          BY <2>1, <3>3, <3>5
      <4>2. Change(f, n) = -q
          BY <3>3, <3>4, <3>5, <4>1, ChangeOfOne
      <4>3. Held(n) <= OnHand(n) + (-q)
          BY <1>n, <1>q, <2>1, <3>5
      <4> QED
          BY <3>5, <4>2, <4>3 DEF Covers
    <3>6. CASE n # m
      <4>1. \A x \in AllRows : x # s => Part(f, x, n) = 0
          BY <3>3, <3>6
      <4>2. Change(f, n) = Part(f, s, n)
          BY <3>4, <4>1, ChangeOfOne
      <4>3. Change(f, n) >= 0
          BY <1>q, <3>3, <4>2
      <4> QED
          BY <4>3 DEF Covers
    <3> QED
        BY <3>5, <3>6
  <2> QED
      BY <2>1, <2>2, <2>4, <2>6
<1>4. CASE UpdateOutbound(c)
  <2>1. PICK r \in Rows, q \in Qty :
            /\ Exists(r, {"OUT"}) /\ row[r].pair = {}
            /\ BalanceFree(row[r].mat) /\ q <= OnHand(row[r].mat) + row[r].qty - Held(row[r].mat)
            /\ WriteRows(c, WithPair(r, [row[r] EXCEPT !.qty = q],
                             [x \in row[r].pair |-> [row[x] EXCEPT !.qty = q]]), {row[r].mat})
      BY <1>4 DEF UpdateOutbound, EnoughStock
  <2>2. PICK v, m : v = [row[r] EXCEPT !.qty = q] /\ m = row[r].mat
      OBVIOUS
  <2>3. row[r] \in FullRow /\ row[r].kind = "OUT"
      BY <2>1 DEF Exists, RowInv, RowOK, NoRow, Gone
  <2>4. v \in RowValues /\ v.kind = "OUT" /\ v.mat = m /\ v.qty = q /\ row[r].qty \in Nat
      BY <1>q, <2>2, <2>3 DEF FullRow, RowValues
  <2>5. WithPair(r, v, [x \in row[r].pair |-> [row[x] EXCEPT !.qty = q]]) = One(r, v)
      BY <2>1 DEF WithPair, One
  <2>6. ASSUME NEW n \in Stones PROVE Covers(One(r, v), {m}, n)
    <3>1. /\ Signed(row[r], n) = IF n = m THEN -row[r].qty ELSE 0
          /\ Signed(v, n) = IF n = m THEN -q ELSE 0
        BY <2>2, <2>3, <2>4 DEF Signed, InKinds, OutKinds
    <3>2. CASE n = m
      <4>1. Held(n) <= OnHand(n) + (-q - (-row[r].qty))
          BY <1>n, <1>q, <2>1, <2>2, <2>4, <3>2
      <4> QED
          BY <2>4, <3>1, <3>2, <4>1, OneCovers
    <3>3. CASE n # m
        BY <2>4, <3>1, <3>3, OneCovers
    <3> QED
        BY <3>2, <3>3
  <2> QED
      BY <2>1, <2>2, <2>5, <2>6
<1>5. CASE RevokeAutoInbounds(c)
  <2>1. PICK r \in Rows : Exists(r, {"AUTO_IN"}) /\ WriteRows(c, One(r, Gone), {})
      BY <1>5 DEF RevokeAutoInbounds
  <2>2. row[r].mat \in Metals
      BY <2>1 DEF Exists, RowInv, RowOK, NoRow, Gone
  <2>3. ASSUME NEW n \in Stones PROVE Covers(One(r, Gone), {}, n)
    <3>1. Signed(row[r], n) = 0 /\ Signed(Gone, n) = 0 /\ Gone \in RowValues
        BY <2>2, DisjointAssumption DEF Signed, Gone, InKinds, OutKinds, RowValues
    <3> QED
        BY <3>1, OneCovers
  <2> QED
      BY <2>1, <2>3
<1>6. CASE IssueStock(c)
  <2>1. PICK m \in Metals, q \in Qty, r \in Rows :
            Fresh(r) /\ WriteRows(c, One(r, RowOf("AUTO_OUT", m, q, {})), {})
      BY <1>6 DEF IssueStock
  <2>2. PICK v : v = RowOf("AUTO_OUT", m, q, {})
      OBVIOUS
  <2>3. v \in RowValues /\ row[r].kind = "NONE"
      BY <2>1, <2>2, <1>v DEF OutKinds, Fresh, Exists, Materials
  <2>4. ASSUME NEW n \in Stones PROVE Covers(One(r, v), {}, n)
    <3>1. Signed(row[r], n) = 0
        BY <2>3, FreshSigned
    <3>2. Signed(v, n) = 0
        BY <2>2, DisjointAssumption DEF Signed, RowOf, InKinds, OutKinds
    <3> QED
        BY <2>3, <3>1, <3>2, OneCovers
  <2> QED
      BY <2>1, <2>2, <2>4
<1> QED
    BY <1>0, <1>1, <1>2, <1>3, <1>4, <1>5, <1>6

LEMMA MovementStock ==
    ASSUME RowInv, PlaceInv, StockInv, Corrections = FALSE, NEW c \in Clients,
           \/ CreateInbound(c) \/ CreateOutbound(c) \/ Transfer(c) \/ UpdateOutbound(c)
           \/ DeleteOutbound(c) \/ UpdateInbound(c) \/ DeleteInbound(c) \/ UpdateStock(c)
           \/ RevokeAutoInbounds(c) \/ IssueStock(c)
    PROVE  StockInv' /\ \A m \in Stones : Moves(m)
<1>1. PICK f, l : WriteRows(c, f, l) /\ (\A m \in l : BalanceFree(m)) /\ \A m \in Stones : Covers(f, l, m)
    BY MovementCovers
<1>2. PICK v : v = Tx("stock", f, <<>>, l, {})
    OBVIOUS
<1>3. req' = [req EXCEPT ![c] = v] /\ UNCHANGED <<store, stage>>
    BY <1>1, <1>2 DEF WriteRows, StockTx, Begin, Tx
<1>4. v.op = "stock" /\ v.rows = f /\ v.locked = l /\ DOMAIN v.opening = {}
    BY <1>2 DEF Tx
<1> QED
    BY <1>1, <1>3, <1>4, StockBegins

LEMMA AskStock ==
    ASSUME RowInv, PlaceInv, HoldInv, StockInv, NEW c \in Clients, NEW t \in Tickets, NEW ws,
           At(t, {"idle", "working"}), AskHold(c, t, ws)
    PROVE  StockInv' /\ \A m \in Stones : Moves(m)
<1>1. PICK h \in Holds, m \in Stones, q \in Qty :
          /\ BalanceFree(m) /\ q <= OnHand(m) - HeldBy(Holds \ PendingHolds(t), m)
          /\ Begin(c, [op |-> "hold", hold |-> h, mat |-> m, qty |-> q, ticket |-> t, wish |-> ws])
    BY DEF AskHold
<1>2. PendingHolds(t) = {}
  <2> SUFFICES ASSUME NEW k \in Holds, hold[k].state = "HELD", hold[k].ticket = t, ~hold[k].entry PROVE FALSE
      BY DEF PendingHolds, HoldsOf
  <2>1. Full(k)
      BY DEF HoldInv, StageOK, HoldGood, NoHold, Deleted
  <2> QED
      BY <2>1 DEF HoldInv, StageOK, HoldOwned, At
<1>3. HeldBy(Holds \ PendingHolds(t), m) = Held(m)
  <2>1. Holds \ PendingHolds(t) = Holds
      BY <1>2
  <2> QED
      BY <2>1 DEF Held
<1>4. OnHand(m) \in Int /\ Held(m) \in Nat /\ q \in Nat
    BY Numbers, QtyAssumption DEF Qty
<1>5. PICK v : v = [op |-> "hold", hold |-> h, mat |-> m, qty |-> q, ticket |-> t, wish |-> ws]
    OBVIOUS
<1>6. v.op = "hold" /\ v.mat = m /\ v.qty = q
    BY <1>5
<1>7. v.qty + Held(v.mat) <= OnHand(v.mat)
    BY <1>1, <1>3, <1>4, <1>6
<1>8. req' = [req EXCEPT ![c] = v] /\ UNCHANGED <<store, stage>>
    BY <1>1, <1>5 DEF Begin
<1> QED
    BY <1>1, <1>6, <1>7, <1>8, StockBegins

LEMMA ConsumeStock ==
    ASSUME RowInv, PlaceInv, StockInv, NEW c \in Clients, ConsumeStoneHolds(c)
    PROVE  StockInv' /\ \A m \in Stones : Moves(m)
<1>1. PICK f, ts : StockTx(c, "consume", f, <<>>, {}, ts)
    BY DEF ConsumeStoneHolds
<1>2. PICK v : v = Tx("consume", f, <<>>, {}, ts)
    OBVIOUS
<1>3. req' = [req EXCEPT ![c] = v] /\ UNCHANGED <<store, stage>>
    BY <1>1, <1>2 DEF StockTx, Begin, Tx
<1>4. v.op = "consume" /\ v.locked = {} /\ DOMAIN v.opening = {}
    BY <1>2 DEF Tx
<1> QED
    BY <1>3, <1>4, StockBegins

LEMMA RecomputeStock ==
    ASSUME RowInv, PlaceInv, StockInv, NEW c \in Clients, Recompute(c)
    PROVE  StockInv' /\ \A m \in Stones : Moves(m)
<1>1. InTx(c) /\ UNCHANGED <<store, stage>> /\ \A m \in Twice(c) \ req[c].locked : BalanceFree(m)
    BY DEF Recompute
<1>2. PICK v : /\ req' = [req EXCEPT ![c] = v]
               /\ v = [req[c] EXCEPT !.summed = TRUE, !.locked = @ \cup Twice(c),
                           !.sum = [m \in Materials |-> NetOf(OpeningAfter(c), RowsAfter(c), m)]]
    BY DEF Recompute
<1>3. InStock(c) \/ InConsume(c)
    BY <1>1 DEF InTx, RowInv, InHold, Idle
<1>4. /\ DOMAIN v = TxFields /\ v.op = req[c].op /\ v.rows = req[c].rows /\ v.opening = req[c].opening
      /\ v.locked = req[c].locked \cup Twice(c)
    BY <1>2, <1>3 DEF InStock, InConsume, TxFields
<1>5. \A m \in v.locked : m \in Locks(c) \/ BalanceFree(m)
    BY <1>1, <1>4 DEF Locks
<1>6. DOMAIN v.opening = {}
    BY <1>1, <1>4 DEF StockInv
<1>7. v.op = "stock" => \A m \in Stones : Covers(v.rows, v.locked, m)
  <2> SUFFICES ASSUME v.op = "stock", NEW m \in Stones PROVE Covers(v.rows, v.locked, m)
      OBVIOUS
  <2>1. InStock(c)
      BY <1>3, <1>4 DEF InConsume
  <2>2. Covers(req[c].rows, req[c].locked, m)
      BY <2>1 DEF StockInv
  <2>3. Change(v.rows, m) = Change(req[c].rows, m)
      BY <1>4
  <2> QED
      BY <1>4, <2>2, <2>3 DEF Covers
<1>8. v.op # "hold"
    BY <1>1, <1>4 DEF InTx
<1> QED
    BY <1>1, <1>2, <1>5, <1>6, <1>7, <1>8, StockBegins

LEMMA FailStock ==
    ASSUME RowInv, PlaceInv, StockInv, NEW c \in Clients, Fail(c)
    PROVE  StockInv' /\ \A m \in Stones : Moves(m)
<1>1. req' = [req EXCEPT ![c] = Idle] /\ UNCHANGED <<store, stage>>
    BY DEF Fail
<1>2. Idle.op \notin {"stock", "consume", "hold"}
    BY DEF Idle
<1> QED
    BY <1>1, <1>2, StockBegins

LEMMA CommitStock ==
    ASSUME RowInv, PlaceInv, StockInv, RowInv', PlaceInv', NEW c \in Clients, Commit(c)
    PROVE  StockInv' /\ \A m \in Stones : Moves(m)
<1>1. InStock(c) /\ InTx(c)
    BY DEF Commit, RowInv, InHold, InConsume, InTx, Idle
<1>2. PICK f, l : f = req[c].rows /\ l = req[c].locked
    OBVIOUS
<1>3. /\ opening' = OpeningAfter(c) /\ row' = Written(row, f) /\ draft' = draft
      /\ req'[c] = Idle /\ \A d \in Clients : d # c => req'[d] = req[d]
    BY <1>2 DEF Commit, WriteStore, RowsAfter, stage, RowInv
<1>4. \A r \in AllRows : row[r] \in RowValues /\ (r \in DOMAIN f => f[r] \in RowValues)
    BY <1>1, <1>2, RowsTyped, TxFollows
<1>5. \A m \in Stones : OnHand(m) \in Int /\ Held(m) \in Nat /\ Change(f, m) \in Int
    BY <1>4, Numbers, ChangeIsInt
<1>6. ASSUME NEW m \in Stones
      PROVE  OnHand(m)' = OnHand(m) + Change(f, m) /\ Held(m)' = Held(m)
  <2>1. m \in Materials /\ opening[m] \in Int
      BY DEF Materials, PlaceInv
  <2>2. OpeningAfter(c)[m] = opening[m]
      BY <1>1, <2>1 DEF OpeningAfter, StockInv
  <2>3. NetOf(OpeningAfter(c), Written(row, f), m) = OnHand(m) + Change(f, m)
      BY <1>4, <2>1, <2>2, WrittenNet
  <2>4. OnHand(m)' = NetOf(OpeningAfter(c), Written(row, f), m)
      BY <1>3, HeldIs
  <2>5. Held(m)' = Held(m)
      BY <1>3, HeldIs
  <2> QED
      BY <2>3, <2>4, <2>5
<1>7. \A m \in Stones : Covers(f, l, m) /\ (m \in l => m \in Locks(c))
    BY <1>1, <1>2 DEF StockInv, Locks
<1>8. \A m \in Stones : Moves(m)
  <2> SUFFICES ASSUME NEW m \in Stones PROVE Moves(m)
      OBVIOUS
  <2>1. CASE Change(f, m) >= 0
      BY <1>5, <1>6, <2>1 DEF Moves
  <2>2. CASE Change(f, m) < 0
    <3>1. Held(m) <= OnHand(m) + Change(f, m)
        BY <1>5, <1>7, <2>2 DEF Covers
    <3>2. OnHand(m)' < OnHand(m) /\ OnHand(m) - OnHand(m)' <= OnHand(m) - Held(m)
        BY <1>5, <1>6, <2>2, <3>1
    <3> QED
        BY <1>6, <3>2 DEF Moves
  <2> QED
      BY <1>5, <2>1, <2>2
<1>9. \A m \in Stones : Frees(m) \/ \A d \in Clients : req'[d] = req[d] => m \notin Locks(d)
  <2> SUFFICES ASSUME NEW m \in Stones
               PROVE  Frees(m) \/ \A d \in Clients : req'[d] = req[d] => m \notin Locks(d)
      OBVIOUS
  <2>1. CASE Change(f, m) >= 0
      BY <1>5, <1>6, <2>1 DEF Frees
  <2>2. CASE Change(f, m) < 0
    <3>1. m \in Locks(c)
        BY <1>5, <1>7, <2>2 DEF Covers
    <3>2. req'[c] # req[c]
        BY <1>1, <1>3 DEF InStock, Idle
    <3> QED
        BY <3>1, <3>2 DEF StockInv
  <2> QED
      BY <1>5, <2>1, <2>2
<1>10. ASSUME NEW d \in Clients, d # c, InStock(d), NEW r \in DOMAIN req[d].rows
       PROVE  row'[r] = row[r]
  <2>1. r \in AllRows
      BY <1>10, TxFollows DEF InStock, InTx
  <2>2. r \notin DOMAIN f
      BY <1>1, <1>2, <1>10 DEF RowInv
  <2> QED
      BY <1>3, <2>1, <2>2 DEF Written
<1>11. \A d \in Clients : \/ req'[d] = Idle
                          \/ req'[d] = req[d] /\ (InStock(d) => \A r \in DOMAIN req[d].rows : row'[r] = row[r])
    BY <1>3, <1>10
<1> QED
    BY <1>8, <1>9, <1>11, StockFrom

LEMMA AutoInboundStock ==
    ASSUME RowInv, PlaceInv, StockInv, RowInv', PlaceInv', NEW c \in Clients, CreateAutoInbound(c)
    PROVE  StockInv' /\ \A m \in Stones : Moves(m)
<1>1. PICK n \in Metals, q \in Qty, r \in Rows :
          /\ Fresh(r) /\ row' = [row EXCEPT ![r] = RowOf("AUTO_IN", n, q, {})]
          /\ opening' = opening /\ req' = req /\ draft' = draft
    BY DEF CreateAutoInbound, stage
<1>2. row[r].kind = "NONE" /\ row'[r] = RowOf("AUTO_IN", n, q, {})
      /\ \A x \in AllRows : x # r => row'[x] = row[x]
    BY <1>1 DEF Fresh, Exists, RowInv, AllRows
<1>3. ASSUME NEW m \in Stones PROVE OnHand(m)' = OnHand(m) /\ Held(m)' = Held(m)
  <2>1. Signed(row[r], m) = 0
      BY <1>2, FreshSigned
  <2>2. Signed(row'[r], m) = 0
      BY <1>2, DisjointAssumption DEF Signed, RowOf, InKinds, OutKinds
  <2>3. PICK was, now : was = row /\ now = row'
      OBVIOUS
  <2>4. \A x \in AllRows : Signed(now[x], m) = Signed(was[x], m)
    <3>1. \A x \in AllRows : x # r => now[x] = was[x]
        BY <1>2, <2>3
    <3>2. Signed(now[r], m) = Signed(was[r], m)
        BY <2>1, <2>2, <2>3
    <3> QED
        BY <3>1, <3>2
  <2>5. NetOf(opening, now, m) = NetOf(opening, was, m)
      BY <2>4, NetSame
  <2>6. OnHand(m)' = NetOf(opening, now, m) /\ OnHand(m) = NetOf(opening, was, m)
      BY <1>1, <2>3, HeldIs
  <2>7. Held(m)' = Held(m)
      BY <1>1, HeldIs
  <2> QED
      BY <2>5, <2>6, <2>7
<1>4. \A m \in Stones : Moves(m) /\ Frees(m)
    BY <1>3, Numbers DEF Moves, Frees
<1>5. ASSUME NEW d \in Clients, InStock(d), NEW x \in DOMAIN req[d].rows
      PROVE  row'[x] = row[x]
  <2>1. x \in AllRows
      BY <1>5, TxFollows DEF InStock, InTx
  <2>2. x # r
      BY <1>1, <1>5 DEF Fresh, RowsFree, InStock, InTx
  <2> QED
      BY <1>2, <2>1, <2>2
<1>6. \A d \in Clients : \/ req'[d] = Idle
                         \/ req'[d] = req[d] /\ (InStock(d) => \A x \in DOMAIN req[d].rows : row'[x] = row[x])
    BY <1>1, <1>5
<1> QED
    BY <1>4, <1>6, StockFrom

(* The stones asked for are promised.                                      *)
LEMMA PromiseStock ==
    ASSUME RowInv, PlaceInv, StockInv, RowInv', PlaceInv', NEW c \in Clients, InHold(c),
           NEW k, k = req[c].hold, draft'[k] = NewDraft(req[c]), UNCHANGED store,
           \A h \in Holds : h # k => draft'[h] = draft[h],
           req' = [req EXCEPT ![c] = Idle]
    PROVE  StockInv' /\ \A m \in Stones : Moves(m)
<1>1. PICK n, q : n = req[c].mat /\ q = req[c].qty
    OBVIOUS
<1>2. k \in Holds /\ q \in Qty /\ n \in Stones /\ hold[k] = NoHold
    BY <1>1 DEF PlaceInv, InHold, RequestOK, Idle
<1>3. q \in Nat /\ q > 0
    BY <1>2, QtyAssumption DEF Qty
<1>4. draft[k] = NoDraft
    BY <1>2 DEF PlaceInv, StageTyped, Placed
<1>5. PICK old, new : old = draft /\ new = draft'
    OBVIOUS
<1>6. \A h \in Holds : old[h] \in DraftValues /\ new[h] \in DraftValues
    BY <1>5 DEF PlaceInv, StageTyped, Placed
<1>7. opening' = opening /\ row' = row
    BY DEF store
<1>8. ASSUME NEW m \in Stones
      PROVE  OnHand(m)' = OnHand(m) /\ Held(m)' = Held(m) + (IF m = n THEN q ELSE 0)
  <2>1. \A h \in Holds : h # k => new[h] = old[h]
      BY <1>5
  <2>2. HeldIn(new, m) = HeldIn(old, m) - PromisedIn(old, k, m) + PromisedIn(new, k, m)
      BY <1>2, <1>6, <2>1, HeldOneMore
  <2>3. PromisedIn(old, k, m) = 0
      BY <1>4, <1>5 DEF PromisedIn, NoDraft
  <2>4. PromisedIn(new, k, m) = IF m = n THEN q ELSE 0
      BY <1>1, <1>5 DEF PromisedIn, NewDraft
  <2>5. OnHand(m)' = OnHand(m) /\ Held(m) = HeldIn(old, m) /\ Held(m)' = HeldIn(new, m)
      BY <1>5, <1>7, HeldIs
  <2>6. Held(m) \in Nat
      BY Numbers
  <2>7. HeldIn(new, m) = HeldIn(old, m) + (IF m = n THEN q ELSE 0)
      BY <1>3, <2>2, <2>3, <2>4, <2>5, <2>6
  <2> QED
      BY <2>5, <2>7
<1>9. q + Held(n) <= OnHand(n)
    BY <1>1 DEF StockInv
<1>10. req'[c] = Idle /\ \A d \in Clients : d # c => req'[d] = req[d]
    BY DEF RowInv
<1>11. \A m \in Stones : Moves(m)
    BY <1>3, <1>8, <1>9, Numbers DEF Moves
<1>12. \A m \in Stones : Frees(m) \/ \A d \in Clients : req'[d] = req[d] => m \notin Locks(d)
  <2>1. \A m \in Stones : m # n => Frees(m)
      BY <1>8, Numbers DEF Frees
  <2>2. n \in Locks(c)
      BY <1>1 DEF Locks, InTx, InHold
  <2>3. req'[c] # req[c]
      BY <1>10 DEF InHold, Idle
  <2> QED
      BY <2>1, <2>2, <2>3 DEF StockInv
<1>13. \A d \in Clients : \/ req'[d] = Idle
                          \/ req'[d] = req[d] /\ (InStock(d) => \A x \in DOMAIN req[d].rows : row'[x] = row[x])
    BY <1>7, <1>10
<1> QED
    BY <1>11, <1>12, <1>13, StockFrom

LEMMA AssignStock ==
    ASSUME RowInv, PlaceInv, HoldInv, StockInv, RowInv', PlaceInv', NEW c \in Clients, AssignSave(c)
    PROVE  StockInv' /\ \A m \in Stones : Moves(m)
<1>1. PICK k, t : k = req[c].hold /\ t = req[c].ticket
    OBVIOUS
<1>2. /\ InHold(c) /\ req[c].wish = {} /\ draft' = [Voided(PendingHolds(t)) EXCEPT ![k] = NewDraft(req[c])]
      /\ req' = [req EXCEPT ![c] = Idle] /\ UNCHANGED store
    BY <1>1 DEF AssignSave, InHold
<1>3. k \in Holds /\ t \in Tickets /\ ticket[t].phase = "idle"
    BY <1>1, <1>2 DEF HoldInv, Asked
<1>4. PendingHolds(t) = {}
  <2> SUFFICES ASSUME NEW h \in Holds, hold[h].state = "HELD", hold[h].ticket = t PROVE FALSE
      BY DEF PendingHolds, HoldsOf
  <2>1. Full(h)
      BY DEF HoldInv, StageOK, HoldGood, NoHold, Deleted
  <2> QED
      BY <1>3, <2>1 DEF HoldInv, StageOK, HoldOwned
<1>5. draft'[k] = NewDraft(req[c]) /\ \A h \in Holds : h # k => draft'[h] = draft[h]
    BY <1>2, <1>3, <1>4 DEF Voided
<1> QED
    BY <1>1, <1>2, <1>5, PromiseStock

LEMMA IssueStoneStock ==
    ASSUME RowInv, PlaceInv, StockInv, RowInv', PlaceInv', NEW c \in Clients, IssueWishSave(c)
    PROVE  StockInv' /\ \A m \in Stones : Moves(m)
<1>1. PICK k : k = req[c].hold
    OBVIOUS
<1>2. /\ InHold(c) /\ draft' = [draft EXCEPT ![k] = NewDraft(req[c])]
      /\ req' = [req EXCEPT ![c] = Idle] /\ UNCHANGED store
    BY <1>1 DEF IssueWishSave, InHold
<1>3. k \in Holds
    BY <1>1, <1>2 DEF PlaceInv, InHold, RequestOK, Idle
<1>5. draft'[k] = NewDraft(req[c]) /\ \A h \in Holds : h # k => draft'[h] = draft[h]
    BY <1>2, <1>3 DEF PlaceInv, StageTyped
<1> QED
    BY <1>1, <1>2, <1>5, PromiseStock

(* Production gives back, or changes nothing the store knows of.           *)
LEMMA QuietStock ==
    ASSUME RowInv, PlaceInv, StockInv, RowInv', PlaceInv', UNCHANGED store, req' = req,
           \A h \in Holds : draft'[h] = draft[h] \/ draft'[h].state # "DRAFT"
                            \/ (draft[h].state = "DRAFT" /\ draft'[h].mat = draft[h].mat
                                /\ draft'[h].qty <= draft[h].qty)
    PROVE  StockInv' /\ \A m \in Stones : Moves(m)
<1>1. PICK old, new : old = draft /\ new = draft'
    OBVIOUS
<1>2. \A h \in Holds : old[h] \in DraftValues /\ new[h] \in DraftValues
    BY <1>1 DEF PlaceInv, StageTyped, Placed
<1>3. opening' = opening /\ row' = row
    BY DEF store
<1>4. ASSUME NEW m \in Stones
      PROVE  OnHand(m)' = OnHand(m) /\ Held(m)' <= Held(m)
  <2>1. ASSUME NEW h \in Holds PROVE PromisedIn(new, h, m) <= PromisedIn(old, h, m)
    <3>1. PromisedIn(new, h, m) \in Nat /\ PromisedIn(old, h, m) \in Nat
        BY <1>2, PromisedIsNat
    <3>2. CASE new[h] = old[h] \/ new[h].state # "DRAFT"
        BY <3>1, <3>2 DEF PromisedIn
    <3>3. CASE new[h].state = "DRAFT" /\ old[h].state = "DRAFT" /\ new[h].mat = old[h].mat /\ new[h].qty <= old[h].qty
        BY <3>1, <3>3 DEF PromisedIn
    <3> QED
        BY <1>1, <3>2, <3>3
  <2>2. HeldIn(new, m) <= HeldIn(old, m)
      BY <1>2, <2>1, HeldNotMore
  <2>3. OnHand(m)' = OnHand(m) /\ Held(m) = HeldIn(old, m) /\ Held(m)' = HeldIn(new, m)
      BY <1>1, <1>3, HeldIs
  <2> QED
      BY <2>2, <2>3
<1>5. \A m \in Stones : Moves(m) /\ Frees(m)
    BY <1>4, Numbers, NumbersNext DEF Moves, Frees
<1>6. \A d \in Clients : req'[d] = req[d] /\ \A x \in DOMAIN req[d].rows : row'[x] = row[x]
    BY <1>3
<1> QED
    BY <1>5, <1>6, StockFrom

LEMMA QuietStepStock ==
    ASSUME RowInv, PlaceInv, HoldInv, StockInv, RowInv', PlaceInv',
           \/ Unclaim \/ CancelPending \/ Accept \/ Remove \/ SetOutcome \/ ClearSplit \/ ChangeStatus
           \/ RemoveOrder \/ CreateWish \/ EndWish \/ ReturnStoneEarly \/ ReturnStage
    PROVE  StockInv' /\ \A m \in Stones : Moves(m)
<1>1. req' = req /\ UNCHANGED store
    BY DEF Unclaim, CancelPending, Accept, Remove, SetOutcome, ClearSplit, ChangeStatus, RemoveOrder,
           CreateWish, EndWish, ReturnStoneEarly, ReturnStage, DeleteTickets
<1>2. CASE \/ Unclaim \/ Accept \/ SetOutcome \/ ClearSplit \/ ChangeStatus \/ RemoveOrder \/ CreateWish
           \/ EndWish \/ ReturnStage
  <2>1. draft' = draft
      BY <1>2 DEF Unclaim, Accept, SetOutcome, ClearSplit, ChangeStatus, RemoveOrder, CreateWish, EndWish, ReturnStage
  <2> QED
      BY <1>1, <2>1, QuietStock
<1>3. CASE CancelPending \/ Remove
  <2>1. PICK t : draft' = Voided(PendingHolds(t))
      BY <1>3 DEF CancelPending, Remove, ReleasePendingHolds
  <2>2. ASSUME NEW h \in Holds PROVE draft'[h] = draft[h] \/ draft'[h].state # "DRAFT"
    <3>1. draft'[h] = draft[h] \/ (draft[h].state = "DRAFT" /\ draft'[h] = [draft[h] EXCEPT !.state = "VOID"])
        BY <2>1 DEF Voided, Open
    <3>2. draft[h] \in DraftValues
        BY DEF PlaceInv, StageTyped, Placed
    <3> QED
        BY <3>1, <3>2 DEF DraftValues, NoDraft
  <2> QED
      BY <1>1, <2>2, QuietStock
<1>4. CASE ReturnStoneEarly
  <2>1. PICK t \in Tickets, k \in Holds : /\ k \in EntryHolds(t)
            /\ \E back \in Bag(k) :
                   LET kept == hold[k].qty - back
                       end == kept = 0
                   IN  draft' = [draft EXCEPT ![k].qty = kept, ![k].state = IF end THEN "VOID" ELSE @]
      BY <1>4 DEF ReturnStoneEarly
  <2>2. PICK back \in Bag(k) :
            LET kept == hold[k].qty - back
                end == kept = 0
            IN  draft' = [draft EXCEPT ![k].qty = kept, ![k].state = IF end THEN "VOID" ELSE @]
      BY <2>1
  <2>3. PICK kept, d : kept = hold[k].qty - back /\ d = draft[k]
      OBVIOUS
  <2>4. hold[k].state = "HELD" /\ HoldGood(k)
      BY <2>1 DEF EntryHolds, HoldsOf, HoldInv, StageOK
  <2>5. /\ d \in DraftValues /\ d.state = "DRAFT" /\ d.qty = hold[k].qty /\ hold[k].qty \in Nat
      BY <2>3, <2>4 DEF HoldGood, Full, FullHold, NoHold, Deleted
  <2>6. kept <= d.qty
      BY <2>3, <2>5 DEF Bag
  <2>7. /\ draft'[k] = [d EXCEPT !.qty = kept, !.state = IF kept = 0 THEN "VOID" ELSE @]
        /\ \A h \in Holds : h # k => draft'[h] = draft[h]
      BY <2>2, <2>3 DEF PlaceInv, StageTyped
  <2>8. draft'[k].mat = d.mat /\ draft'[k].qty = kept
      BY <2>5, <2>7 DEF DraftValues, NoDraft
  <2>9. draft[k].state = "DRAFT" /\ draft'[k].mat = draft[k].mat /\ draft'[k].qty <= draft[k].qty
      BY <2>3, <2>5, <2>6, <2>8
  <2> QED
      BY <1>1, <2>7, <2>9, QuietStock
<1> QED
    BY <1>2, <1>3, <1>4

(* What the setter kept was promised to him; the rest is free again.       *)
LEMMA ConfirmStock ==
    ASSUME RowInv, PlaceInv, HoldInv, StockInv, RowInv', PlaceInv', NEW c \in Clients, ConfirmSave(c)
    PROVE  StockInv' /\ \A m \in Stones : Moves(m)
<1>1. PICK f : f = req[c].rows
    OBVIOUS
<1>2. InConsume(c) /\ InTx(c) /\ Taking(f) /\ Confirming(c) /\ DOMAIN f \subseteq Holds
    BY <1>1 DEF ConfirmSave, RowInv, PlaceInv, HoldInv, InHold, InStock, InConsume, InTx, Idle
<1>3. PICK t :
          /\ opening' = OpeningAfter(c) /\ row' = Written(row, f)
          /\ draft' = [h \in Holds |->
                 IF h \in DOMAIN f THEN [draft[h] EXCEPT !.state = "POSTED"]
                 ELSE IF h \in EntryHolds(t) THEN [draft[h] EXCEPT !.state = "VOID"] ELSE draft[h]]
          /\ req'[c] = Idle /\ \A d \in Clients : d # c => req'[d] = req[d]
    BY <1>1 DEF ConfirmSave, WriteStore, RowsAfter, RowInv
<1>4. \A r \in AllRows : row[r] \in RowValues /\ (r \in DOMAIN f => f[r] \in RowValues)
    BY <1>1, <1>2, RowsTyped, TxFollows
<1>5. PICK old, new : old = draft /\ new = draft'
    OBVIOUS
<1>6. \A h \in Holds : old[h] \in DraftValues /\ new[h] \in DraftValues
    BY <1>5 DEF PlaceInv, StageTyped, Placed
<1>7. ASSUME NEW h \in Holds, NEW m \in Stones
      PROVE  /\ Part(f, h, m) \in Int /\ Part(f, h, m) <= 0
             /\ PromisedIn(new, h, m) <= PromisedIn(old, h, m) + Part(f, h, m)
  <2>1. PromisedIn(new, h, m) \in Nat /\ PromisedIn(old, h, m) \in Nat
      BY <1>6, PromisedIsNat
  <2>2. CASE h \in DOMAIN f
    <3>1. Full(h) /\ hold[h].state = "HELD" /\ f[h].kind = "AUTO_OUT" /\ f[h].mat = draft[h].mat
        BY <1>2, <2>2 DEF Taking
    <3>2. HoldGood(h) /\ row[h] = NoRow
        BY <3>1 DEF HoldInv, StageOK, PlaceInv, StageTyped, Placed
    <3>3. draft[h].state = "DRAFT" /\ draft[h].qty = hold[h].qty
        BY <3>1, <3>2 DEF HoldGood
    <3>4. h \in AllRows /\ Signed(row[h], m) = 0
        BY <3>2 DEF AllRows, Signed, NoRow, InKinds, OutKinds
    <3>5. f[h].qty = hold[h].qty - hold[h].left /\ Used(h) > 0
        BY <1>1, <1>2, <2>2 DEF Confirming, UsedHolds
    <3>6. hold[h].qty \in Nat /\ hold[h].left \in Nat
        BY <3>1 DEF Full, FullHold
    <3>7. Signed(f[h], m) = IF draft[h].mat = m THEN -f[h].qty ELSE 0
        BY <3>1 DEF Signed, InKinds, OutKinds
    <3>8. Part(f, h, m) = IF draft[h].mat = m THEN -(hold[h].qty - hold[h].left) ELSE 0
        BY <2>2, <3>4, <3>5, <3>6, <3>7 DEF Part
    <3>9. PromisedIn(old, h, m) = IF draft[h].mat = m THEN hold[h].qty ELSE 0
        BY <1>5, <3>3 DEF PromisedIn
    <3>10. PromisedIn(new, h, m) = 0
      <4>1. new[h] = [draft[h] EXCEPT !.state = "POSTED"] /\ draft[h] \in DraftValues
          BY <1>3, <1>5, <1>6, <2>2
      <4>2. new[h].state # "DRAFT"
          BY <4>1 DEF DraftValues, NoDraft
      <4> QED
          BY <4>2 DEF PromisedIn
    <3>11. hold[h].qty - hold[h].left > 0
        BY <3>5 DEF Used
    <3> QED
        BY <3>6, <3>8, <3>9, <3>10, <3>11
  <2>3. CASE h \notin DOMAIN f
    <3>1. Part(f, h, m) = 0
        BY <2>3 DEF Part
    <3>2. new[h] = old[h] \/ new[h] = [old[h] EXCEPT !.state = "VOID"]
        BY <1>3, <1>5, <2>3
    <3>3. CASE new[h] = old[h]
        BY <2>1, <3>1, <3>3 DEF PromisedIn
    <3>4. CASE new[h] = [old[h] EXCEPT !.state = "VOID"]
      <4>1. new[h].state # "DRAFT"
          BY <1>6, <3>4 DEF DraftValues, NoDraft
      <4>2. PromisedIn(new, h, m) = 0
          BY <4>1 DEF PromisedIn
      <4> QED
          BY <2>1, <3>1, <4>2
    <3> QED
        BY <3>2, <3>3, <3>4
  <2> QED
      BY <2>2, <2>3
<1>8. ASSUME NEW m \in Stones
      PROVE  /\ OnHand(m)' = OnHand(m) + Change(f, m) /\ Change(f, m) \in Int /\ Change(f, m) <= 0
             /\ Held(m)' <= Held(m) + Change(f, m)
  <2>1. m \in Materials /\ opening[m] \in Int
      BY DEF Materials, PlaceInv
  <2>2. OpeningAfter(c)[m] = opening[m]
      BY <1>2, <2>1 DEF OpeningAfter, StockInv
  <2>3. NetOf(OpeningAfter(c), Written(row, f), m) = OnHand(m) + Change(f, m)
      BY <1>4, <2>1, <2>2, WrittenNet
  <2>4. OnHand(m)' = NetOf(OpeningAfter(c), Written(row, f), m)
      BY <1>3, HeldIs
  <2>5. Change(f, m) \in Int
      BY <1>4, ChangeIsInt
  <2> DEFINE part == [r \in AllRows |-> Part(f, r, m)]
             was == [h \in Holds |-> PromisedIn(old, h, m)]
             now == [h \in Holds |-> PromisedIn(new, h, m)]
             both == [h \in Holds |-> PromisedIn(old, h, m) + Part(f, h, m)]
  <2>6. \A r \in AllRows : part[r] \in Int /\ (r \notin Holds => part[r] = 0)
      BY <1>2, <1>4, PartIsInt DEF Part
  <2>7. \A h \in Holds : /\ was[h] \in Int /\ now[h] \in Int /\ part[h] \in Int /\ both[h] \in Int
                         /\ both[h] = was[h] + part[h] /\ now[h] <= both[h] /\ part[h] <= 0
      BY <1>6, <1>7, PromisedIsNat DEF AllRows
  <2>8. /\ Change(f, m) = SumFunctionOnSet(part, AllRows)
        /\ HeldIn(old, m) = SumFunctionOnSet(was, Holds) /\ HeldIn(new, m) = SumFunctionOnSet(now, Holds)
      BY DEF Change, HeldIn
  <2> DEFINE none == [h \in Holds |-> 0]
  <2>9. \A h \in Holds : none[h] = 0 /\ none[h] \in Int
      OBVIOUS
  <2> HIDE DEF part, was, now, both, none
  <2>10. SumFunctionOnSet(part, AllRows) = SumFunctionOnSet(part, Holds)
      BY <2>6, RowsAreFinite, SumWithoutZeros DEF AllRows
  <2>11. SumFunctionOnSet(both, Holds) = SumFunctionOnSet(was, Holds) + SumFunctionOnSet(part, Holds)
      BY <2>7, RowsAreFinite, SumOfBoth
  <2>12. SumFunctionOnSet(now, Holds) <= SumFunctionOnSet(both, Holds)
      BY <2>7, RowsAreFinite, SumNotMore
  <2>13. SumFunctionOnSet(part, Holds) <= SumFunctionOnSet(none, Holds) /\ SumFunctionOnSet(none, Holds) = 0
      BY <2>7, <2>9, RowsAreFinite, SumNotMore, SumOfZeros
  <2>14. Held(m) = HeldIn(old, m) /\ Held(m)' = HeldIn(new, m)
      BY <1>5, HeldIs
  <2> QED
      BY <2>3, <2>4, <2>5, <2>8, <2>10, <2>11, <2>12, <2>13, <2>14
<1>9. \A m \in Stones : OnHand(m) \in Int /\ Held(m) \in Nat /\ Held(m)' \in Nat /\ OnHand(m)' \in Int
    BY Numbers, NumbersNext
<1>10. \A m \in Stones : Moves(m) /\ Frees(m)
  <2> SUFFICES ASSUME NEW m \in Stones PROVE Moves(m) /\ Frees(m)
      OBVIOUS
  <2>1. Frees(m)
      BY <1>8, <1>9 DEF Frees
  <2>2. CASE Change(f, m) = 0
      BY <1>8, <1>9, <2>1, <2>2 DEF Moves
  <2>3. CASE Change(f, m) < 0
    <3>1. OnHand(m)' < OnHand(m) /\ OnHand(m) - OnHand(m)' <= Held(m) - Held(m)'
        BY <1>8, <1>9, <2>3
    <3> QED
        BY <2>1, <3>1 DEF Moves
  <2> QED
      BY <1>8, <2>1, <2>2, <2>3
<1>11. ASSUME NEW d \in Clients, InStock(d), NEW r \in DOMAIN req[d].rows
       PROVE  row'[r] = row[r]
  <2>1. r \in Rows
      BY <1>11 DEF RowInv, GoodRows
  <2>2. r \notin DOMAIN f
      BY <1>2, <2>1, DisjointAssumption
  <2> QED
      BY <1>3, <2>1, <2>2 DEF Written, AllRows
<1>12. \A d \in Clients : \/ req'[d] = Idle
                          \/ req'[d] = req[d] /\ (InStock(d) => \A r \in DOMAIN req[d].rows : row'[r] = row[r])
    BY <1>3, <1>11
<1> QED
    BY <1>10, <1>12, StockFrom

LEMMA StockInvNext ==
    ASSUME RowInv, PlaceInv, HoldInv, StockInv, RowInv', PlaceInv', Corrections = FALSE, [Next]_stones
    PROVE  StockInv' /\ \A m \in Stones : Moves(m)
<1>1. ASSUME NEW c \in Clients, StoreStep(c) PROVE StockInv' /\ \A m \in Stones : Moves(m)
    BY <1>1, MovementStock, AutoInboundStock, RecomputeStock, CommitStock, FailStock DEF StoreStep
<1>2. ASSUME NEW c \in Clients, StageStep(c) PROVE StockInv' /\ \A m \in Stones : Moves(m)
  <2>1. CASE Assign(c)
    <3>1. PICK t \in Tickets : At(t, {"idle", "working"}) /\ AskHold(c, t, {})
        BY <2>1 DEF Assign, At
    <3> QED
        BY <3>1, AskStock
  <2>2. CASE IssueWish(c)
    <3>1. PICK w \in Wishes : \E t \in wish[w].ticket : At(t, {"working"}) /\ AskHold(c, t, {w})
        BY <2>2 DEF IssueWish
    <3>2. wish[w].ticket \subseteq Tickets
        BY DEF PlaceInv, StageTyped
    <3>3. PICK t \in Tickets : At(t, {"idle", "working"}) /\ AskHold(c, t, {w})
        BY <3>1, <3>2 DEF At
    <3> QED
        BY <3>3, AskStock
  <2> QED
      BY <1>2, <2>1, <2>2, AssignStock, IssueStoneStock, ConsumeStock, ConfirmStock DEF StageStep
<1>3. CASE UNCHANGED stones
  <2>1. req' = req /\ UNCHANGED store /\ draft' = draft
      BY <1>3 DEF stones, stage
  <2> QED
      BY <2>1, QuietStock
<1> QED
    BY <1>1, <1>2, <1>3, QuietStepStock DEF Next

LEMMA NothingMoved == ASSUME Init, NEW m \in Stones PROVE OnHand(m) = Opening /\ Held(m) = 0
<1>1. OnHand(m) = Opening
  <2> DEFINE f == [r \in AllRows |-> Signed(row[r], m)]
  <2>1. \A r \in AllRows : f[r] = 0
      BY DEF Init, Signed, NoRow, InKinds, OutKinds
  <2> HIDE DEF f
  <2>2. SumFunctionOnSet(f, AllRows) = 0
      BY <2>1, RowsAreFinite, SumOfZeros
  <2>3. OnHand(m) = opening[m] + SumFunctionOnSet(f, AllRows)
      BY DEF OnHand, NetOf, f
  <2>4. opening[m] = Opening
      BY DEF Init, Materials
  <2> QED
      BY <2>2, <2>3, <2>4, QtyAssumption
<1>2. Held(m) = 0
  <2> DEFINE f == [h \in Holds |-> PromisedIn(draft, h, m)]
  <2>1. \A h \in Holds : f[h] = 0
      BY DEF Init, PromisedIn, NoDraft
  <2> HIDE DEF f
  <2>2. SumFunctionOnSet(f, Holds) = 0
      BY <2>1, RowsAreFinite, SumOfZeros
  <2>3. HeldIn(draft, m) = SumFunctionOnSet(f, Holds)
      BY DEF HeldIn, f
  <2> QED
      BY <2>2, <2>3, HeldIs
<1> QED
    BY <1>1, <1>2

LEMMA StockInvInit == ASSUME Init PROVE StockInv
<1>1. \A c \in Clients : ~InTx(c) /\ ~InHold(c) /\ ~InStock(c) /\ Locks(c) = {}
    BY DEF Init, InTx, InHold, InStock, Locks, Idle
<1> QED
    BY <1>1, NothingMoved, QtyAssumption DEF StockInv

StoreInv == RowInv /\ HoldInv /\ PlaceInv /\ StockInv

LEMMA StoreInvNext ==
    ASSUME Office = FALSE, Corrections = FALSE, StoreInv, [Next]_stones
    PROVE  StoreInv' /\ \A m \in Stones : Moves(m)
<1>1. RowInv' /\ HoldInv' /\ PlaceInv'
    BY RowInvNext, HoldInvNext, PlaceInvNext DEF StoreInv
<1>2. StockInv' /\ \A m \in Stones : Moves(m)
    BY <1>1, StockInvNext DEF StoreInv
<1> QED
    BY <1>1, <1>2 DEF StoreInv

(* What is promised to the stone setters is in the store, for any number   *)
(* of desks, warehouses and tickets at the same moment: the desk that      *)
(* takes from a stone has its balance locked from its look at the promises *)
(* to its commit.  The office leaves the order alone, and rows already     *)
(* entered are corrected only where the code looks at the promises.        *)
THEOREM HeldStaysWithinStock == Office = FALSE /\ Corrections = FALSE => (Spec => []HeldWithinStock)
<1> SUFFICES ASSUME Office = FALSE, Corrections = FALSE PROVE Spec => []HeldWithinStock
    OBVIOUS
<1>1. Init => StoreInv
    BY RowInvInit, HoldInvInit, PlaceInvInit, StockInvInit DEF StoreInv
<1>2. StoreInv /\ [Next]_stones => StoreInv'
    BY StoreInvNext
<1>3. StoreInv => HeldWithinStock
    BY DEF StoreInv, StockInv, HeldWithinStock
<1> QED
    BY <1>1, <1>2, <1>3, PTL DEF Spec

LEMMA PromiseInit == ASSUME Init PROVE Promise!Init
<1>1. [m \in Stones |-> Held(m)] = [m \in Stones |-> 0]
    BY NothingMoved
<1>2. [m \in Stones |-> OnHand(m)] \in [Stones -> Nat]
    BY NothingMoved, QtyAssumption
<1> QED
    BY <1>1, <1>2 DEF Promise!Init

LEMMA PromiseStep ==
    ASSUME \A m \in Stones : Moves(m)
    PROVE  Promise!Next
<1> SUFFICES ASSUME NEW m \in Stones
             PROVE  \/ Promise!Receive(m) \/ Promise!Take(m) \/ Promise!Reserve(m)
                    \/ Promise!GiveBack(m) \/ Promise!Use(m) \/ Promise!Leave(m)
    BY DEF Promise!Next
<1>1. [n \in Stones |-> OnHand(n)][m] = OnHand(m) /\ [n \in Stones |-> Held(n)][m] = Held(m)
      /\ [n \in Stones |-> OnHand(n)]'[m] = OnHand(m)' /\ [n \in Stones |-> Held(n)]'[m] = Held(m)'
    OBVIOUS
<1>2. Moves(m)
    OBVIOUS
<1> QED
    BY <1>1, <1>2 DEF Moves, Promise!Receive, Promise!Take, Promise!Reserve, Promise!GiveBack,
                      Promise!Use, Promise!Leave, Promise!Free

(* The store with its rows, locks, snapshots and requests keeps the promise *)
(* it makes without them: a reservation is used or given back, never taken  *)
(* by somebody else.                                                       *)
THEOREM StoreKeepsPromises == Office = FALSE /\ Corrections = FALSE => (Spec => KeepsPromises)
<1> SUFFICES ASSUME Office = FALSE, Corrections = FALSE PROVE Spec => KeepsPromises
    OBVIOUS
<1>1. Init => StoreInv /\ Promise!Init
    BY RowInvInit, HoldInvInit, PlaceInvInit, StockInvInit, PromiseInit DEF StoreInv
<1>2. StoreInv /\ [Next]_stones => StoreInv' /\ Promise!Next
    BY StoreInvNext, PromiseStep
<1> QED
    BY <1>1, <1>2, PTL DEF Spec, KeepsPromises, Promise!Spec
=============================================================================
