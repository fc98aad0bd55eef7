----------------------------- MODULE PriceLayers -----------------------------
(***************************************************************************)
(* The value of one material in the store (inventory.service.ts).  Nothing   *)
(* but the rows is kept: receipts with their price, issues with the amount   *)
(* they were quoted.  The layers of price are built anew from the receipts,  *)
(* by date of receipt, each time an issue is quoted: what has been issued so *)
(* far is taken off the oldest ones, whichever it was quoted from.           *)
(*                                                                         *)
(* One row is entered at a time (the balance row is locked); StoneStock has  *)
(* the races.                                                               *)
(***************************************************************************)
EXTENDS Figures

CONSTANTS
    LastDay,        \* dates of receipt are 0..LastDay
    Openings,       \* <<quantity, price>> of the opening stock
    Receipts,       \* <<quantity, price, booked>> of a receipt
    IssueQtys,      \* quantities issued
    MaxInbounds,    \* bound: receipts entered, deleted ones included
    MaxOutbounds    \* bound: issues

ASSUME DaysAssumption == LastDay \in Nat /\ MaxInbounds \in Nat /\ MaxOutbounds \in Nat
ASSUME RowsAssumption ==
    /\ \A o \in Openings : o[1] \in Nat /\ o[2] \in Nat
    /\ \A r \in Receipts : r[1] \in Nat /\ r[2] \in Nat /\ r[3] \in BOOLEAN
    /\ IssueQtys \subseteq Nat \ {0}

VARIABLES
    opening,    \* opening_qty and stock_unit_price of the balance
    inbounds,   \* stock_inbounds of the material, in order of entry (sort_order)
    outbounds,  \* stock_outbounds, in order of entry
    tidy        \* history: entered by date, each at its own price, never corrected

prices == <<opening, inbounds, outbounds, tidy>>

(* A receipt is priced as bought, or at the price of stock: never both      *)
(* (exclusivePrices).  apply_to_stock is "booked".  A row deleted leaves a    *)
(* gap in the order of entry.                                               *)
Days == 0..LastDay
InboundValues == [day : Days, qty : Nat, unitPrice : Nat, stockPrice : Nat, booked : BOOLEAN]
OutboundValues == [qty : Nat, amount : Nat, unitPrice : Nat, booked : BOOLEAN]
Gone == [qty |-> 0, booked |-> FALSE]

PricesTypeOK ==
    /\ opening \in [qty : Nat, price : Nat]
    /\ inbounds \in Seq(InboundValues \cup {Gone}) /\ Len(inbounds) <= MaxInbounds
    /\ outbounds \in Seq(OutboundValues \cup {Gone}) /\ Len(outbounds) <= MaxOutbounds
    /\ tidy \in BOOLEAN

InitPrices ==
    /\ \E o \in Openings : opening = [qty |-> o[1], price |-> o[2]]
    /\ inbounds = <<>> /\ outbounds = <<>> /\ tidy = TRUE

-----------------------------------------------------------------------------
(* The balance, summed again from the rows.                                *)
Rows(table) == {i \in DOMAIN table : table[i] # Gone}
Booked(table) == {i \in DOMAIN table : table[i].booked /\ table[i].qty > 0}
AmountOf(in) == in.qty * (IF in.stockPrice = 0 THEN in.unitPrice ELSE in.stockPrice)
QtyOf(table, rows) == SumOf([i \in rows |-> table[i].qty])
OnHand(outs) == opening.qty + QtyOf(inbounds, Booked(inbounds)) - QtyOf(outs, Booked(outs))
Amount ==
    opening.qty * opening.price + SumOf([i \in Booked(inbounds) |-> AmountOf(inbounds[i])])
        - SumOf([i \in Booked(outbounds) |-> outbounds[i].amount])

(* The layers: the opening stock, which comes before any day, then one of    *)
(* each receipt, by date and then by entry.  (The code joins neighbours of   *)
(* one price and drops emptied layers; neither moves a piece or its price.)  *)
Layer(day, price, qty) == [day |-> day, unitPrice |-> price, remaining |-> qty]
BuildPriceLayers ==
    [i \in {0} \cup Booked(inbounds) |->
        IF i = 0 THEN Layer(-1, opening.price, opening.qty)
        ELSE Layer(inbounds[i].day, inbounds[i].unitPrice, inbounds[i].qty)]
Older(layers, i) ==
    {k \in DOMAIN layers : layers[k].day < layers[i].day \/ (layers[k].day = layers[i].day /\ k < i)}

(* A quantity taken off the oldest layers.                                 *)
Takes(layers, qty) ==
    [i \in DOMAIN layers |->
        LET before == SumOf([k \in Older(layers, i) |-> layers[k].remaining])
        IN  Lesser(layers[i].remaining, NonNegative(qty - before))]

(* Mutant: a layer is used up as a whole.                                  *)
ConsumeWhole(layers, consumed) ==
    LET take == Takes(layers, consumed)
    IN  [i \in DOMAIN layers |-> [layers[i] EXCEPT !.remaining = IF take[i] > 0 THEN 0 ELSE @]]

ConsumeLayers(layers, consumed) ==
    LET take == Takes(layers, consumed)
    IN  [i \in DOMAIN layers |-> [layers[i] EXCEPT !.remaining = @ - take[i]]]

ListPriceLayers(outs) == ConsumeLayers(BuildPriceLayers, QtyOf(outs, Booked(outs)))
LayersQty(layers) == SumOf([i \in DOMAIN layers |-> layers[i].remaining])
LayersValue(layers) == SumOf([i \in DOMAIN layers |-> layers[i].remaining * layers[i].unitPrice])

(* What an issue costs: the amount, and a price if it is one for all.      *)
TakeFifo(layers, qty) ==
    LET take == Takes(layers, qty)
        used == {i \in DOMAIN layers : take[i] > 0}
        ps == {layers[i].unitPrice : i \in used}
    IN  [amount |-> SumOf([i \in DOMAIN layers |-> take[i] * layers[i].unitPrice]),
         unitPrice |-> IF Cardinality(ps) = 1 THEN CHOOSE p \in ps : TRUE ELSE 0]

-----------------------------------------------------------------------------
(* Receipts.                                                               *)
Dated(day) == \A i \in Booked(inbounds) : inbounds[i].day <= day
Without(table, i) == [table EXCEPT ![i] = Gone]
Priced(in, price, ofStock) ==
    [in EXCEPT !.unitPrice = IF ofStock THEN 0 ELSE price,
               !.stockPrice = IF ofStock THEN price ELSE 0]
NewInbound(day, r, ofStock) ==
    Priced([day |-> day, qty |-> r[1], unitPrice |-> 0, stockPrice |-> 0, booked |-> r[3]], r[2], ofStock)

CreateInbound(day, r, ofStock) ==
    /\ Len(inbounds) < MaxInbounds
    /\ inbounds' = Append(inbounds, NewInbound(day, r, ofStock))
    /\ tidy' = (tidy /\ (~r[3] \/ (Dated(day) /\ (ofStock => r[2] = 0))))
    /\ UNCHANGED <<opening, outbounds>>

(* A correction asks nothing of the stock: it may leave less than was issued. *)
UpdateInbound(i, day, r, ofStock) ==
    /\ inbounds' = [inbounds EXCEPT ![i] = Priced([@ EXCEPT !.day = day, !.qty = r[1]], r[2], ofStock)]
    /\ tidy' = (tidy /\ ~inbounds[i].booked)
    /\ UNCHANGED <<opening, outbounds>>

(* A receipt may go while the receipts left, booked or not, cover what was   *)
(* issued; with the last one of its price go the unbooked issues at it.      *)
DeleteInbound(i) ==
    LET rest == Without(inbounds, i)
        price == inbounds[i].unitPrice
        lastOfPrice == price # 0 /\ \A k \in Rows(rest) : rest[k].qty > 0 => rest[k].unitPrice # price
        dropped(o) == o.unitPrice = price /\ (~o.booked \/ o.qty = 0)
    IN
    /\ opening.qty + QtyOf(rest, DOMAIN rest) - QtyOf(outbounds, Booked(outbounds)) >= 0
    /\ inbounds' = rest
    /\ outbounds' = IF lastOfPrice
                    THEN [k \in DOMAIN outbounds |->
                            IF k \in Rows(outbounds) /\ dropped(outbounds[k]) THEN Gone ELSE outbounds[k]]
                    ELSE outbounds
    /\ tidy' = (tidy /\ ~inbounds[i].booked)
    /\ UNCHANGED opening

-----------------------------------------------------------------------------
(* Issues, quoted from the layers the other issues leave.                   *)
Quoted(outs, qty, booked) ==
    LET quote == TakeFifo(ListPriceLayers(outs), qty)
    IN  [qty |-> qty, amount |-> quote.amount, unitPrice |-> quote.unitPrice, booked |-> booked]
Latest(i) == \A k \in Booked(outbounds) : k <= i
EnoughFor(outs, qty) == qty <= OnHand(outs) /\ qty <= LayersQty(ListPriceLayers(outs))

ApplyFifoOutbound(qty, booked) ==
    /\ Len(outbounds) < MaxOutbounds
    /\ EnoughFor(outbounds, qty)
    /\ outbounds' = Append(outbounds, Quoted(outbounds, qty, booked))
    /\ UNCHANGED <<opening, inbounds, tidy>>

UpdateOutbound(i, qty) ==
    /\ EnoughFor(Without(outbounds, i), qty)
    /\ outbounds' = [outbounds EXCEPT ![i] = Quoted(Without(outbounds, i), qty, @.booked)]
    /\ tidy' = (tidy /\ (Latest(i) \/ ~outbounds[i].booked))
    /\ UNCHANGED <<opening, inbounds>>

DeleteOutbound(i) ==
    /\ outbounds' = Without(outbounds, i)
    /\ tidy' = (tidy /\ (Latest(i) \/ ~outbounds[i].booked))
    /\ UNCHANGED <<opening, inbounds>>

(* The stock form sets the opening stock anew.                             *)
UpdateStock(o) ==
    /\ opening' = [qty |-> o[1], price |-> o[2]]
    /\ tidy' = (tidy /\ Booked(outbounds) = {})
    /\ UNCHANGED <<inbounds, outbounds>>

PricesNext ==
    \/ \E day \in Days, r \in Receipts, ofStock \in BOOLEAN :
        \/ CreateInbound(day, r, ofStock)
        \/ \E i \in Rows(inbounds) : r[3] = inbounds[i].booked /\ UpdateInbound(i, day, r, ofStock)
    \/ \E i \in Rows(inbounds) : DeleteInbound(i)
    \/ \E qty \in IssueQtys, booked \in BOOLEAN : ApplyFifoOutbound(qty, booked)
    \/ \E i \in Rows(outbounds) :
        \/ \E qty \in IssueQtys : UpdateOutbound(i, qty)
        \/ DeleteOutbound(i)
    \/ \E o \in Openings : UpdateStock(o)

PricesSpec == InitPrices /\ [][PricesNext]_prices

-----------------------------------------------------------------------------
(* Properties.                                                             *)

(* Whatever is entered or corrected, in any order, the layers of price hold  *)
(* the stock on hand, none of it twice: all of it can be issued at a price   *)
(* (quoteFifo never refuses what assertEnoughStock lets through).           *)
LayersMatchStock ==
    LayersQty(ListPriceLayers(outbounds)) = NonNegative(OnHand(outbounds))

(* The value left on the balance is the value of the layers left, as long as *)
(* receipts are entered by date at their own price and only the last issue   *)
(* is ever taken back or quoted again.  (A receipt back-dated behind issued  *)
(* stock, one priced at the price of stock, an earlier issue corrected: each *)
(* leaves the balance a value no stock has.)                                *)
ValueKept == tidy => Amount = LayersValue(ListPriceLayers(outbounds))

(* The layers are the stock, piece for piece and value for value.          *)
LayersAreTheStock == LayersMatchStock /\ ValueKept
=============================================================================
