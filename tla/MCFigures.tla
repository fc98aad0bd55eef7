------------------------------ MODULE MCFigures ------------------------------
(* Small instances of the two machines that only keep figures: a behaviour   *)
(* is the stages of one ticket, or the store's rows of one material.         *)
EXTENDS StageWeights, PriceLayers

RoutesV == {<<"FILING", "ENGRAVING", "POLISHING">>, <<"ENGRAVING", "POLISHING">>}
BlanksV == {<<4, 5>>}
RecoveriesV == {<<0, 0, 0>>, <<1, 0, 1>>}
LabelsV == [byThePiece \in BOOLEAN |->
    IF byThePiece THEN {<<2, 3>>, <<1, 2>>} ELSE {<<2, 3>>, <<None, 2>>}]
StonesV == {<<TRUE, None>>, <<FALSE, 1>>}
SetFiguresV == {<<None, None>>, <<1, None>>, <<None, 1>>}
OpeningsV == {<<0, 0>>, <<3, 1>>}
ReceiptsV == {<<1, 1, TRUE>>, <<2, 2, TRUE>>, <<1, 1, FALSE>>}

NoTicket == order.route = <<>>
NoMaterial == opening.qty = None
Init ==
    \/ /\ WeightsInit
       /\ opening = [qty |-> None, price |-> 0] /\ inbounds = <<>> /\ outbounds = <<>> /\ tidy = TRUE
    \/ /\ InitPrices
       /\ order = [route |-> <<>>, blank |-> <<0, 0>>, stones |-> <<TRUE, None>>]
       /\ entries = <<>> /\ bags = <<>> /\ stock = Nothing
Next ==
    \/ ~NoTicket /\ WeightsNext /\ UNCHANGED prices
    \/ ~NoMaterial /\ PricesNext /\ UNCHANGED weights
Spec == Init /\ [][Next]_<<weights, prices>>

(* Either machine has its types.                                             *)
FiguresTypeOK == (NoTicket \/ WeightsTypeOK) /\ (NoMaterial \/ PricesTypeOK)
=============================================================================
