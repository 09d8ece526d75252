---------------------------- MODULE MCPurchasing ----------------------------
(* Goods that come in, in two halves.  "receipts": two orders of one supplier, *)
(* of two units and of one, that may share a supplier lot; more deliveries are *)
(* announced than the orders can take; to a receipt a supplier who is           *)
(* CONDITIONAL is like one who is APPROVED.  "quality": one lot of up to    *)
(* two units and three reports against it.                                   *)
EXTENDS PurchaseReceipts, SupplierQuality, TLC

CONSTANTS big, small, acme

VARIABLE half

MCSupplierOf == [p \in PurchaseOrders |-> acme]
MCOrdered == [p \in PurchaseOrders |-> IF p = big THEN 2 ELSE 1]
Symmetry == Permutations(ReceiptIds) \union Permutations(NCRs)

MCInit == half \in {"receipts", "quality"} /\ ReceiptsInit /\ Init
MCNext ==
    /\ UNCHANGED half
    /\ \/ half = "receipts" /\ ReceiptsNext /\ profile'[acme].status # "CONDITIONAL" /\ UNCHANGED vars
       \/ half = "quality" /\ Next /\ UNCHANGED receiptVars
MCSpec == MCInit /\ [][MCNext]_<<receiptVars, vars, half>>
=============================================================================
