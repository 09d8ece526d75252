---------------------------- MODULE MCStockLedger ----------------------------
(* One item with three lots, so that FIFO has an older, a middle and a younger *)
(* lot to choose from, and a work order to reserve for.                        *)
EXTENDS StockLedger

CONSTANTS steel, wo

MCLotItem == [l \in 1..3 |-> steel]
=============================================================================
