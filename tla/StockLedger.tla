----------------------------- MODULE StockLedger -----------------------------
(***************************************************************************)
(* The unified inventory ledger: physical stock by lot, the item totals    *)
(* kept beside it, reservations, and the quality status that decides which *)
(* lots may be consumed.                                                   *)
(*                                                                         *)
(* A physical posting locks the item, then its lots, and writes one signed *)
(* header and its signed lot allocations in one transaction, so a posting  *)
(* is one action.  RESERVE and UNRESERVE are single inserts.               *)
(*                                                                         *)
(* Lots are numbered in first-in-first-out order (received_at, id); they   *)
(* may be created in any order, because a receipt may be dated back.       *)
(***************************************************************************)
EXTENDS Integers, FiniteSetsExt

CONSTANTS
    Items,       \* items.id
    NumLots,     \* how many lots may ever be created
    LotItem,     \* the item of each lot, immutable by trigger
    Docs,        \* reference documents reservations are booked under
    OrderDocs,   \* those that name a work order (ref_doc LIKE 'WO:%')
    NoDoc,       \* the empty reference document
    ReceiptDocs, \* bound: the documents manual receipts name, beside none
    ReserveDocs, \* bound: the documents manual reservations name
    InspectedLots, \* bound: the lots inspections are recorded for
    MaxTxn,      \* bound: the largest quantity of one posting
    MaxStock     \* bound: on-hand, issued and reserved totals of one item

Lots == 1..NumLots

ASSUME StockAssumption ==
    /\ NumLots \in Nat
    /\ LotItem \in [Lots -> Items]
    /\ IsFiniteSet(Docs)
    /\ OrderDocs \subseteq Docs
    /\ NoDoc \notin Docs
    /\ ReceiptDocs \subseteq Docs
    /\ ReserveDocs \subseteq Docs
    /\ InspectedLots \subseteq Lots
    /\ MaxTxn \in Nat
    /\ MaxStock \in Nat

VARIABLES
    balance,      \* SUM(lot_movements.quantity) by lot
    quality,      \* lots.quality_status; "NONE" before the lot exists
    source,       \* lots.source_doc
    onHand,       \* SUM(inventory_txns.quantity) of the physical types, by item
    issued,       \* the ISSUE part of that sum: the annual usage ABC analysis reads
    reserved,     \* RESERVE less UNRESERVE by item and document
    reserveRows   \* the (item, document) pairs with a RESERVE row under 'WO:%'

stockVars == <<balance, quality, source, onHand, issued, reserved, reserveRows>>

QualityStatus == {"OK", "HOLD", "REJECTED"}

TypeOK ==
    /\ balance \in [Lots -> Int]
    /\ quality \in [Lots -> QualityStatus \union {"NONE"}]
    /\ source \in [Lots -> Docs \union {NoDoc}]
    /\ onHand \in [Items -> Int]
    /\ issued \in [Items -> Nat]
    /\ reserved \in [Items -> [Docs -> Int]]
    /\ reserveRows \subseteq Items \X OrderDocs

Init ==
    /\ balance = [l \in Lots |-> 0]
    /\ quality = [l \in Lots |-> "NONE"]
    /\ source = [l \in Lots |-> NoDoc]
    /\ onHand = [i \in Items |-> 0]
    /\ issued = [i \in Items |-> 0]
    /\ reserved = [i \in Items |-> [d \in Docs |-> 0]]
    /\ reserveRows = {}

-----------------------------------------------------------------------------
(* What the views compute *)

LotsOf(i) == {l \in Lots : LotItem[l] = i}

Reserved(i) == SumFunctionOnSet(reserved[i], Docs)

\* v_stock_balance: on hand counts every lot, whatever its quality.
Available(i) == SumFunctionOnSet(balance, LotsOf(i)) - Reserved(i)

-----------------------------------------------------------------------------
(* Allocation of a withdrawal to lots *)

LesserOf(a, b) == IF a <= b THEN a ELSE b

\* Only OK lots may be consumed.
Issuable == {"OK"}

Drawable(i, grades) ==
    {l \in LotsOf(i) : balance[l] > 0 /\ quality[l] \in grades}

\* mutant: the loop forgets to count down
RemainingNotReduced(i, q, grades) == [l \in 0..NumLots |-> q]

\* What remains of q once the lots up to l have been visited, oldest first.
Remaining(i, q, grades) ==
    LET rest[l \in 0..NumLots] ==
            IF l = 0 THEN q
            ELSE IF l \in Drawable(i, grades)
                 THEN rest[l - 1] - LesserOf(balance[l], rest[l - 1])
                 ELSE rest[l - 1]
    IN  rest

FifoDraw(i, q, grades) ==
    [l \in Lots |-> IF l \in Drawable(i, grades)
                    THEN LesserOf(balance[l], Remaining(i, q, grades)[l - 1])
                    ELSE 0]

\* FIFO for several items at once: need[i] units of each item i.
FifoDraws(need, grades) ==
    [l \in Lots |-> FifoDraw(LotItem[l], need[LotItem[l]], grades)[l]]

\* mutant: the balance of the lot is not compared
ValidDrawUnlimited(need, grades, draw) ==
    /\ \A l \in Lots : draw[l] > 0 => quality[l] \in grades
    /\ \A i \in Items : SumFunctionOnSet(draw, LotsOf(i)) = need[i]

\* The allocations add up to the header, and no lot gives more than it has or
\* has the wrong quality: what every posting is validated against.
ValidDraw(need, grades, draw) ==
    /\ \A l \in Lots :
         /\ draw[l] \in 0..balance[l]
         /\ draw[l] > 0 => quality[l] \in grades
    /\ \A i \in Items : SumFunctionOnSet(draw, LotsOf(i)) = need[i]

Only(i, q) == [j \in Items |-> IF j = i THEN q ELSE 0]

-----------------------------------------------------------------------------
(* Postings *)

\* mutant: the item is posted and its lots are left alone
TakeFromItemOnly(need, draw) ==
    /\ onHand' = [i \in Items |-> onHand[i] - need[i]]
    /\ UNCHANGED <<balance, quality, source, reserved, reserveRows>>

TakeStock(need, draw) ==
    /\ balance' = [l \in Lots |-> balance[l] - draw[l]]
    /\ onHand' = [i \in Items |-> onHand[i] - need[i]]
    /\ UNCHANGED <<quality, source, reserved, reserveRows>>

\* A receipt or positive adjustment into lot l, created when it does not exist.
\* doc is the source of a new lot; an existing lot keeps its own.
Receive(l, q, doc) ==
    /\ onHand[LotItem[l]] + q <= MaxStock
    /\ balance' = [balance EXCEPT ![l] = @ + q]
    /\ onHand' = [onHand EXCEPT ![LotItem[l]] = @ + q]
    /\ quality' = [quality EXCEPT ![l] = IF @ = "NONE" THEN "OK" ELSE @]
    /\ source' = [source EXCEPT ![l] = IF quality[l] = "NONE" THEN doc ELSE @]
    /\ UNCHANGED <<issued, reserved, reserveRows>>

\* ISSUE without a lot: FIFO over the OK lots.
Issue(i, q) ==
    LET draw == FifoDraw(i, q, Issuable) IN
    /\ issued[i] + q <= MaxStock
    /\ ValidDraw(Only(i, q), Issuable, draw)
    /\ TakeStock(Only(i, q), draw)
    /\ issued' = [issued EXCEPT ![i] = @ + q]

\* Negative ADJUST without a lot: FIFO over the OK lots or, for a cycle count
\* (IncludeNonOK), over every lot.
AdjustDown(i, q, grades) ==
    LET draw == FifoDraw(i, q, grades) IN
    /\ ValidDraw(Only(i, q), grades, draw)
    /\ TakeStock(Only(i, q), draw)
    /\ UNCHANGED issued

\* A withdrawal from a lot the caller names: an ISSUE needs an OK lot, an
\* ADJUST takes from any.
DrawLot(l, q, txnType) ==
    LET i == LotItem[l]
        draw == [k \in Lots |-> IF k = l THEN q ELSE 0]
        grades == IF txnType = "ISSUE" THEN Issuable ELSE QualityStatus
    IN
    /\ quality[l] # "NONE"
    /\ ValidDraw(Only(i, q), grades, draw)
    /\ TakeStock(Only(i, q), draw)
    /\ IF txnType = "ISSUE"
       THEN /\ issued[i] + q <= MaxStock
            /\ issued' = [issued EXCEPT ![i] = @ + q]
       ELSE UNCHANGED issued

\* A RESERVE or UNRESERVE from the inventory screen: no lock, no check beyond
\* the unique index on RESERVE rows under 'WO:%'.
ReserveManually(i, d, q) ==
    /\ <<i, d>> \notin reserveRows
    /\ Reserved(i) + q <= MaxStock
    /\ reserved' = [reserved EXCEPT ![i][d] = @ + q]
    /\ reserveRows' = IF d \in OrderDocs THEN reserveRows \union {<<i, d>>}
                                         ELSE reserveRows
    /\ UNCHANGED <<balance, quality, source, onHand, issued>>

UnreserveManually(i, d, q) ==
    /\ Reserved(i) - q >= -MaxStock
    /\ reserved' = [reserved EXCEPT ![i][d] = @ - q]
    /\ UNCHANGED <<balance, quality, source, onHand, issued, reserveRows>>

QualityStatusForResult(result) ==
    CASE result = "PASS" -> "OK"
      [] result = "HOLD" -> "HOLD"
      [] result = "FAIL" -> "REJECTED"

\* An inspection sets the lot's status, however often it is repeated.  It stands
\* here for every write of a status: a PASS on a supplier lot with an open NCR,
\* an NCR and REWORK do what HOLD does, USE_AS_IS what PASS does; when each may
\* happen is the concern of SupplierQuality.
Inspect(l, result) ==
    /\ quality[l] # "NONE"
    /\ quality' = [quality EXCEPT ![l] = QualityStatusForResult(result)]
    /\ UNCHANGED <<balance, source, onHand, issued, reserved, reserveRows>>

-----------------------------------------------------------------------------
PostManually ==
    \E q \in 1..MaxTxn :
        \/ \E l \in Lots, d \in ReceiptDocs \union {NoDoc} : Receive(l, q, d)
        \/ \E l \in Lots, t \in {"ISSUE", "ADJUST"} : DrawLot(l, q, t)
        \/ \E i \in Items : Issue(i, q)
        \/ \E i \in Items, grades \in {Issuable, QualityStatus} : AdjustDown(i, q, grades)
        \/ \E i \in Items, d \in ReserveDocs :
               ReserveManually(i, d, q) \/ UnreserveManually(i, d, q)

InspectLot ==
    \E l \in InspectedLots, result \in {"PASS", "HOLD", "FAIL"} : Inspect(l, result)

Next == PostManually \/ InspectLot

Spec == Init /\ [][Next]_stockVars

-----------------------------------------------------------------------------
(* What every committed state satisfies *)

\* No sequence of FIFO, explicit-lot and all-quality withdrawals drives a lot
\* negative: the deferred trigger of migration 0018 never has to refuse one.
NoNegativeLot == \A l \in Lots : balance[l] >= 0

\* v_inventory_lot_reconciliation shows no difference: the item totals, kept by
\* the headers, agree with the lots, kept by the allocations.
LotsReconcile ==
    \A i \in Items : onHand[i] = SumFunctionOnSet(balance, LotsOf(i))

SparedByUsage(l) ==
    quality[l] \in {"HOLD", "REJECTED"} /\ balance'[l] < balance[l] => issued' = issued

\* Stock put on HOLD or rejected leaves only by an adjustment: it is never
\* counted as usage, whichever way the withdrawal names its lots.
QuarantineHolds == [][\A l \in Lots : SparedByUsage(l)]_stockVars

\* The allocation loop takes the oldest usable lots and leaves a younger lot
\* untouched while an older one has stock; it comes up short exactly when the
\* usable lots together hold too little.
FifoIsOldestFirst ==
    \A i \in Items, q \in 1..MaxTxn, grades \in {Issuable, QualityStatus} :
        LET draw == FifoDraw(i, q, grades)
            usable == SumFunctionOnSet(balance, Drawable(i, grades))
        IN  /\ \A k, l \in Drawable(i, grades) :
                   k < l /\ draw[l] > 0 => draw[k] = balance[k]
            /\ ValidDraw(Only(i, q), grades, draw) <=> usable >= q
=============================================================================
