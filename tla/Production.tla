----------------------------- MODULE Production -----------------------------
(***************************************************************************)
(* Work orders against stock: a release freezes the bill of materials and  *)
(* reserves the components of the whole order, each completion batch       *)
(* issues the components of that batch, gives their reservation back and   *)
(* receives the finished goods.  The order is WorkOrderExecution's and the *)
(* stock StockLedger's; both change in one transaction.                    *)
(***************************************************************************)
EXTENDS Integers, FiniteSetsExt

CONSTANTS
    WorkOrders, CompletionIds, Clients, MaxSteps, Quantity, NumSteps, TransferBatch,
    Items, NumLots, LotItem, Docs, OrderDocs, NoDoc, ReceiptDocs, ReserveDocs,
    InspectedLots, MaxTxn, MaxStock,
    Product,     \* the item a work order makes
    InitialBOM,  \* quantity per parent of each direct component
    Revisions    \* the engineering changes that may be applied to it

VARIABLES
    status, completed, reported, opStatus, opQty, completions, pending,
    balance, quality, source, onHand, issued, reserved, reserveRows,
    bom,         \* bom_components
    snapshot     \* work_order_bom_snapshot_lines: quantity per unit, by order

Order == INSTANCE WorkOrderExecution
Stock == INSTANCE StockLedger

Lots == Stock!Lots

stockVars == <<balance, quality, source, onHand, issued, reserved, reserveRows>>
orderVars == <<status, completed, reported, opStatus, opQty, completions, pending>>
vars == <<orderVars, stockVars, bom, snapshot>>

\* What orders and stock assume of their constants; a reservation is booked
\* under the order it is for, other documents are free.
ASSUME ProductionAssumption ==
    /\ MaxSteps \in Nat
    /\ Quantity \in [WorkOrders -> Nat \ {0}]
    /\ NumSteps \in [WorkOrders -> 0..MaxSteps]
    /\ TransferBatch \in [WorkOrders -> [1..MaxSteps -> Nat]]
    /\ NumLots \in Nat
    /\ LotItem \in [Lots -> Items]
    /\ IsFiniteSet(Docs) /\ NoDoc \notin Docs
    /\ WorkOrders = OrderDocs /\ OrderDocs \subseteq Docs
    /\ Product \in [WorkOrders -> Items]
    /\ InitialBOM \in [Items -> [Items -> Nat]]
    /\ Revisions \subseteq Items \X Items \X Nat
    /\ \A r \in Revisions : r[1] # r[2]

TypeOK ==
    /\ Order!TypeOK
    /\ Stock!TypeOK
    /\ bom \in [Items -> [Items -> Nat]]
    /\ snapshot \in [WorkOrders -> [Items -> Nat]]

Init ==
    /\ Order!Init
    /\ Stock!Init
    /\ bom = InitialBOM
    /\ snapshot = [w \in WorkOrders |-> [i \in Items |-> 0]]

-----------------------------------------------------------------------------
Needed(need) == {i \in Items : need[i] > 0}

\* The components of q units, as a bill of materials lists them.
Requirements(lines, q) == [i \in Items |-> q * lines[i]]

\* Sufficient stock for every component, computed under all the item locks.
CalcReservation(need) == \A i \in Needed(need) : Stock!Available(i) >= need[i]

ReservedPairs(w, need) == Needed(need) \X {w}

\* The release of w: snapshot, reservation of the whole quantity, status and
\* routing copy, or nothing.
ReleaseWorkOrder(w) ==
    LET need == Requirements(bom[Product[w]], Quantity[w]) IN
    /\ Order!ReleaseOrder(w)
    /\ CalcReservation(need)
    /\ ReservedPairs(w, need) \intersect reserveRows = {}
    /\ snapshot' = [snapshot EXCEPT ![w] = bom[Product[w]]]
    /\ reserved' = [i \in Items |-> [reserved[i] EXCEPT ![w] = @ + need[i]]]
    /\ reserveRows' = reserveRows \union ReservedPairs(w, need)
    /\ UNCHANGED <<balance, quality, source, onHand, issued, bom>>

\* The finished goods go to a new lot or to one this order already feeds.
MayReceiveInto(l, w) ==
    /\ LotItem[l] = Product[w]
    /\ quality[l] # "NONE" => source[l] \in {w, NoDoc}

\* mutant: the bill of materials in force, not the one of the release
LiveLines(w) == bom[Product[w]]

CompletionLines(w) == snapshot[w]

StillReserved(w, need) == \A i \in Needed(need) : reserved[i][w] >= need[i]

\* mutants: the first batch frees the whole reservation; no batch frees any
UnreserveAll(w, need) == [i \in Items |-> [reserved[i] EXCEPT ![w] = 0]]
UnreserveNothing(w, need) == reserved

Unreserved(w, need) == [i \in Items |-> [reserved[i] EXCEPT ![w] = @ - need[i]]]

\* One completion batch of w: components out of the oldest OK lots, their
\* reservation given back, finished goods into lot l.
CompleteWorkOrder(w, id, q, l) ==
    LET need == Requirements(CompletionLines(w), q)
        draw == Stock!FifoDraws(need, Stock!Issuable)
    IN
    /\ Order!CompleteBatch(w, id, q)
    /\ StillReserved(w, need)
    /\ Stock!ValidDraw(need, Stock!Issuable, draw)
    /\ MayReceiveInto(l, w)
    /\ balance' = [k \in Lots |-> balance[k] - draw[k] + (IF k = l THEN q ELSE 0)]
    /\ onHand' = [i \in Items |->
            onHand[i] - need[i] + (IF i = Product[w] THEN q ELSE 0)]
    /\ issued' = [i \in Items |-> issued[i] + need[i]]
    /\ quality' = [quality EXCEPT ![l] = IF @ = "NONE" THEN "OK" ELSE @]
    /\ source' = [source EXCEPT ![l] = IF quality[l] = "NONE" THEN w ELSE @]
    /\ reserved' = Unreserved(w, need)
    /\ UNCHANGED <<reserveRows, bom, snapshot>>

\* An engineering change or a direct edit of the bill of materials.
ReviseBOM(p, c, perUnit) ==
    /\ bom[p][c] # perUnit
    /\ bom' = [bom EXCEPT ![p][c] = perUnit]
    /\ UNCHANGED <<orderVars, stockVars, snapshot>>

-----------------------------------------------------------------------------
ReleaseOrComplete ==
    \E w \in WorkOrders :
        \/ ReleaseWorkOrder(w)
        \/ \E id \in CompletionIds, q \in 1..Quantity[w], l \in Lots :
               CompleteWorkOrder(w, id, q, l)

RunShopFloor ==
    /\ \E w \in WorkOrders : Order!ExecuteOperation(w) \/ Order!CloseOrder(w)
    /\ UNCHANGED <<stockVars, bom, snapshot>>

ChangeBOM == \E r \in Revisions : ReviseBOM(r[1], r[2], r[3])

\* Stock that arrives and is inspected, as purchasing and quality do it.
ReceiveOrInspect ==
    /\ \/ Stock!InspectLot
       \/ \E l \in Lots, q \in 1..MaxTxn : Stock!Receive(l, q, NoDoc)
    /\ UNCHANGED <<orderVars, bom, snapshot>>

Next == ReleaseOrComplete \/ RunShopFloor \/ ChangeBOM \/ ReceiveOrInspect

\* The workflows, with receipts and inspections beside them.
Spec == Init /\ [][Next]_vars

-----------------------------------------------------------------------------
\* Each order holds the components of the units it has still to complete, at
\* the quantities frozen at its release, and nothing before or after.
ReservationMatchesOrder ==
    \A w \in WorkOrders, i \in Items :
        reserved[i][w] = IF status[w] = "PLANNED" THEN 0
                         ELSE snapshot[w][i] * (Quantity[w] - completed[w])

\* The usage the ledger shows is the bill of materials of what was completed:
\* no retry, partial batch or later revision issues a unit more or less.
UsageMatchesCompletions ==
    \A i \in Items :
        issued[i] = SumFunctionOnSet([w \in WorkOrders |-> snapshot[w][i] * completed[w]], WorkOrders)

\* Stock that is not withdrawn by hand behaves as Commitments:
\* a release promises the whole order's needs or nothing, and completions live
\* on that promise.
Promises == INSTANCE Commitments WITH
    Orders <- WorkOrders,
    free <- [i \in Items |-> Stock!Available(i)],
    promised <- [w \in WorkOrders |-> [i \in Items |-> reserved[i][w]]],
    used <- [w \in WorkOrders |-> [i \in Items |-> snapshot[w][i] * completed[w]]]

ImplementsCommitments == Promises!CommitSpec
=============================================================================
