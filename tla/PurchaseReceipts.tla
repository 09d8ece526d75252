-------------------------- MODULE PurchaseReceipts --------------------------
(***************************************************************************)
(* Purchase orders received in several deliveries.  A client names every    *)
(* delivery with a receipt id and sends it as often as it likes, with the   *)
(* same or with other data; the service answers each call.  Deliveries may  *)
(* share a supplier lot, across orders too.  Planners qualify suppliers in   *)
(* between, and a supplier under incoming inspection has its lots held.      *)
(*                                                                         *)
(* One call is one transaction behind the locks of its receipt id and its   *)
(* order, and is one action.  All orders here buy the same item: a lot      *)
(* number identifies a lot only within an item.                            *)
(***************************************************************************)
EXTENDS Integers, FiniteSetsExt

CONSTANTS
    PurchaseOrders,
    ReceiptIds,      \* the idempotency keys clients generate
    LotNos,          \* the lot numbers suppliers print
    Suppliers,
    SupplierOf,      \* by purchase order
    Ordered,         \* the quantity ordered, by purchase order
    Unnamed,         \* a call without a lot number
    NoAnswer

ASSUME PurchaseAssumption ==
    /\ SupplierOf \in [PurchaseOrders -> Suppliers]
    /\ Ordered \in [PurchaseOrders -> Nat \ {0}]
    /\ Unnamed \notin LotNos /\ LotNos \intersect ReceiptIds = {}

VARIABLES
    poStatus,    \* purchase_orders.status
    received,    \* purchase_orders.received_qty
    receipts,    \* purchase_receipts
    lotQty,      \* lots.quantity: what ever came into the lot
    lotQuality,  \* lots.quality_status, "NONE" before the lot exists
    profile,     \* supplier_quality_profiles; no row acts as APPROVED
    answer       \* the latest call and what the service answered

receiptVars == <<poStatus, received, receipts, lotQty, lotQuality, profile, answer>>

\* A lot the service names itself is named after its receipt.
ReceivedLots == LotNos \union ReceiptIds

LargestOrder == Max({Ordered[p] : p \in PurchaseOrders})

Request == [id : ReceiptIds, po : PurchaseOrders, qty : 1..LargestOrder,
            lotNo : LotNos \union {Unnamed}]
Receipt == [id : ReceiptIds, po : PurchaseOrders, qty : Nat \ {0}, lot : ReceivedLots]
Profile == [status : {"APPROVED", "CONDITIONAL", "BLOCKED"}, inspect : BOOLEAN]
LotQuality == {"OK", "HOLD", "REJECTED"}
Result == {"posted", "idempotentHit", "conflict", "refused", "blocked"}

ReceiptsTypeOK ==
    /\ poStatus \in [PurchaseOrders -> {"OPEN", "PARTIALLY_RECEIVED", "RECEIVED"}]
    /\ received \in [PurchaseOrders -> Nat]
    /\ receipts \subseteq Receipt
    /\ lotQty \in [ReceivedLots -> Nat]
    /\ lotQuality \in [ReceivedLots -> LotQuality \union {"NONE"}]
    /\ profile \in [Suppliers -> Profile]
    /\ answer \in [request : Request, result : Result] \union {NoAnswer}

ReceiptsInit ==
    /\ poStatus = [p \in PurchaseOrders |-> "OPEN"]
    /\ received = [p \in PurchaseOrders |-> 0]
    /\ receipts = {}
    /\ lotQty = [l \in ReceivedLots |-> 0]
    /\ lotQuality = [l \in ReceivedLots |-> "NONE"]
    /\ profile = [s \in Suppliers |-> [status |-> "APPROVED", inspect |-> FALSE]]
    /\ answer = NoAnswer

-----------------------------------------------------------------------------
(* Rules of ReceivePurchase *)

Blocked(q) == profile[SupplierOf[q.po]].status = "BLOCKED"

WithId(id) == {r \in receipts : r.id = id}

\* The call repeats the receipt r.
Repeats(q, r) ==
    q.id = r.id /\ q.po = r.po /\ q.qty = r.qty /\ q.lotNo \in {Unnamed, r.lot}

\* mutant: an order is full only after the delivery that exceeds it
ReceivableUntilFull(q) == poStatus[q.po] \in {"OPEN", "PARTIALLY_RECEIVED"}

Receivable(q) ==
    /\ poStatus[q.po] \in {"OPEN", "PARTIALLY_RECEIVED"}
    /\ received[q.po] + q.qty <= Ordered[q.po]

LotFor(q) == IF q.lotNo = Unnamed THEN q.id ELSE q.lotNo

\* CalcPurchaseReceiptState
StatusAfter(p, total) ==
    IF total = Ordered[p] THEN "RECEIVED" ELSE "PARTIALLY_RECEIVED"

\* mutant: only a new lot is held
HeldWhenNew(q) ==
    IF lotQuality[LotFor(q)] # "NONE" THEN lotQuality[LotFor(q)]
    ELSE IF profile[SupplierOf[q.po]].inspect THEN "HOLD" ELSE "OK"
\* The trigger supplier_receipt_quality_hold, on a lot that is new, hence OK,
\* or is there from an earlier delivery.
QualityAfter(q) ==
    LET before == IF lotQuality[LotFor(q)] = "NONE" THEN "OK" ELSE lotQuality[LotFor(q)]
    IN  IF profile[SupplierOf[q.po]].inspect /\ before = "OK" THEN "HOLD" ELSE before

-----------------------------------------------------------------------------
(* One call *)

Respond(q, result) == answer' = [request |-> q, result |-> result]

RefuseBlocked(q) ==
    /\ Blocked(q)
    /\ Respond(q, "blocked")
    /\ UNCHANGED <<poStatus, received, receipts, lotQty, lotQuality, profile>>

AnswerKnownId(q) ==
    /\ ~Blocked(q)
    /\ \E r \in WithId(q.id) :
           Respond(q, IF Repeats(q, r) THEN "idempotentHit" ELSE "conflict")
    /\ UNCHANGED <<poStatus, received, receipts, lotQty, lotQuality, profile>>

RefuseReceipt(q) ==
    /\ ~Blocked(q)
    /\ WithId(q.id) = {}
    /\ ~Receivable(q)
    /\ Respond(q, "refused")
    /\ UNCHANGED <<poStatus, received, receipts, lotQty, lotQuality, profile>>

PostReceipt(q) ==
    LET total == received[q.po] + q.qty
        lot == LotFor(q)
    IN
    /\ ~Blocked(q)
    /\ WithId(q.id) = {}
    /\ Receivable(q)
    /\ lotQty' = [lotQty EXCEPT ![lot] = @ + q.qty]
    /\ receipts' = receipts \union {[id |-> q.id, po |-> q.po, qty |-> q.qty, lot |-> lot]}
    /\ lotQuality' = [lotQuality EXCEPT ![lot] = QualityAfter(q)]
    /\ received' = [received EXCEPT ![q.po] = total]
    /\ poStatus' = [poStatus EXCEPT ![q.po] = StatusAfter(q.po, total)]
    /\ Respond(q, "posted")
    /\ UNCHANGED profile

ReceivePurchase(q) ==
    RefuseBlocked(q) \/ AnswerKnownId(q) \/ RefuseReceipt(q) \/ PostReceipt(q)

UpsertProfile(s) ==
    /\ \E p \in Profile : profile' = [profile EXCEPT ![s] = p]
    /\ UNCHANGED <<poStatus, received, receipts, lotQty, lotQuality, answer>>

\* Inspections and NCR decisions, SupplierQuality's subject, may set any status.
RequalifyLot(l) ==
    /\ lotQuality[l] # "NONE"
    /\ \E s \in LotQuality : lotQuality' = [lotQuality EXCEPT ![l] = s]
    /\ UNCHANGED <<poStatus, received, receipts, lotQty, profile, answer>>

ReceiptsNext ==
    \/ \E q \in Request : ReceivePurchase(q)
    \/ \E s \in Suppliers : UpsertProfile(s)
    \/ \E l \in ReceivedLots : RequalifyLot(l)

ReceiptsSpec == ReceiptsInit /\ [][ReceiptsNext]_receiptVars

-----------------------------------------------------------------------------
TotalQty(S) == SumFunction([r \in S |-> r.qty])

\* assert_purchase_order_receipt_state: the order's cumulative quantity and
\* status are those of its receipts, whatever was resent, and never more than
\* was ordered.
ReceiptsAccountForOrder ==
    \A p \in PurchaseOrders :
        LET total == TotalQty({r \in receipts : r.po = p}) IN
        /\ received[p] = total
        /\ total <= Ordered[p]
        /\ poStatus[p] = IF total = 0 THEN "OPEN" ELSE StatusAfter(p, total)

\* Goods of a supplier under inspection never add to usable stock, not even
\* when they come into a lot that passed its inspection before.
DeliveryUnderInspectionHeld ==
    [][\A r \in receipts' \ receipts :
         profile[SupplierOf[r.po]].inspect => lotQuality'[r.lot] # "OK"]_receiptVars
=============================================================================
