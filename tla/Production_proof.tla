--------------------------- MODULE Production_proof ---------------------------
(***************************************************************************)
(* Work orders and stock together, for any orders, items, lots, quantities *)
(* and bills of materials.  The invariant says, beside the types, that     *)
(* what is available of an item is never below nothing, that an order      *)
(* holds what its open units need, and that what was issued is what its    *)
(* completed units needed; a step changes the three figures of one order   *)
(* together, so the sums over orders and lots change by one summand.  From *)
(* it follow the refinement of Commitments and of WorkOrderExecution.      *)
(***************************************************************************)
EXTENDS Production, Sums_proof, TLAPS

\* An order in production never exceeds its quantity; before, nothing is done.
ProgressAt(w) ==
    /\ completed[w] <= Quantity[w]
    /\ status[w] = "PLANNED" => completed[w] = 0

NothingShort == \A i \in Items : Stock!Available(i) \in Nat

IInv ==
    /\ TypeOK
    /\ \A w \in WorkOrders : ProgressAt(w)
    /\ NothingShort
    /\ ReservationMatchesOrder
    /\ UsageMatchesCompletions

-----------------------------------------------------------------------------
(* Arithmetic and constants *)

LEMMA Times ==
    /\ \A a, b \in Nat : a * b \in Nat
    /\ \A a, b, c \in Int : a * (b - c) = a * b - a * c /\ a * (b + c) = a * b + a * c
    /\ \A a, b \in Int : a * b \in Int /\ a * b = b * a
    /\ \A a \in Int : a * 0 = 0
OBVIOUS

\* The sums of the stock views are the sums the lemmas speak of.
LEMMA StockSums ==
    /\ \A f, S : Stock!SumFunctionOnSet(f, S) = SumFunctionOnSet(f, S)
    /\ \A i : Stock!Reserved(i) = SumFunctionOnSet(reserved[i], Docs)
    /\ \A i : Stock!Available(i) = SumFunctionOnSet(balance, Stock!LotsOf(i)) - Stock!Reserved(i)
<1>1. \A f, S : Stock!SumFunctionOnSet(f, S) = SumFunctionOnSet(f, S)
    BY DEF SumFunctionOnSet, FoldFunctionOnSet, MapThenFoldSet,
           Stock!SumFunctionOnSet, Stock!FoldFunctionOnSet, Stock!MapThenFoldSet
<1> QED
    BY <1>1 DEF Stock!Reserved, Stock!Available

LEMMA StockSumsNext ==
    /\ \A i : Stock!Reserved(i)' = SumFunctionOnSet(reserved'[i], Docs)
    /\ \A i : Stock!Available(i)' = SumFunctionOnSet(balance', Stock!LotsOf(i)) - Stock!Reserved(i)'
BY StockSums DEF Stock!Reserved, Stock!Available, Stock!LotsOf, Stock!Lots

LEMMA Constants ==
    /\ IsFiniteSet(WorkOrders) /\ WorkOrders \subseteq Docs /\ IsFiniteSet(Docs)
    /\ IsFiniteSet(Lots) /\ \A i : IsFiniteSet(Stock!LotsOf(i)) /\ Stock!LotsOf(i) \subseteq Lots
    /\ \A w \in WorkOrders : Quantity[w] \in Nat /\ Product[w] \in Items
<1>1. NumLots \in Nat /\ 1 \in Int
    BY ProductionAssumption
<1>2. IsFiniteSet(Lots)
    BY <1>1, FS_Interval DEF Lots, Stock!Lots
<1>3. \A i : Stock!LotsOf(i) \subseteq Lots
    BY DEF Stock!LotsOf, Lots
<1>4. IsFiniteSet(WorkOrders) /\ WorkOrders \subseteq Docs /\ IsFiniteSet(Docs)
    BY ProductionAssumption, FS_Subset
<1>5. \A w \in WorkOrders : Quantity[w] \in Nat /\ Product[w] \in Items
    BY ProductionAssumption
<1> QED
    BY <1>2, <1>3, <1>4, <1>5, FS_Subset

-----------------------------------------------------------------------------
(* Types *)

LEMMA OrderTypes ==
    ASSUME Order!TypeOK,
           \/ \E w \in WorkOrders :
                \/ Order!ReleaseOrder(w) \/ Order!ExecuteOperation(w) \/ Order!CloseOrder(w)
                \/ \E id \in CompletionIds, q \in 1..Quantity[w] : Order!CompleteBatch(w, id, q)
           \/ UNCHANGED orderVars
    PROVE  Order!TypeOK'
<1> USE ProductionAssumption
    DEF Order!TypeOK, Order!WorkOrderStatus, Order!orderVars, Order!opVars
<1>1. ASSUME NEW w \in WorkOrders, Order!ReleaseOrder(w) PROVE Order!TypeOK'
    BY <1>1 DEF Order!ReleaseOrder, Order!OperationStatus
<1>2. ASSUME NEW w \in WorkOrders, NEW i \in 1..NumSteps[w],
             Order!StartOperation(w, i) \/ Order!StopOperation(w, i)
      PROVE  Order!TypeOK'
  <2>1. i \in Order!Steps
      BY DEF Order!Steps
  <2>2. opStatus' \in [WorkOrders -> [Order!Steps -> Order!OperationStatus]]
    <3>1. \E s \in Order!OperationStatus : opStatus' = [opStatus EXCEPT ![w][i] = s]
        BY <1>2 DEF Order!StartOperation, Order!StopOperation, Order!OperationStatus
    <3> QED
        BY <2>1, <3>1
  <2>3. status' \in [WorkOrders -> Order!WorkOrderStatus]
      BY <1>2 DEF Order!StartOperation, Order!StopOperation, Order!MarkStarted
  <2> QED
      BY <1>2, <2>2, <2>3 DEF Order!StartOperation, Order!StopOperation
<1>3. ASSUME NEW w \in WorkOrders, NEW i \in 1..NumSteps[w], NEW q \in 1..Quantity[w],
             Order!ReportOperation(w, i, q)
      PROVE  Order!TypeOK'
  <2>1. i \in Order!Steps /\ q \in Nat
      BY DEF Order!Steps
  <2>2. Order!AfterReport(w, i, q) \in [Order!Steps -> Order!OperationStatus]
      BY DEF Order!AfterReport, Order!Reported, Order!OperationStatus
  <2>3. opStatus' \in [WorkOrders -> [Order!Steps -> Order!OperationStatus]]
      BY <1>3, <2>2 DEF Order!ReportOperation
  <2>4. opQty' \in [WorkOrders -> [Order!Steps -> Nat]]
      BY <1>3, <2>1 DEF Order!ReportOperation
  <2>5. status' \in [WorkOrders -> Order!WorkOrderStatus]
      BY <1>3 DEF Order!ReportOperation, Order!MarkStarted
  <2> QED
      BY <1>3, <2>3, <2>4, <2>5 DEF Order!ReportOperation
<1>4. ASSUME NEW w \in WorkOrders, NEW id \in CompletionIds, NEW q \in 1..Quantity[w],
             Order!CompleteBatch(w, id, q)
      PROVE  Order!TypeOK'
    BY <1>4 DEF Order!CompleteBatch, Order!Completion
<1>5. ASSUME NEW w \in WorkOrders, Order!CloseOrder(w) PROVE Order!TypeOK'
    BY <1>5 DEF Order!CloseOrder
<1>6. CASE UNCHANGED orderVars
    BY <1>6 DEF orderVars
<1> QED
    BY <1>1, <1>2, <1>3, <1>4, <1>5, <1>6 DEF Order!ExecuteOperation

\* What the shop floor may do to the figures stock is about.
LEMMA ShopFloorOrder ==
    ASSUME IInv, NEW w \in WorkOrders, Order!ExecuteOperation(w) \/ Order!CloseOrder(w)
    PROVE  /\ completed' = completed
           /\ \A v \in WorkOrders : status'[v] = "PLANNED" <=> status[v] = "PLANNED"
BY DEF IInv, TypeOK, Order!TypeOK, Order!ExecuteOperation, Order!StartOperation,
       Order!StopOperation, Order!ReportOperation, Order!MarkStarted, Order!CloseOrder,
       Order!orderVars, Order!OpenForExecution

\* Nothing short stays so when what is available does not fall.
LEMMA OrderFigures ==
    ASSUME IInv, NEW w \in WorkOrders
    PROVE  /\ status[w] \in Order!WorkOrderStatus /\ completed[w] \in Nat
           /\ completed[w] <= Quantity[w] /\ Quantity[w] \in Nat
           /\ \A i \in Items : /\ reserved[i][w] \in Int /\ snapshot[w][i] \in Nat
                               /\ bom[Product[w]][i] \in Nat /\ Stock!Available(i) \in Nat
BY Constants DEF IInv, TypeOK, Order!TypeOK, Stock!TypeOK, ProgressAt, NothingShort

\* One order's reservations change: the item's total changes by as much.
LEMMA ReservedChange ==
    ASSUME Stock!TypeOK, Stock!TypeOK', NEW w \in WorkOrders, NEW i \in Items,
           \A d \in Docs : d # w => reserved'[i][d] = reserved[i][d]
    PROVE  /\ Stock!Reserved(i)' = Stock!Reserved(i) - reserved[i][w] + reserved'[i][w]
           /\ Stock!Reserved(i) \in Int
<1>1. \A d \in Docs : reserved[i][d] \in Int /\ reserved'[i][d] \in Int
    BY DEF Stock!TypeOK
<1>2. w \in Docs /\ IsFiniteSet(Docs)
    BY Constants
<1> QED
    BY <1>1, <1>2, SumChange, SumType, StockSums, StockSumsNext

\* One lot grows by q.
LEMMA LotGrows ==
    ASSUME Stock!TypeOK, Stock!TypeOK', NEW l \in Lots, NEW q \in Int, NEW i \in Items,
           \A k \in Lots : balance'[k] = balance[k] + (IF k = l THEN q ELSE 0)
    PROVE  /\ SumFunctionOnSet(balance', Stock!LotsOf(i)) = SumFunctionOnSet(balance, Stock!LotsOf(i))
                                                     + (IF i = LotItem[l] THEN q ELSE 0)
           /\ SumFunctionOnSet(balance, Stock!LotsOf(i)) \in Int
<1> DEFINE L == Stock!LotsOf(i)
<1>1. IsFiniteSet(L) /\ L \subseteq Lots /\ Stock!LotsOf(i)' = L
    BY Constants DEF Stock!LotsOf, Lots
<1>2. \A k \in L : k \in Lots /\ balance[k] \in Int /\ balance'[k] \in Int
    BY <1>1 DEF Stock!TypeOK, Lots
<1>3. l \in L <=> i = LotItem[l]
    BY DEF Stock!LotsOf, Lots
<1> HIDE DEF L
<1>4. SumFunctionOnSet(balance, L) \in Int
    BY <1>1, <1>2, SumType
<1>5. CASE i = LotItem[l]
  <2>1. \A k \in L : k # l => balance'[k] = balance[k]
      BY <1>2
  <2>2. SumFunctionOnSet(balance', L) = SumFunctionOnSet(balance, L) - balance[l] + balance'[l]
      BY <1>1, <1>2, <1>3, <1>5, <2>1, SumChange
  <2>3. balance[l] \in Int /\ balance'[l] = balance[l] + q
      BY <1>2, <1>3, <1>5
  <2> QED
      BY <1>1, <1>4, <1>5, <2>2, <2>3 DEF L
<1>6. CASE i # LotItem[l]
  <2>1. \A k \in L : balance[k] \in Int /\ balance'[k] = balance[k]
      BY <1>2, <1>3, <1>6
  <2>2. SumFunctionOnSet(balance', L) = SumFunctionOnSet(balance, L)
      BY <1>1, <2>1, SumSame
  <2> QED
      BY <1>1, <1>4, <1>6, <2>2 DEF L
<1> QED
    BY <1>5, <1>6

-----------------------------------------------------------------------------
(* The steps, by what they do to one order and to what is available *)

\* A release sets the whole need of its order aside.
LEMMA ReleaseMoves ==
    ASSUME IInv, NEW w \in WorkOrders, ReleaseWorkOrder(w)
    PROVE  /\ TypeOK'
           /\ status[w] = "PLANNED" /\ status'[w] # "PLANNED" /\ completed' = completed
           /\ \A v \in WorkOrders : v # w => status'[v] = status[v] /\ snapshot'[v] = snapshot[v]
           /\ \A i \in Items :
                /\ reserved'[i][w] = snapshot'[w][i] * Quantity[w]
                /\ \A v \in WorkOrders : v # w => reserved'[i][v] = reserved[i][v]
                /\ Stock!Available(i)' = Stock!Available(i) - reserved'[i][w]
                /\ Stock!Available(i)' \in Nat
           /\ issued' = issued
<1> DEFINE need == Requirements(bom[Product[w]], Quantity[w])
<1>1. \A i \in Items : need[i] = Quantity[w] * bom[Product[w]][i] /\ need[i] \in Nat
    BY OrderFigures, Times DEF Requirements
<1>2. /\ Order!ReleaseOrder(w) /\ CalcReservation(need)
      /\ snapshot' = [snapshot EXCEPT ![w] = bom[Product[w]]]
      /\ reserved' = [i \in Items |-> [reserved[i] EXCEPT ![w] = @ + need[i]]]
      /\ reserveRows' = reserveRows \union ReservedPairs(w, need)
      /\ UNCHANGED <<balance, quality, source, onHand, issued, bom>>
    BY DEF ReleaseWorkOrder
<1> HIDE DEF need
<1>3. /\ status[w] = "PLANNED" /\ status'[w] = "RELEASED" /\ completed' = completed
      /\ \A v \in WorkOrders : v # w => status'[v] = status[v]
    BY <1>2 DEF Order!ReleaseOrder, IInv, TypeOK, Order!TypeOK
<1>4. /\ snapshot'[w] = bom[Product[w]] /\ snapshot' \in [WorkOrders -> [Items -> Nat]]
      /\ \A v \in WorkOrders : v # w => snapshot'[v] = snapshot[v]
    BY <1>2, Constants DEF IInv, TypeOK
<1>5. w \in Docs
    BY Constants
<1>6. ASSUME NEW i \in Items
      PROVE  /\ reserved'[i] \in [Docs -> Int]
             /\ reserved'[i][w] = reserved[i][w] + need[i]
             /\ \A d \in Docs : d # w => reserved'[i][d] = reserved[i][d]
  <2>1. reserved[i] \in [Docs -> Int] /\ need[i] \in Int
      BY <1>1 DEF IInv, TypeOK, Stock!TypeOK
  <2>2. reserved'[i] = [reserved[i] EXCEPT ![w] = @ + need[i]]
      BY <1>2
  <2> QED
      BY <1>5, <2>1, <2>2
<1>7. TypeOK'
  <2>1. Order!TypeOK'
      BY <1>2, OrderTypes DEF IInv, TypeOK
  <2>2. reserved' \in [Items -> [Docs -> Int]]
      BY <1>2, <1>6
  <2>3. reserveRows' \subseteq Items \X OrderDocs
      BY <1>2, ProductionAssumption DEF ReservedPairs, Needed, IInv, TypeOK, Stock!TypeOK
  <2>4. Stock!TypeOK'
      BY <1>2, <2>2, <2>3 DEF IInv, TypeOK, Stock!TypeOK
  <2> QED
      BY <1>2, <1>4, <2>1, <2>4 DEF IInv, TypeOK
<1>8. ASSUME NEW i \in Items PROVE reserved[i][w] = 0 /\ reserved'[i][w] = need[i]
    BY <1>1, <1>3, <1>6 DEF IInv, ReservationMatchesOrder
<1>9. ASSUME NEW i \in Items
      PROVE  Stock!Available(i)' = Stock!Available(i) - need[i] /\ Stock!Available(i)' \in Nat
  <2>1. Stock!Reserved(i)' = Stock!Reserved(i) + need[i] /\ Stock!Reserved(i) \in Int
    <3>1. /\ Stock!Reserved(i)' = Stock!Reserved(i) - reserved[i][w] + reserved'[i][w]
          /\ Stock!Reserved(i) \in Int
        BY <1>6, <1>7, ReservedChange DEF IInv, TypeOK
    <3> QED
        BY <1>1, <1>8, <3>1
  <2>2. SumFunctionOnSet(balance, Stock!LotsOf(i)) \in Int
      BY Constants, SumType DEF IInv, TypeOK, Stock!TypeOK, Lots
  <2>3. SumFunctionOnSet(balance', Stock!LotsOf(i)) = SumFunctionOnSet(balance, Stock!LotsOf(i))
      BY <1>2
  <2>4. Stock!Available(i)' = Stock!Available(i) - need[i]
      BY <1>1, <2>1, <2>2, <2>3, StockSums, StockSumsNext
  <2>5. need[i] > 0 => Stock!Available(i) >= need[i]
      BY <1>2 DEF CalcReservation, Needed
  <2> QED
      BY <1>1, <2>4, <2>5, OrderFigures
<1>10. \A i \in Items : need[i] = snapshot'[w][i] * Quantity[w]
    BY <1>1, <1>4, OrderFigures, Times
<1> QED
    BY <1>2, <1>3, <1>4, <1>6, <1>7, <1>8, <1>9, <1>10, Constants

\* A batch of q takes its components out of the order's own reservation, and what
\* is available grows by the units made.
LEMMA CompletionMoves ==
    ASSUME IInv, NEW w \in WorkOrders, NEW id \in CompletionIds, NEW q \in 1..Quantity[w],
           NEW l \in Lots, CompleteWorkOrder(w, id, q, l)
    PROVE  /\ TypeOK'
           /\ status[w] # "PLANNED" /\ status'[w] # "PLANNED"
           /\ completed'[w] = completed[w] + q /\ completed'[w] <= Quantity[w]
           /\ \A v \in WorkOrders : v # w => status'[v] = status[v] /\ completed'[v] = completed[v]
           /\ snapshot' = snapshot
           /\ \A i \in Items :
                /\ reserved'[i][w] = reserved[i][w] - q * snapshot[w][i]
                /\ \A v \in WorkOrders : v # w => reserved'[i][v] = reserved[i][v]
                /\ issued'[i] = issued[i] + q * snapshot[w][i]
                /\ Stock!Available(i)' = Stock!Available(i) + (IF i = Product[w] THEN q ELSE 0)
<1> DEFINE need == Requirements(CompletionLines(w), q)
           draw == Stock!FifoDraws(need, Stock!Issuable)
<1>1. q \in Nat /\ \A i \in Items : need[i] = q * snapshot[w][i] /\ need[i] \in Nat
    BY OrderFigures, Times DEF Requirements, CompletionLines
<1>2. /\ Order!CompleteBatch(w, id, q)
      /\ Stock!ValidDraw(need, Stock!Issuable, draw) /\ MayReceiveInto(l, w)
      /\ balance' = [k \in Lots |-> balance[k] - draw[k] + (IF k = l THEN q ELSE 0)]
      /\ onHand' = [i \in Items |->
              onHand[i] - need[i] + (IF i = Product[w] THEN q ELSE 0)]
      /\ issued' = [i \in Items |-> issued[i] + need[i]]
      /\ quality' = [quality EXCEPT ![l] = IF @ = "NONE" THEN "OK" ELSE @]
      /\ source' = [source EXCEPT ![l] = IF quality[l] = "NONE" THEN w ELSE @]
      /\ reserved' = Unreserved(w, need)
      /\ UNCHANGED <<reserveRows, bom, snapshot>>
    BY DEF CompleteWorkOrder
<1> HIDE DEF need, draw
<1>3. /\ status[w] # "PLANNED" /\ status'[w] # "PLANNED"
      /\ completed'[w] = completed[w] + q /\ completed'[w] <= Quantity[w]
      /\ \A v \in WorkOrders : v # w => status'[v] = status[v] /\ completed'[v] = completed[v]
    BY <1>2 DEF Order!CompleteBatch, Order!OpenForExecution, IInv, TypeOK, Order!TypeOK
<1>4. w \in Docs /\ LotItem[l] = Product[w]
    BY <1>2, Constants DEF MayReceiveInto
<1>5. ASSUME NEW i \in Items
      PROVE  /\ reserved'[i] \in [Docs -> Int]
             /\ reserved'[i][w] = reserved[i][w] - need[i]
             /\ \A d \in Docs : d # w => reserved'[i][d] = reserved[i][d]
  <2>1. reserved[i] \in [Docs -> Int] /\ need[i] \in Int
      BY <1>1 DEF IInv, TypeOK, Stock!TypeOK
  <2>2. reserved'[i] = [reserved[i] EXCEPT ![w] = @ - need[i]]
      BY <1>2 DEF Unreserved
  <2> QED
      BY <1>4, <2>1, <2>2
<1>6. \A k \in Lots : balance[k] \in Int /\ draw[k] \in Int
    BY <1>2 DEF Stock!ValidDraw, IInv, TypeOK, Stock!TypeOK, Lots
<1>7. TypeOK'
  <2>1. Order!TypeOK'
      BY <1>2, OrderTypes DEF IInv, TypeOK
  <2>2. reserved' \in [Items -> [Docs -> Int]]
      BY <1>2, <1>5 DEF Unreserved
  <2>3. balance' \in [Stock!Lots -> Int]
      BY <1>1, <1>2, <1>6 DEF Lots
  <2>4. /\ quality' \in [Stock!Lots -> Stock!QualityStatus \union {"NONE"}]
        /\ source' \in [Stock!Lots -> Docs \union {NoDoc}]
      BY <1>2, <1>4 DEF IInv, TypeOK, Stock!TypeOK, Stock!QualityStatus
  <2>5. onHand' \in [Items -> Int] /\ issued' \in [Items -> Nat]
      BY <1>1, <1>2 DEF IInv, TypeOK, Stock!TypeOK
  <2>6. Stock!TypeOK'
      BY <1>2, <2>2, <2>3, <2>4, <2>5 DEF IInv, TypeOK, Stock!TypeOK
  <2> QED
      BY <1>2, <2>1, <2>6 DEF IInv, TypeOK
<1>8. ASSUME NEW i \in Items
      PROVE  Stock!Available(i)' = Stock!Available(i) + (IF i = Product[w] THEN q ELSE 0)
  <2> DEFINE L == Stock!LotsOf(i)
             mid == [k \in Lots |-> balance[k] - draw[k]]
             gain == IF i = Product[w] THEN q ELSE 0
  <2>1. IsFiniteSet(L) /\ L \subseteq Lots /\ (l \in L <=> i = Product[w])
      BY <1>4, Constants DEF Stock!LotsOf, Lots
  <2>2. SumFunctionOnSet(draw, L) = need[i]
      BY <1>2, StockSums DEF Stock!ValidDraw
  <2>3. \A k \in L : /\ mid[k] \in Int /\ draw[k] \in Int /\ balance[k] = mid[k] + draw[k]
                     /\ balance'[k] = mid[k] + (IF k = l THEN q ELSE 0) /\ balance'[k] \in Int
    <3> SUFFICES ASSUME NEW k \in L
                 PROVE  /\ mid[k] \in Int /\ draw[k] \in Int /\ balance[k] = mid[k] + draw[k]
                        /\ balance'[k] = mid[k] + (IF k = l THEN q ELSE 0)
                        /\ balance'[k] \in Int
        OBVIOUS
    <3>1. k \in Lots /\ mid[k] = balance[k] - draw[k]
        BY <2>1
    <3>2. balance[k] \in Int /\ draw[k] \in Int
        BY <1>6, <3>1
    <3>3. balance'[k] = balance[k] - draw[k] + (IF k = l THEN q ELSE 0)
        BY <1>2, <3>1
    <3> HIDE DEF mid, L
    <3> QED
        BY <1>1, <3>1, <3>2, <3>3
  <2> HIDE DEF L, mid
  <2>4. SumFunctionOnSet(balance, L) = SumFunctionOnSet(mid, L) + need[i]
      BY <2>1, <2>2, <2>3, SumAdd
  <2>5. SumFunctionOnSet(mid, L) \in Int
      BY <2>1, <2>3, SumType
  <2>6. SumFunctionOnSet(balance', L) = SumFunctionOnSet(mid, L) + gain
    <3>1. CASE i = Product[w]
      <4>1. l \in L /\ \A k \in L : k # l => balance'[k] = mid[k]
          BY <2>1, <2>3, <3>1
      <4>2. SumFunctionOnSet(balance', L) = SumFunctionOnSet(mid, L) - mid[l] + balance'[l]
          BY <2>1, <2>3, <4>1, SumChange
      <4>3. mid[l] \in Int /\ balance'[l] = mid[l] + q
          BY <2>3, <4>1
      <4> QED
          BY <1>1, <2>5, <3>1, <4>2, <4>3
    <3>2. CASE i # Product[w]
      <4>1. \A k \in L : mid[k] \in Int /\ balance'[k] = mid[k]
          BY <2>1, <2>3, <3>2
      <4>2. SumFunctionOnSet(balance', L) = SumFunctionOnSet(mid, L)
          BY <2>1, <4>1, SumSame
      <4> QED
          BY <2>5, <3>2, <4>2
    <3> QED
        BY <3>1, <3>2
  <2>7. /\ Stock!Reserved(i)' = Stock!Reserved(i) - need[i] /\ Stock!Reserved(i) \in Int
    <3>1. /\ Stock!Reserved(i)' = Stock!Reserved(i) - reserved[i][w] + reserved'[i][w]
          /\ Stock!Reserved(i) \in Int
        BY <1>5, <1>7, ReservedChange DEF IInv, TypeOK
    <3>2. reserved[i][w] \in Int /\ reserved'[i][w] = reserved[i][w] - need[i]
        BY <1>5, OrderFigures
    <3> QED
        BY <1>1, <3>1, <3>2
  <2>8. gain \in Int /\ need[i] \in Int
      BY <1>1
  <2>9. /\ Stock!Available(i) = SumFunctionOnSet(balance, L) - Stock!Reserved(i)
        /\ Stock!Available(i)' = SumFunctionOnSet(balance', L) - Stock!Reserved(i)'
      BY StockSums, StockSumsNext DEF L
  <2> HIDE DEF gain
  <2>10. Stock!Available(i)' = Stock!Available(i) + gain
      BY <2>4, <2>5, <2>6, <2>7, <2>8, <2>9
  <2> QED
      BY <2>10 DEF gain
<1>9. \A i \in Items : issued'[i] = issued[i] + need[i]
    BY <1>2
<1>10. \A i \in Items : \A v \in WorkOrders : v # w => reserved'[i][v] = reserved[i][v]
    BY <1>5, Constants
<1>11. \A i \in Items : reserved'[i][w] = reserved[i][w] - q * snapshot[w][i]
    BY <1>1, <1>5
<1> QED
    BY <1>1, <1>2, <1>3, <1>7, <1>8, <1>9, <1>10, <1>11

LEMMA AddedAt ==
    ASSUME NEW S, NEW f \in [S -> Int], NEW x \in S, NEW q \in Int
    PROVE  [f EXCEPT ![x] = @ + q] \in [S -> Int]
OBVIOUS

\* A receipt only adds to what is available.
LEMMA ReceiptMoves ==
    ASSUME IInv, NEW l \in Lots, NEW q \in 1..MaxTxn, Stock!Receive(l, q, NoDoc)
    PROVE  /\ Stock!TypeOK' /\ reserved' = reserved /\ issued' = issued
           /\ \A i \in Items : /\ Stock!Available(i)' \in Nat
                               /\ Stock!Available(i)' >= Stock!Available(i)
<1>1. /\ balance' = [balance EXCEPT ![l] = @ + q]
      /\ onHand' = [onHand EXCEPT ![LotItem[l]] = @ + q]
      /\ quality' = [quality EXCEPT ![l] = IF @ = "NONE" THEN "OK" ELSE @]
      /\ source' = [source EXCEPT ![l] = IF quality[l] = "NONE" THEN NoDoc ELSE @]
      /\ UNCHANGED <<issued, reserved, reserveRows>>
    BY DEF Stock!Receive
<1>2. q \in Int /\ q > 0
    OBVIOUS
<1>3. Stock!TypeOK /\ \A k \in Lots : balance[k] \in Int
    BY DEF IInv, TypeOK, Stock!TypeOK, Lots
<1>4. Stock!TypeOK'
  <2>1. balance' \in [Stock!Lots -> Int] /\ onHand' \in [Items -> Int]
    <3>1. balance \in [Stock!Lots -> Int] /\ onHand \in [Items -> Int]
        BY <1>3 DEF Stock!TypeOK
    <3>2. l \in Stock!Lots /\ LotItem[l] \in Items
        BY ProductionAssumption DEF Lots
    <3> QED
        BY <1>1, <1>2, <3>1, <3>2, AddedAt
  <2>2. /\ quality' \in [Stock!Lots -> Stock!QualityStatus \union {"NONE"}]
        /\ source' \in [Stock!Lots -> Docs \union {NoDoc}]
      BY <1>1, <1>3 DEF Stock!TypeOK, Stock!QualityStatus
  <2> QED
      BY <1>1, <1>3, <2>1, <2>2 DEF Stock!TypeOK
<1>5. \A k \in Lots : balance'[k] = balance[k] + (IF k = l THEN q ELSE 0)
    BY <1>1, <1>3 DEF Stock!TypeOK, Lots
<1>6. ASSUME NEW i \in Items
      PROVE  Stock!Available(i)' \in Nat /\ Stock!Available(i)' >= Stock!Available(i)
  <2>1. /\ SumFunctionOnSet(balance', Stock!LotsOf(i))
             = SumFunctionOnSet(balance, Stock!LotsOf(i)) + (IF i = LotItem[l] THEN q ELSE 0)
        /\ SumFunctionOnSet(balance, Stock!LotsOf(i)) \in Int
      BY <1>2, <1>3, <1>4, <1>5, LotGrows
  <2>2. Stock!Reserved(i)' = Stock!Reserved(i) /\ Stock!Reserved(i) \in Int
      BY <1>1, <1>3, Constants, StockSums, StockSumsNext, SumType DEF Stock!TypeOK
  <2>3. Stock!Available(i) \in Nat
      BY DEF IInv, NothingShort
  <2> QED
      BY <1>2, <2>1, <2>2, <2>3, StockSums, StockSumsNext
<1> QED
    BY <1>1, <1>4, <1>6

-----------------------------------------------------------------------------
(* The invariant *)

LEMMA InitIInv == Init => IInv
<1> SUFFICES ASSUME Init PROVE IInv
    OBVIOUS
<1>1. Order!Init /\ Stock!Init
    BY DEF Init
<1>2. TypeOK
  <2>1. Order!TypeOK
      BY <1>1 DEF Order!Init, Order!TypeOK, Order!WorkOrderStatus, Order!OperationStatus
  <2>2. Stock!TypeOK
      BY <1>1 DEF Stock!Init, Stock!TypeOK
  <2> QED
      BY <2>1, <2>2, ProductionAssumption DEF Init, TypeOK
<1>3. \A w \in WorkOrders : /\ status[w] = "PLANNED" /\ completed[w] = 0
                            /\ \A i \in Items : reserved[i][w] = 0 /\ snapshot[w][i] = 0
    BY <1>1, Constants DEF Order!Init, Stock!Init, Init
<1>4. \A w \in WorkOrders : ProgressAt(w)
    BY <1>3, Constants DEF ProgressAt
<1>5. \A i \in Items : Stock!Available(i) = 0
  <2> SUFFICES ASSUME NEW i \in Items PROVE Stock!Available(i) = 0
      OBVIOUS
  <2>1. \A k \in Stock!LotsOf(i) : balance[k] = 0
      BY <1>1, Constants DEF Stock!Init, Lots
  <2>2. \A d \in Docs : reserved[i][d] = 0
      BY <1>1 DEF Stock!Init
  <2>3. SumFunctionOnSet(balance, Stock!LotsOf(i)) = 0 /\ SumFunctionOnSet(reserved[i], Docs) = 0
      BY <2>1, <2>2, Constants, SumZero
  <2> QED
      BY <2>3, StockSums
<1>6. UsageMatchesCompletions
  <2> SUFFICES ASSUME NEW i \in Items
               PROVE  issued[i] = SumFunctionOnSet(
                          [w \in WorkOrders |-> snapshot[w][i] * completed[w]], WorkOrders)
      BY DEF UsageMatchesCompletions
  <2> DEFINE f == [w \in WorkOrders |-> snapshot[w][i] * completed[w]]
  <2>1. \A w \in WorkOrders : f[w] = 0
      BY <1>3
  <2> HIDE DEF f
  <2>2. SumFunctionOnSet(f, WorkOrders) = 0
      BY <2>1, Constants, SumZero
  <2> QED
      BY <1>1, <2>2 DEF f, Stock!Init
<1> QED
    BY <1>2, <1>3, <1>4, <1>5, <1>6 DEF IInv, NothingShort, ReservationMatchesOrder

\* The usage of each item follows one order's units.
LEMMA UsageChange ==
    ASSUME IInv, TypeOK', NEW w \in WorkOrders, NEW i \in Items, NEW d \in Int,
           \A v \in WorkOrders : v # w => /\ snapshot'[v] = snapshot[v]
                                          /\ completed'[v] = completed[v],
           snapshot'[w][i] * completed'[w] = snapshot[w][i] * completed[w] + d,
           issued'[i] = issued[i] + d
    PROVE  issued'[i] = SumFunctionOnSet(
               [v \in WorkOrders |-> snapshot'[v][i] * completed'[v]], WorkOrders)
<1> DEFINE f == [v \in WorkOrders |-> snapshot[v][i] * completed[v]]
           g == [v \in WorkOrders |-> snapshot'[v][i] * completed'[v]]
<1>1. \A v \in WorkOrders : /\ snapshot[v][i] \in Nat /\ completed[v] \in Nat
                            /\ snapshot'[v][i] \in Nat /\ completed'[v] \in Nat
    BY DEF IInv, TypeOK, Order!TypeOK
<1>2. \A v \in WorkOrders : f[v] \in Int /\ g[v] \in Int /\ (v # w => g[v] = f[v])
    BY <1>1, Times
<1>3. g[w] = f[w] + d
    OBVIOUS
<1>4. issued[i] = SumFunctionOnSet(f, WorkOrders)
    BY DEF IInv, UsageMatchesCompletions
<1> HIDE DEF f, g
<1>5. SumFunctionOnSet(g, WorkOrders) = SumFunctionOnSet(f, WorkOrders) - f[w] + g[w]
    BY <1>2, Constants, SumChange
<1>6. SumFunctionOnSet(f, WorkOrders) \in Int /\ f[w] \in Int
    BY <1>2, Constants, SumType
<1>7. issued'[i] = SumFunctionOnSet(g, WorkOrders)
    BY <1>3, <1>4, <1>5, <1>6
<1> QED
    BY <1>7 DEF g

LEMMA ReleaseKeeps ==
    ASSUME IInv, NEW w \in WorkOrders, ReleaseWorkOrder(w)
    PROVE  IInv'
<1> DEFINE q == Quantity[w]
<1>1. /\ TypeOK'
      /\ status[w] = "PLANNED" /\ status'[w] # "PLANNED" /\ completed' = completed
      /\ \A v \in WorkOrders : v # w => status'[v] = status[v] /\ snapshot'[v] = snapshot[v]
      /\ \A i \in Items :
           /\ reserved'[i][w] = snapshot'[w][i] * q
           /\ \A v \in WorkOrders : v # w => reserved'[i][v] = reserved[i][v]
           /\ Stock!Available(i)' \in Nat
      /\ issued' = issued
    BY ReleaseMoves
<1> HIDE DEF q
<1>2. completed[w] = 0 /\ q \in Nat /\ \A i \in Items : snapshot[w][i] \in Nat /\ snapshot'[w][i] \in Nat
    BY <1>1, Constants DEF IInv, ProgressAt, TypeOK, q
<1>3. \A v \in WorkOrders : ProgressAt(v)'
    BY <1>1 DEF IInv, ProgressAt
<1>4. NothingShort'
    BY <1>1 DEF NothingShort
<1>5. ReservationMatchesOrder'
  <2> SUFFICES ASSUME NEW v \in WorkOrders, NEW i \in Items
               PROVE  reserved'[i][v] = IF status'[v] = "PLANNED" THEN 0
                                        ELSE snapshot'[v][i] * (Quantity[v] - completed'[v])
      BY DEF ReservationMatchesOrder
  <2>1. CASE v = w
    <3>1. q - completed'[w] = q
        BY <1>1, <1>2
    <3> QED
        BY <1>1, <2>1, <3>1 DEF q
  <2>2. CASE v # w
      BY <1>1, <2>2 DEF IInv, ReservationMatchesOrder
  <2> QED
      BY <2>1, <2>2
<1>6. UsageMatchesCompletions'
  <2> SUFFICES ASSUME NEW i \in Items
               PROVE  issued'[i] = SumFunctionOnSet(
                          [v \in WorkOrders |-> snapshot'[v][i] * completed'[v]], WorkOrders)
      BY DEF UsageMatchesCompletions
  <2>1. snapshot'[w][i] * completed'[w] = snapshot[w][i] * completed[w] + 0
      BY <1>1, <1>2, Times
  <2>2. issued'[i] = issued[i] + 0
      BY <1>1 DEF IInv, TypeOK, Stock!TypeOK
  <2>3. \A v \in WorkOrders : v # w => snapshot'[v] = snapshot[v] /\ completed'[v] = completed[v]
      BY <1>1
  <2>4. TypeOK' /\ 0 \in Int
      BY <1>1
  <2> QED
      BY <2>1, <2>2, <2>3, <2>4, UsageChange
<1> QED
    BY <1>1, <1>3, <1>4, <1>5, <1>6 DEF IInv

LEMMA CompletionKeeps ==
    ASSUME IInv, NEW w \in WorkOrders, NEW id \in CompletionIds, NEW q \in 1..Quantity[w],
           NEW l \in Lots, CompleteWorkOrder(w, id, q, l)
    PROVE  IInv'
<1>1. /\ TypeOK'
      /\ status[w] # "PLANNED" /\ status'[w] # "PLANNED"
      /\ completed'[w] = completed[w] + q /\ completed'[w] <= Quantity[w]
      /\ \A v \in WorkOrders : v # w => status'[v] = status[v] /\ completed'[v] = completed[v]
      /\ snapshot' = snapshot
      /\ \A i \in Items :
           /\ reserved'[i][w] = reserved[i][w] - q * snapshot[w][i]
           /\ \A v \in WorkOrders : v # w => reserved'[i][v] = reserved[i][v]
           /\ issued'[i] = issued[i] + q * snapshot[w][i]
           /\ Stock!Available(i)' = Stock!Available(i) + (IF i = Product[w] THEN q ELSE 0)
    BY CompletionMoves
<1>2. q \in Nat /\ completed[w] \in Nat /\ Quantity[w] \in Nat
    BY OrderFigures
<1>3. \A v \in WorkOrders : ProgressAt(v)'
    BY <1>1 DEF IInv, ProgressAt
<1>4. NothingShort'
    BY <1>1, <1>2 DEF IInv, NothingShort
<1>5. ReservationMatchesOrder'
  <2> SUFFICES ASSUME NEW v \in WorkOrders, NEW i \in Items
               PROVE  reserved'[i][v] = IF status'[v] = "PLANNED" THEN 0
                                        ELSE snapshot'[v][i] * (Quantity[v] - completed'[v])
      BY DEF ReservationMatchesOrder
  <2>1. CASE v = w
    <3>1. reserved[i][w] = snapshot[w][i] * (Quantity[w] - completed[w])
        BY <1>1 DEF IInv, ReservationMatchesOrder
    <3>2. /\ Quantity[w] - completed'[w] = (Quantity[w] - completed[w]) - q
          /\ Quantity[w] - completed[w] \in Int /\ q \in Int /\ snapshot[w][i] \in Int
        BY <1>1, <1>2, OrderFigures
    <3>3. snapshot[w][i] * ((Quantity[w] - completed[w]) - q)
            = snapshot[w][i] * (Quantity[w] - completed[w]) - snapshot[w][i] * q
      <4> DEFINE a == snapshot[w][i]
                 left == Quantity[w] - completed[w]
      <4>1. a \in Int /\ left \in Int /\ q \in Int
          BY <3>2
      <4> HIDE DEF a, left
      <4>2. a * (left - q) = a * left - a * q
          BY <4>1, Times
      <4> QED
          BY <4>2 DEF a, left
    <3>4. q * snapshot[w][i] = snapshot[w][i] * q
        BY <3>2, Times
    <3>5. reserved'[i][w] = snapshot'[w][i] * (Quantity[w] - completed'[w])
        BY <1>1, <3>1, <3>2, <3>3, <3>4
    <3> QED
        BY <1>1, <2>1, <3>5
  <2>2. CASE v # w
      BY <1>1, <2>2 DEF IInv, ReservationMatchesOrder
  <2> QED
      BY <2>1, <2>2
<1>6. UsageMatchesCompletions'
  <2> SUFFICES ASSUME NEW i \in Items
               PROVE  issued'[i] = SumFunctionOnSet(
                          [v \in WorkOrders |-> snapshot'[v][i] * completed'[v]], WorkOrders)
      BY DEF UsageMatchesCompletions
  <2> DEFINE d == q * snapshot[w][i]
  <2>1. snapshot[w][i] \in Int /\ q \in Int /\ completed[w] \in Int
      BY <1>2, OrderFigures
  <2>2. d \in Int /\ d = snapshot[w][i] * q
      BY <2>1, Times
  <2>3. snapshot'[w][i] * completed'[w] = snapshot[w][i] * completed[w] + d
      BY <1>1, <2>1, <2>2, Times
  <2>4. issued'[i] = issued[i] + d
      BY <1>1
  <2>5. \A v \in WorkOrders : v # w => snapshot'[v] = snapshot[v] /\ completed'[v] = completed[v]
      BY <1>1
  <2> HIDE DEF d
  <2> QED
      BY <1>1, <2>2, <2>3, <2>4, <2>5, UsageChange
<1> QED
    BY <1>1, <1>3, <1>4, <1>5, <1>6 DEF IInv

\* A step that leaves orders' figures and reservations alone keeps the rest.
LEMMA OtherKeeps ==
    ASSUME IInv, TypeOK', UNCHANGED <<completed, reserved, issued, snapshot>>,
           \A v \in WorkOrders : status'[v] = "PLANNED" <=> status[v] = "PLANNED",
           NothingShort'
    PROVE  IInv'
<1>1. \A v \in WorkOrders : ProgressAt(v)'
    BY DEF IInv, ProgressAt
<1>2. ReservationMatchesOrder'
    BY DEF IInv, ReservationMatchesOrder
<1>3. UsageMatchesCompletions'
    BY DEF IInv, UsageMatchesCompletions
<1> QED
    BY <1>1, <1>2, <1>3 DEF IInv

LEMMA StockSame ==
    ASSUME UNCHANGED <<balance, reserved>>
    PROVE  \A i : Stock!Available(i)' = Stock!Available(i)
BY StockSums, StockSumsNext

LEMMA NextKeeps == IInv /\ [Next]_vars => IInv'
<1> SUFFICES ASSUME IInv, [Next]_vars PROVE IInv'
    OBVIOUS
<1>1. ASSUME NEW w \in WorkOrders, ReleaseWorkOrder(w) PROVE IInv'
    BY <1>1, ReleaseKeeps
<1>2. ASSUME NEW w \in WorkOrders, NEW id \in CompletionIds, NEW q \in 1..Quantity[w],
             NEW l \in Lots, CompleteWorkOrder(w, id, q, l)
      PROVE  IInv'
    BY <1>2, CompletionKeeps
<1>3. CASE RunShopFloor
  <2>1. PICK w \in WorkOrders : Order!ExecuteOperation(w) \/ Order!CloseOrder(w)
      BY <1>3 DEF RunShopFloor
  <2>2. /\ completed' = completed
        /\ \A v \in WorkOrders : status'[v] = "PLANNED" <=> status[v] = "PLANNED"
      BY <2>1, ShopFloorOrder
  <2>3. UNCHANGED <<stockVars, bom, snapshot>>
      BY <1>3 DEF RunShopFloor
  <2>4. TypeOK'
      BY <2>1, <2>3, OrderTypes DEF IInv, TypeOK, stockVars, Stock!TypeOK
  <2>5. NothingShort'
      BY <2>3, StockSame DEF IInv, NothingShort, stockVars
  <2> QED
      BY <2>2, <2>3, <2>4, <2>5, OtherKeeps DEF stockVars
<1>4. CASE ChangeBOM
  <2>1. PICK r \in Revisions : ReviseBOM(r[1], r[2], r[3])
      BY <1>4 DEF ChangeBOM
  <2>2. r[1] \in Items /\ r[2] \in Items /\ r[3] \in Nat
      BY ProductionAssumption
  <2>3. bom' = [bom EXCEPT ![r[1]][r[2]] = r[3]] /\ UNCHANGED <<orderVars, stockVars, snapshot>>
      BY <2>1 DEF ReviseBOM
  <2>4. bom' \in [Items -> [Items -> Nat]]
      BY <2>2, <2>3 DEF IInv, TypeOK
  <2>5. TypeOK'
      BY <2>3, <2>4 DEF IInv, TypeOK, stockVars, orderVars, Stock!TypeOK, Order!TypeOK
  <2>6. NothingShort'
      BY <2>3, StockSame DEF IInv, NothingShort, stockVars
  <2> QED
      BY <2>3, <2>5, <2>6, OtherKeeps DEF stockVars, orderVars
<1>5. CASE Stock!InspectLot /\ UNCHANGED <<orderVars, bom, snapshot>>
  <2>1. PICK l \in InspectedLots, result \in {"PASS", "HOLD", "FAIL"} : Stock!Inspect(l, result)
      BY <1>5 DEF Stock!InspectLot
  <2>2. /\ quality' = [quality EXCEPT ![l] = Stock!QualityStatusForResult(result)]
        /\ UNCHANGED <<balance, source, onHand, issued, reserved, reserveRows>>
      BY <2>1 DEF Stock!Inspect
  <2>3. Stock!QualityStatusForResult(result) \in Stock!QualityStatus
      BY DEF Stock!QualityStatusForResult, Stock!QualityStatus
  <2>4. TypeOK'
      BY <1>5, <2>2, <2>3 DEF IInv, TypeOK, orderVars, Stock!TypeOK, Order!TypeOK
  <2>5. NothingShort'
      BY <2>2, StockSame DEF IInv, NothingShort
  <2> QED
      BY <1>5, <2>2, <2>4, <2>5, OtherKeeps DEF orderVars
<1>6. ASSUME NEW l \in Lots, NEW q \in 1..MaxTxn, Stock!Receive(l, q, NoDoc),
             UNCHANGED <<orderVars, bom, snapshot>>
      PROVE  IInv'
  <2>1. /\ Stock!TypeOK' /\ reserved' = reserved /\ issued' = issued
        /\ \A i \in Items : Stock!Available(i)' \in Nat
      BY <1>6, ReceiptMoves
  <2>2. TypeOK'
      BY <1>6, <2>1 DEF IInv, TypeOK, orderVars, Order!TypeOK
  <2> QED
      BY <1>6, <2>1, <2>2, OtherKeeps DEF orderVars, NothingShort
<1>7. CASE UNCHANGED vars
  <2>1. UNCHANGED <<orderVars, stockVars, bom, snapshot>>
      BY <1>7 DEF vars
  <2>2. TypeOK'
      BY <2>1 DEF IInv, TypeOK, stockVars, orderVars, Stock!TypeOK, Order!TypeOK
  <2>3. NothingShort'
      BY <2>1, StockSame DEF IInv, NothingShort, stockVars
  <2> QED
      BY <2>1, <2>2, <2>3, OtherKeeps DEF stockVars, orderVars
<1> QED
    BY <1>1, <1>2, <1>3, <1>4, <1>5, <1>6, <1>7 DEF Next, ReleaseOrComplete, ReceiveOrInspect, Lots

THEOREM Inductive == Spec => []IInv
BY InitIInv, NextKeeps, PTL DEF Spec

\* Every reachable state has the declared types.
THEOREM TypeCorrect == Spec => []TypeOK
<1>1. IInv => TypeOK
    BY DEF IInv
<1> QED
    BY <1>1, Inductive, PTL

\* An order always holds exactly what its open units need by the bill of
\* materials of its release, through batches, retries and revisions.
THEOREM ReservationSafe == Spec => []ReservationMatchesOrder
<1>1. IInv => ReservationMatchesOrder
    BY DEF IInv
<1> QED
    BY <1>1, Inductive, PTL

\* What the ledger shows as issued is what the completed units needed.
THEOREM UsageSafe == Spec => []UsageMatchesCompletions
<1>1. IInv => UsageMatchesCompletions
    BY DEF IInv
<1> QED
    BY <1>1, Inductive, PTL

-----------------------------------------------------------------------------
(* The refinements *)

\* The figures, by the names of Commitments, are amounts.
Figures ==
    /\ [i \in Items |-> Stock!Available(i)] \in Promises!Amounts
    /\ \A w \in WorkOrders :
         /\ [i \in Items |-> reserved[i][w]] \in Promises!Amounts
         /\ [i \in Items |-> snapshot[w][i] * completed[w]] \in Promises!Amounts

LEMMA FiguresAreAmounts == IInv => Figures
<1> SUFFICES ASSUME IInv PROVE Figures
    OBVIOUS
<1>1. ASSUME NEW w \in WorkOrders, NEW i \in Items
      PROVE  reserved[i][w] \in Nat /\ snapshot[w][i] * completed[w] \in Nat
  <2>1. /\ snapshot[w][i] \in Nat /\ completed[w] \in Nat
        /\ Quantity[w] - completed[w] \in Nat
      BY OrderFigures
  <2>2. /\ snapshot[w][i] * (Quantity[w] - completed[w]) \in Nat
        /\ snapshot[w][i] * completed[w] \in Nat
      BY <2>1, Times
  <2> QED
      BY <2>2 DEF IInv, ReservationMatchesOrder
<1> QED
    BY <1>1 DEF IInv, NothingShort, Promises!Amounts, Figures

LEMMA FiguresNext == IInv' => Figures'
BY FiguresAreAmounts, PTL

\* Production implements Commitments: a release promises all an order needs or
\* nothing, a completion uses that promise, and nothing else takes from it.
THEOREM CommitmentsKept == Spec => ImplementsCommitments
<1> DEFINE free == [i \in Items |-> Stock!Available(i)]
           promised == [w \in WorkOrders |-> [i \in Items |-> reserved[i][w]]]
           used == [w \in WorkOrders |-> [i \in Items |-> snapshot[w][i] * completed[w]]]
<1>1. Init => Promises!CommitInit
  <2> SUFFICES ASSUME Init PROVE Promises!CommitInit
      OBVIOUS
  <2>1. IInv
      BY InitIInv
  <2>2. \A w \in WorkOrders, i \in Items : reserved[i][w] = 0 /\ snapshot[w][i] * completed[w] = 0
      BY <2>1, Constants, Times DEF Init, Order!Init, Stock!Init
  <2>3. \A i \in Items : Stock!Available(i) = 0
    <3> SUFFICES ASSUME NEW i \in Items PROVE Stock!Available(i) = 0
        OBVIOUS
    <3>1. \A k \in Stock!LotsOf(i) : balance[k] = 0
        BY Constants DEF Init, Stock!Init, Lots
    <3>2. \A d \in Docs : reserved[i][d] = 0
        BY DEF Init, Stock!Init
    <3> QED
        BY <3>1, <3>2, Constants, SumZero, StockSums
  <2> QED
      BY <2>2, <2>3 DEF Promises!CommitInit, Promises!Nothing
<1>2. IInv /\ IInv' /\ [Next]_vars => [Promises!CommitNext]_Promises!commitVars
  <2> SUFFICES ASSUME IInv, IInv', [Next]_vars
               PROVE  Promises!CommitNext \/ UNCHANGED <<free, promised, used>>
      BY DEF Promises!commitVars
  <2>1. ASSUME NEW w \in WorkOrders, ReleaseWorkOrder(w) PROVE Promises!Promise(w)
    <3>1. /\ status[w] = "PLANNED" /\ completed' = completed
          /\ \A v \in WorkOrders : v # w => snapshot'[v] = snapshot[v]
          /\ \A i \in Items :
               /\ \A v \in WorkOrders : v # w => reserved'[i][v] = reserved[i][v]
               /\ Stock!Available(i)' = Stock!Available(i) - reserved'[i][w]
        BY <2>1, ReleaseMoves
    <3>2. completed[w] = 0 /\ completed'[w] = 0 /\ \A i \in Items : reserved[i][w] = 0
        BY <3>1 DEF IInv, ProgressAt, ReservationMatchesOrder
    <3>3. \A i \in Items : snapshot[w][i] * completed[w] = 0 /\ snapshot'[w][i] * completed'[w] = 0
        BY <3>2, Times DEF IInv, TypeOK
    <3>4. promised[w] = Promises!Nothing /\ used[w] = Promises!Nothing
        BY <3>2, <3>3 DEF Promises!Nothing
    <3>5. used' = used
        BY <3>1, <3>3
    <3>6. promised' = [promised EXCEPT ![w] = promised'[w]]
        BY <3>1
    <3>7. promised'[w] \in Promises!Amounts /\ free' \in Promises!Amounts
        BY FiguresNext DEF Figures
    <3>8. \A i \in Items : free'[i] = free[i] - promised'[w][i]
        BY <3>1
    <3> QED
        BY <3>4, <3>5, <3>6, <3>7, <3>8
           DEF Promises!Promise, Promises!Uncommitted, Promises!OnlyOrder
  <2>2. ASSUME NEW w \in WorkOrders, NEW id \in CompletionIds, NEW q \in 1..Quantity[w],
               NEW l \in Lots, CompleteWorkOrder(w, id, q, l)
        PROVE  Promises!Fulfil(w)
    <3>1. /\ completed'[w] = completed[w] + q
          /\ \A v \in WorkOrders : v # w => completed'[v] = completed[v]
          /\ snapshot' = snapshot
          /\ \A i \in Items :
               /\ reserved'[i][w] = reserved[i][w] - q * snapshot[w][i]
               /\ \A v \in WorkOrders : v # w => reserved'[i][v] = reserved[i][v]
               /\ Stock!Available(i)' = Stock!Available(i) + (IF i = Product[w] THEN q ELSE 0)
        BY <2>2, CompletionMoves
    <3>2. promised' = [promised EXCEPT ![w] = promised'[w]]
      <4>1. \A v \in WorkOrders : v # w => promised'[v] = promised[v]
          BY <3>1
      <4>2. promised' = [v \in WorkOrders |-> promised'[v]]
          OBVIOUS
      <4>3. promised = [v \in WorkOrders |-> promised[v]]
          OBVIOUS
      <4> HIDE DEF promised
      <4> QED
          BY <4>1, <4>2, <4>3
    <3>3. used' = [used EXCEPT ![w] = used'[w]]
        BY <3>1
    <3>4. /\ promised'[w] \in Promises!Amounts /\ used'[w] \in Promises!Amounts
          /\ free' \in Promises!Amounts
        BY FiguresNext DEF Figures
    <3>5. ASSUME NEW i \in Items
          PROVE  /\ promised'[w][i] <= promised[w][i]
                 /\ promised'[w][i] + used'[w][i] = promised[w][i] + used[w][i]
      <4>1. /\ q \in Nat /\ snapshot[w][i] \in Nat /\ completed[w] \in Nat
            /\ reserved[i][w] \in Int
          BY OrderFigures
      <4>2. /\ q * snapshot[w][i] \in Nat /\ q * snapshot[w][i] = snapshot[w][i] * q
            /\ snapshot[w][i] * completed[w] \in Nat
        <5> DEFINE a == snapshot[w][i]
                   b == completed[w]
        <5>1. a \in Nat /\ b \in Nat /\ q \in Nat
            BY <4>1
        <5> HIDE DEF a, b
        <5>2. q * a \in Nat /\ a * b \in Nat
            BY <5>1, Times
        <5>3. q * a = a * q
            BY <5>1, Times
        <5> QED
            BY <5>2, <5>3 DEF a, b
      <4>3. snapshot'[w][i] * completed'[w] = snapshot[w][i] * completed[w] + snapshot[w][i] * q
          BY <3>1, <4>1, Times
      <4>4. /\ promised'[w][i] = reserved[i][w] - q * snapshot[w][i] /\ promised[w][i] = reserved[i][w]
            /\ used'[w][i] = snapshot'[w][i] * completed'[w]
            /\ used[w][i] = snapshot[w][i] * completed[w]
          BY <3>1
      <4> HIDE DEF promised, used
      <4> QED
          BY <4>1, <4>2, <4>3, <4>4
    <3>6. \A i \in Items : free'[i] >= free[i]
      <4>1. q \in Nat /\ \A i \in Items : Stock!Available(i) \in Nat
          BY OrderFigures
      <4> QED
          BY <3>1, <4>1
    <3> QED
        BY <3>2, <3>3, <3>4, <3>5, <3>6
           DEF Promises!Fulfil, Promises!OnlyOrder, Promises!Gained
  <2>3. CASE ReceiveOrInspect /\ ~Stock!InspectLot
    <3>1. PICK l \in Lots, q \in 1..MaxTxn : Stock!Receive(l, q, NoDoc)
        BY <2>3 DEF ReceiveOrInspect, Lots
    <3>2. reserved' = reserved /\ \A i \in Items : Stock!Available(i)' >= Stock!Available(i)
        BY <3>1, ReceiptMoves
    <3>3. free' \in Promises!Amounts
        BY FiguresNext DEF Figures
    <3>4. promised' = promised /\ used' = used
        BY <2>3, <3>2 DEF ReceiveOrInspect, orderVars
    <3>5. Promises!Supply
        BY <3>2, <3>3, <3>4 DEF Promises!Supply, Promises!Gained
    <3> QED
        BY <3>5 DEF Promises!CommitNext
  <2>4. CASE UNCHANGED <<balance, reserved, snapshot, completed>>
    <3>1. free' = free
        BY <2>4, StockSame
    <3> QED
        BY <2>4, <3>1
  <2>5. CASE RunShopFloor \/ ChangeBOM \/ UNCHANGED vars
    <3>1. ASSUME RunShopFloor PROVE UNCHANGED <<balance, reserved, snapshot, completed>>
        BY <3>1, ShopFloorOrder DEF RunShopFloor, stockVars
    <3> QED
        BY <2>4, <2>5, <3>1 DEF ChangeBOM, ReviseBOM, vars, stockVars, orderVars
  <2>6. CASE ReceiveOrInspect /\ Stock!InspectLot
      BY <2>4, <2>6 DEF ReceiveOrInspect, Stock!InspectLot, Stock!Inspect, orderVars
  <2> QED
      BY <2>1, <2>2, <2>3, <2>5, <2>6 DEF Next, ReleaseOrComplete, Promises!CommitNext, Lots
<1> QED
    BY <1>1, <1>2, Inductive, PTL DEF Spec, ImplementsCommitments, Promises!CommitSpec

\* No unit is promised to two orders: what is free and what each order holds or
\* has used never fall below nothing.
THEOREM NothingPromisedTwice == Spec => []Promises!NeverOverPromised
<1>1. IInv => Promises!NeverOverPromised
    BY FiguresAreAmounts DEF Figures, Promises!NeverOverPromised
<1> QED
    BY <1>1, Inductive, PTL

\* The order part of production is a work order execution, so all that is proved
\* of WorkOrderExecution holds of the orders here.
THEOREM OrdersExecute == Spec => Order!Spec
<1>1. Init => Order!Init
    BY DEF Init
<1>2. [Next]_vars => [Order!Next]_Order!vars
  <2> SUFFICES ASSUME [Next]_vars PROVE Order!Next \/ UNCHANGED orderVars
      BY DEF orderVars, Order!vars
  <2>1. ASSUME NEW w \in WorkOrders, ReleaseWorkOrder(w) PROVE Order!Next
      BY <2>1 DEF ReleaseWorkOrder, Order!Next
  <2>2. ASSUME NEW w \in WorkOrders, NEW id \in CompletionIds, NEW q \in 1..Quantity[w],
               NEW l \in Lots, CompleteWorkOrder(w, id, q, l)
        PROVE  Order!Next
      BY <2>2 DEF CompleteWorkOrder, Order!Next, Order!CompleteOrder
  <2>3. CASE RunShopFloor
      BY <2>3 DEF RunShopFloor, Order!Next
  <2>4. CASE ChangeBOM \/ ReceiveOrInspect \/ UNCHANGED vars
      BY <2>4 DEF ChangeBOM, ReviseBOM, ReceiveOrInspect, vars
  <2> QED
      BY <2>1, <2>2, <2>3, <2>4 DEF Next, ReleaseOrComplete
<1> QED
    BY <1>1, <1>2, PTL DEF Spec, Order!Spec
=============================================================================
