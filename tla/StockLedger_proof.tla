-------------------------- MODULE StockLedger_proof --------------------------
(* Lots never go negative, quarantined stock is never issued, and the two     *)
(* books agree, for any items, lots and bounds.  None of these needs to know  *)
(* what FIFO allocates: every posting is validated lot by lot first.  What it *)
(* does allocate comes last.                                                  *)
EXTENDS StockLedger, Sums_proof, TLAPS

IInv == TypeOK /\ NoNegativeLot /\ LotsReconcile

LEMMA LotsFinite == \A i \in Items : IsFiniteSet(LotsOf(i)) /\ LotsOf(i) \subseteq Lots
BY StockAssumption, FS_Interval, FS_Subset DEF Lots, LotsOf

LEMMA FirstState == Init => IInv
<1> SUFFICES ASSUME Init PROVE IInv
    OBVIOUS
<1>1. TypeOK /\ NoNegativeLot
    BY StockAssumption DEF Init, TypeOK, NoNegativeLot, Lots
<1>2. \A i \in Items : SumFunctionOnSet(balance, LotsOf(i)) = 0
    BY LotsFinite, SumZero DEF Init
<1> QED
    BY <1>1, <1>2 DEF Init, IInv, LotsReconcile

\* A validated withdrawal, whatever chose its lots.
LEMMA TakeKeeps ==
    ASSUME IInv, NEW i \in Items, NEW q \in Nat, NEW grades, NEW draw,
           ValidDraw(Only(i, q), grades, draw),
           TakeStock(Only(i, q), draw),
           issued' \in [Items -> Nat]
    PROVE  IInv'
<1>1. /\ balance' \in [Lots -> Int]
      /\ \A l \in Lots : balance'[l] >= 0
    BY DEF IInv, TypeOK, NoNegativeLot, ValidDraw, TakeStock
<1>2. onHand' \in [Items -> Int]
    BY DEF IInv, TypeOK, TakeStock, Only
<1>3. LotsReconcile'
  <2> SUFFICES ASSUME NEW j \in Items PROVE onHand'[j] = SumFunctionOnSet(balance', LotsOf(j))
      BY DEF LotsReconcile, LotsOf
  <2>1. SumFunctionOnSet(balance, LotsOf(j))
          = SumFunctionOnSet(balance', LotsOf(j)) + SumFunctionOnSet(draw, LotsOf(j))
    <3>1. \A l \in Lots : balance'[l] \in Int /\ draw[l] \in Int /\ balance[l] = balance'[l] + draw[l]
        BY <1>1 DEF IInv, TypeOK, ValidDraw, TakeStock
    <3> QED
        BY <3>1, LotsFinite, SumAdd
  <2>2. SumFunctionOnSet(draw, LotsOf(j)) = Only(i, q)[j] /\ Only(i, q)[j] \in Int
      BY DEF ValidDraw, Only
  <2>3. SumFunctionOnSet(balance', LotsOf(j)) \in Int
      BY <1>1, LotsFinite, SumType
  <2> QED
      BY <2>1, <2>2, <2>3 DEF IInv, LotsReconcile, TakeStock
<1> QED
    BY <1>1, <1>2, <1>3 DEF IInv, TypeOK, NoNegativeLot, TakeStock

\* A withdrawal limited to issuable lots leaves all others as they are.
LEMMA TakeSpares ==
    ASSUME IInv, NEW need, NEW draw, NEW l \in Lots,
           ValidDraw(need, Issuable, draw), TakeStock(need, draw),
           quality[l] # "OK"
    PROVE  balance'[l] = balance[l]
<1>1. draw[l] \in 0..balance[l] /\ balance[l] \in Int
    BY DEF ValidDraw, IInv, TypeOK
<1>2. ~(draw[l] > 0)
    BY DEF ValidDraw, Issuable
<1> QED
    BY <1>1, <1>2 DEF TakeStock

LEMMA UsageGrows ==
    ASSUME IInv, NEW i \in Items, NEW q \in Nat,
           issued' = [issued EXCEPT ![i] = @ + q]
    PROVE  issued' \in [Items -> Nat]
BY DEF IInv, TypeOK

LEMMA ReceiveKeeps ==
    ASSUME IInv, NEW l \in Lots, NEW q \in Nat, NEW doc \in Docs \union {NoDoc},
           Receive(l, q, doc)
    PROVE  IInv' /\ \A k \in Lots : balance'[k] >= balance[k]
<1>1. LotItem[l] \in Items
    BY StockAssumption
<1>2. /\ balance' = [balance EXCEPT ![l] = @ + q]
      /\ onHand' = [onHand EXCEPT ![LotItem[l]] = @ + q]
      /\ quality' = [quality EXCEPT ![l] = IF @ = "NONE" THEN "OK" ELSE @]
      /\ source' = [source EXCEPT ![l] = IF quality[l] = "NONE" THEN doc ELSE @]
      /\ UNCHANGED <<issued, reserved, reserveRows>>
    BY DEF Receive
<1>3. /\ balance' \in [Lots -> Int]
      /\ \A k \in Lots : balance'[k] >= 0 /\ balance'[k] >= balance[k]
    BY <1>2 DEF IInv, TypeOK, NoNegativeLot
<1>4. onHand' \in [Items -> Int]
    BY <1>1, <1>2 DEF IInv, TypeOK
<1>5. /\ quality' \in [Lots -> QualityStatus \union {"NONE"}]
      /\ source' \in [Lots -> Docs \union {NoDoc}]
    BY <1>2 DEF IInv, TypeOK, QualityStatus
<1>6. LotsReconcile'
  <2> SUFFICES ASSUME NEW j \in Items PROVE onHand'[j] = SumFunctionOnSet(balance', LotsOf(j))
      BY DEF LotsReconcile, LotsOf
  <2>1. \A k \in LotsOf(j) : balance[k] \in Int /\ balance'[k] \in Int
                              /\ (k # l => balance'[k] = balance[k])
      BY <1>2, <1>3, LotsFinite DEF IInv, TypeOK
  <2>2. CASE j = LotItem[l]
    <3>1. l \in LotsOf(j) /\ balance'[l] = balance[l] + q /\ balance[l] \in Int
        BY <1>2, <2>2 DEF LotsOf, IInv, TypeOK
    <3>2. SumFunctionOnSet(balance', LotsOf(j))
            = SumFunctionOnSet(balance, LotsOf(j)) - balance[l] + balance'[l]
        BY <2>1, <3>1, LotsFinite, SumChange
    <3>3. onHand'[j] = onHand[j] + q /\ onHand[j] \in Int
        BY <1>2, <2>2 DEF IInv, TypeOK
    <3> QED
        BY <3>1, <3>2, <3>3 DEF IInv, LotsReconcile
  <2>3. CASE j # LotItem[l]
    <3>1. l \notin LotsOf(j) /\ onHand'[j] = onHand[j]
        BY <1>1, <1>2, <2>3 DEF LotsOf, IInv, TypeOK
    <3>2. SumFunctionOnSet(balance', LotsOf(j)) = SumFunctionOnSet(balance, LotsOf(j))
        BY <2>1, <3>1, LotsFinite, SumSame
    <3> QED
        BY <3>1, <3>2 DEF IInv, LotsReconcile
  <2> QED
      BY <2>2, <2>3
<1> QED
    BY <1>2, <1>3, <1>4, <1>5, <1>6 DEF IInv, TypeOK, NoNegativeLot

LEMMA IssueKeeps ==
    ASSUME IInv, NEW i \in Items, NEW q \in Nat, Issue(i, q)
    PROVE  /\ IInv'
           /\ \A l \in Lots : quality[l] # "OK" => balance'[l] = balance[l]
BY TakeKeeps, TakeSpares, UsageGrows DEF Issue

LEMMA AdjustKeeps ==
    ASSUME IInv, NEW i \in Items, NEW q \in Nat, NEW grades, AdjustDown(i, q, grades)
    PROVE  IInv' /\ issued' = issued
BY TakeKeeps DEF AdjustDown, IInv, TypeOK

LEMMA DrawKeeps ==
    ASSUME IInv, NEW l \in Lots, NEW q \in Nat, NEW t \in {"ISSUE", "ADJUST"},
           DrawLot(l, q, t)
    PROVE  /\ IInv'
           /\ issued' = issued
              \/ \A k \in Lots : quality[k] # "OK" => balance'[k] = balance[k]
<1> DEFINE i == LotItem[l]
           draw == [k \in Lots |-> IF k = l THEN q ELSE 0]
<1>1. i \in Items
    BY StockAssumption
<1>2. CASE t = "ISSUE"
  <2>1. /\ ValidDraw(Only(i, q), Issuable, draw)
        /\ TakeStock(Only(i, q), draw)
        /\ issued' = [issued EXCEPT ![i] = @ + q]
    BY <1>2 DEF DrawLot
  <2> QED
    BY <1>1, <2>1, TakeKeeps, TakeSpares, UsageGrows
<1>3. CASE t = "ADJUST"
  <2>1. /\ ValidDraw(Only(i, q), QualityStatus, draw)
        /\ TakeStock(Only(i, q), draw)
        /\ issued' = issued
    BY <1>3 DEF DrawLot
  <2> QED
    BY <1>1, <2>1, TakeKeeps DEF IInv, TypeOK
<1> QED
    BY <1>2, <1>3

LEMMA ReserveKeeps ==
    ASSUME IInv, NEW i \in Items, NEW d \in Docs, NEW q \in Nat,
           ReserveManually(i, d, q) \/ UnreserveManually(i, d, q)
    PROVE  IInv' /\ issued' = issued
<1>1. CASE ReserveManually(i, d, q)
    BY <1>1 DEF ReserveManually, IInv, TypeOK, NoNegativeLot, LotsReconcile, LotsOf
<1>2. CASE UnreserveManually(i, d, q)
    BY <1>2 DEF UnreserveManually, IInv, TypeOK, NoNegativeLot, LotsReconcile, LotsOf
<1> QED
    BY <1>1, <1>2

LEMMA InspectKeeps ==
    ASSUME IInv, NEW l \in Lots, NEW result \in {"PASS", "HOLD", "FAIL"},
           Inspect(l, result)
    PROVE  IInv' /\ issued' = issued
<1>1. QualityStatusForResult(result) \in QualityStatus
    BY DEF QualityStatusForResult, QualityStatus
<1> QED
    BY <1>1 DEF Inspect, IInv, TypeOK, NoNegativeLot, LotsReconcile, LotsOf

\* What one step does to the invariant and to quarantined lots.
LEMMA Step ==
    ASSUME IInv, Next
    PROVE  /\ IInv'
           /\ \A l \in Lots :
                  quality[l] \in {"HOLD", "REJECTED"} /\ balance'[l] < balance[l]
                      => issued' = issued
<1>1. CASE InspectLot
    BY <1>1, InspectKeeps, StockAssumption DEF InspectLot
<1>2. ASSUME NEW q \in 1..MaxTxn, NEW l \in Lots, NEW d \in ReceiptDocs \union {NoDoc},
             Receive(l, q, d)
      PROVE  IInv' /\ \A k \in Lots : ~(balance'[k] < balance[k])
  <2>1. q \in Nat /\ d \in Docs \union {NoDoc}
    BY StockAssumption
  <2>2. IInv' /\ \A k \in Lots : balance'[k] >= balance[k]
    BY <1>2, <2>1, ReceiveKeeps
  <2>3. \A k \in Lots : balance[k] \in Int /\ balance'[k] \in Int
    BY <2>2 DEF IInv, TypeOK
  <2> QED
    BY <2>2, <2>3
<1>3. ASSUME NEW q \in 1..MaxTxn, NEW i \in Items, Issue(i, q)
      PROVE  IInv' /\ \A l \in Lots : quality[l] # "OK" => balance'[l] = balance[l]
    BY <1>3, IssueKeeps, StockAssumption
<1>4. ASSUME NEW q \in 1..MaxTxn, NEW i \in Items, NEW grades, AdjustDown(i, q, grades)
      PROVE  IInv' /\ issued' = issued
    BY <1>4, AdjustKeeps, StockAssumption
<1>5. ASSUME NEW q \in 1..MaxTxn, NEW l \in Lots, NEW t \in {"ISSUE", "ADJUST"},
             DrawLot(l, q, t)
      PROVE  /\ IInv'
             /\ issued' = issued
                \/ \A k \in Lots : quality[k] # "OK" => balance'[k] = balance[k]
    BY <1>5, DrawKeeps, StockAssumption
<1>6. ASSUME NEW q \in 1..MaxTxn, NEW i \in Items, NEW d \in ReserveDocs,
             ReserveManually(i, d, q) \/ UnreserveManually(i, d, q)
      PROVE  IInv' /\ issued' = issued
    BY <1>6, ReserveKeeps, StockAssumption
<1>7. \A l \in Lots : balance[l] \in Int
    BY DEF IInv, TypeOK
<1> QED
    BY <1>1, <1>2, <1>3, <1>4, <1>5, <1>6, <1>7 DEF Next, PostManually

THEOREM Inductive == Spec => []IInv
<1>1. IInv /\ UNCHANGED stockVars => IInv'
    BY DEF stockVars, IInv, TypeOK, NoNegativeLot, LotsReconcile, LotsOf
<1>2. IInv /\ [Next]_stockVars => IInv'
    BY <1>1, Step
<1> QED
    BY FirstState, <1>2, PTL DEF Spec

\* The types of all ledger variables hold in every reachable state.
THEOREM TypeCorrect == Spec => []TypeOK
BY Inductive, PTL DEF IInv

\* No lot is ever driven negative.
THEOREM LotsStayPositive == Spec => []NoNegativeLot
BY Inductive, PTL DEF IInv

\* The item totals kept by the headers are those of the lots.
THEOREM BooksAgree == Spec => []LotsReconcile
BY Inductive, PTL DEF IInv

LEMMA StepQuarantine ==
    IInv /\ [Next]_stockVars => [\A l \in Lots : SparedByUsage(l)]_stockVars
BY Step DEF SparedByUsage

\* Stock on HOLD or REJECTED is never counted as usage.
THEOREM QuarantineSafe == Spec => QuarantineHolds
BY Inductive, StepQuarantine, PTL DEF Spec, QuarantineHolds

-----------------------------------------------------------------------------
(* First in, first out.  The loop is a recursive function of the lots visited *)
(* so far; what it leaves to be found after lot n is the quantity less what   *)
(* the usable lots up to n hold (LeftAfter), which needs no recursion.        *)

Visited(i, grades, n) == {l \in Drawable(i, grades) : l <= n}
HeldBy(i, grades, n) == SumFunctionOnSet(balance, Visited(i, grades, n))
LeftAfter(i, q, grades) ==
    [n \in 0..NumLots |-> IF HeldBy(i, grades, n) >= q THEN 0 ELSE q - HeldBy(i, grades, n)]

\* One round of the loop.
LoopStep(i, q, grades, rest, l) ==
    IF l = 0 THEN q
    ELSE IF l \in Drawable(i, grades) THEN rest[l - 1] - LesserOf(balance[l], rest[l - 1])
    ELSE rest[l - 1]

LEMMA VisitedFinite ==
    ASSUME NEW i \in Items, NEW grades, NEW n
    PROVE  /\ Visited(i, grades, n) \subseteq Drawable(i, grades)
           /\ Drawable(i, grades) \subseteq LotsOf(i)
           /\ IsFiniteSet(Visited(i, grades, n)) /\ IsFiniteSet(Drawable(i, grades))
<1>1. Visited(i, grades, n) \subseteq Drawable(i, grades) /\ Drawable(i, grades) \subseteq LotsOf(i)
    BY DEF Visited, Drawable
<1> QED
    BY <1>1, LotsFinite, FS_Subset

LEMMA HeldByGrows ==
    ASSUME IInv, NEW i \in Items, NEW grades
    PROVE  /\ HeldBy(i, grades, 0) = 0
           /\ \A n \in Lots : /\ HeldBy(i, grades, n - 1) \in Nat
                              /\ HeldBy(i, grades, n)
                                   = HeldBy(i, grades, n - 1)
                                     + (IF n \in Drawable(i, grades) THEN balance[n] ELSE 0)
           /\ \A n \in 0..NumLots : HeldBy(i, grades, n) \in Nat
<1>1. \A n \in 0..NumLots : \A l \in Visited(i, grades, n) : balance[l] \in Nat
    BY VisitedFinite, LotsFinite DEF IInv, TypeOK, NoNegativeLot
<1>2. \A n \in 0..NumLots : HeldBy(i, grades, n) \in Nat
    BY <1>1, VisitedFinite, SumNat DEF HeldBy
<1>3. Visited(i, grades, 0) = {}
    BY StockAssumption DEF Visited, Drawable, LotsOf, Lots
<1>4. HeldBy(i, grades, 0) = 0
    BY <1>3, VisitedFinite, SumFirst DEF HeldBy
<1>5. ASSUME NEW n \in Lots
      PROVE  HeldBy(i, grades, n)
               = HeldBy(i, grades, n - 1) + (IF n \in Drawable(i, grades) THEN balance[n] ELSE 0)
  <2>1. n \in Nat /\ n > 0 /\ n - 1 \in 0..NumLots /\ n \in 0..NumLots
      BY StockAssumption DEF Lots
  <2>2. \A l \in Drawable(i, grades) : l \in Nat
      BY StockAssumption DEF Drawable, LotsOf, Lots
  <2>3. CASE n \in Drawable(i, grades)
    <3>1. Visited(i, grades, n) = Visited(i, grades, n - 1) \union {n} /\ n \notin Visited(i, grades, n - 1)
      <4>1. \A l \in Drawable(i, grades) : l <= n <=> l <= n - 1 \/ l = n
          BY <2>1, <2>2
      <4>2. ~(n <= n - 1)
          BY <2>1
      <4> QED
          BY <2>1, <2>3, <4>1, <4>2 DEF Visited
    <3>2. \A l \in Visited(i, grades, n - 1) \union {n} : balance[l] \in Int
        BY <1>1, <2>1, <3>1
    <3>3. SumFunctionOnSet(balance, Visited(i, grades, n - 1) \union {n})
            = SumFunctionOnSet(balance, Visited(i, grades, n - 1)) + balance[n]
        BY <3>1, <3>2, VisitedFinite, SumInsert
    <3> QED
        BY <2>3, <3>1, <3>3 DEF HeldBy
  <2>4. CASE n \notin Drawable(i, grades)
    <3>1. Visited(i, grades, n) = Visited(i, grades, n - 1)
        BY <2>1, <2>2, <2>4 DEF Visited
    <3> QED
        BY <1>2, <2>1, <2>4, <3>1 DEF HeldBy
  <2> QED
      BY <2>3, <2>4
<1>6. \A n \in Lots : n - 1 \in 0..NumLots
    BY StockAssumption DEF Lots
<1> QED
    BY <1>2, <1>4, <1>5, <1>6

\* The closed form solves the equation of the loop.
LEMMA LeftAfterStep ==
    ASSUME IInv, NEW i \in Items, NEW q \in Nat, NEW grades, NEW n \in 0..NumLots
    PROVE  LeftAfter(i, q, grades)[n] = LoopStep(i, q, grades, LeftAfter(i, q, grades), n)
<1> DEFINE L == LeftAfter(i, q, grades)
<1>1. CASE n = 0
    BY <1>1, HeldByGrows DEF LeftAfter, LoopStep
<1>2. CASE n # 0
  <2>1. n \in Lots /\ n - 1 \in 0..NumLots
      BY <1>2, StockAssumption DEF Lots
  <2>2. /\ HeldBy(i, grades, n - 1) \in Nat /\ HeldBy(i, grades, n) \in Nat
        /\ HeldBy(i, grades, n) = HeldBy(i, grades, n - 1)
                                    + (IF n \in Drawable(i, grades) THEN balance[n] ELSE 0)
      BY <2>1, HeldByGrows
  <2>3. /\ L[n - 1] = IF HeldBy(i, grades, n - 1) >= q THEN 0 ELSE q - HeldBy(i, grades, n - 1)
        /\ L[n] = IF HeldBy(i, grades, n) >= q THEN 0 ELSE q - HeldBy(i, grades, n)
      BY <2>1 DEF LeftAfter
  <2>4. balance[n] \in Nat
      BY <2>1 DEF IInv, TypeOK, NoNegativeLot
  <2> HIDE DEF L
  <2>5. L[n] = IF n \in Drawable(i, grades) THEN L[n - 1] - LesserOf(balance[n], L[n - 1]) ELSE L[n - 1]
      BY <2>2, <2>3, <2>4 DEF LesserOf
  <2> QED
      BY <1>2, <2>5 DEF LoopStep, L
<1> QED
    BY <1>1, <1>2

\* Nothing else does, so that is what the loop computes.
LEMMA RemainingIs ==
    ASSUME IInv, NEW i \in Items, NEW q \in Nat, NEW grades
    PROVE  Remaining(i, q, grades) = LeftAfter(i, q, grades)
<1> DEFINE Solves(r) == r = [n \in 0..NumLots |-> LoopStep(i, q, grades, r, n)]
           loop == CHOOSE r : Solves(r)
           L == LeftAfter(i, q, grades)
<1>1. Remaining(i, q, grades) = loop
    BY DEF Remaining, LoopStep
<1>2. Solves(L)
    BY LeftAfterStep DEF LeftAfter
<1>3. Solves(loop)
  <2> HIDE DEF Solves, L
  <2> QED
      BY <1>2
<1> DEFINE C == {n \in 0..NumLots : loop[n] # L[n]}
<1>4. C = {}
  <2> SUFFICES ASSUME C # {} PROVE FALSE
      OBVIOUS
  <2>1. PICK n \in C : \A m \in C : n <= m
    <3>1. C \subseteq Nat
        BY StockAssumption
    <3> HIDE DEF C
    <3> QED
        BY <3>1, SmallestNumber
  <2>2. n \in 0..NumLots /\ loop[n] # L[n]
      BY <2>1
  <2>3. loop[n] = LoopStep(i, q, grades, loop, n) /\ L[n] = LoopStep(i, q, grades, L, n)
    <3> HIDE DEF loop, L
    <3> QED
        BY <1>2, <1>3, <2>2
  <2>4. CASE n = 0
      BY <2>2, <2>3, <2>4 DEF LoopStep
  <2>5. CASE n # 0
    <3>1. n - 1 \in 0..NumLots /\ ~(n <= n - 1)
        BY <2>2, <2>5, StockAssumption
    <3>2. loop[n - 1] = L[n - 1]
        BY <2>1, <3>1
    <3> HIDE DEF loop, L
    <3> QED
        BY <2>2, <2>3, <2>5, <3>2 DEF LoopStep
  <2> QED
      BY <2>4, <2>5
<1>5. loop = L
  <2> HIDE DEF loop
  <2>1. loop = [n \in 0..NumLots |-> loop[n]]
      BY <1>3
  <2>2. \A n \in 0..NumLots : loop[n] = L[n]
      BY <1>4
  <2> QED
      BY <2>1, <2>2 DEF LeftAfter
<1> QED
    BY <1>1, <1>5

LEMMA RestIs ==
    ASSUME IInv, NEW i \in Items, NEW q \in Nat, NEW grades
    PROVE  /\ \A n \in 0..NumLots : LeftAfter(i, q, grades)[n] \in Nat
           /\ LeftAfter(i, q, grades)[0] = q
           /\ LeftAfter(i, q, grades)[NumLots]
                = IF HeldBy(i, grades, NumLots) >= q THEN 0 ELSE q - HeldBy(i, grades, NumLots)
<1>1. \A n \in 0..NumLots : HeldBy(i, grades, n) \in Nat
    BY HeldByGrows
<1>2. 0 \in 0..NumLots /\ NumLots \in 0..NumLots /\ HeldBy(i, grades, 0) = 0
    BY StockAssumption, HeldByGrows
<1>3. \A n \in 0..NumLots :
          LeftAfter(i, q, grades)[n]
            = IF HeldBy(i, grades, n) >= q THEN 0 ELSE q - HeldBy(i, grades, n)
    BY DEF LeftAfter
<1> QED
    BY <1>1, <1>2, <1>3

\* What a lot gives is what the loop counts down when it visits it.
LEMMA DrawIs ==
    ASSUME IInv, NEW i \in Items, NEW q \in Nat, NEW grades, NEW n \in Lots
    PROVE  LET draw == FifoDraw(i, q, grades)
               L == LeftAfter(i, q, grades)
           IN  /\ draw[n] \in 0..balance[n]
               /\ draw[n] = L[n - 1] - L[n]
               /\ n \notin Drawable(i, grades) => draw[n] = 0
               /\ n \in Drawable(i, grades) => draw[n] = LesserOf(balance[n], L[n - 1])
<1> DEFINE L == LeftAfter(i, q, grades)
<1>1. n \in 0..NumLots /\ n - 1 \in 0..NumLots /\ n # 0
    BY StockAssumption DEF Lots
<1>2. L[n - 1] \in Nat /\ L[n] \in Nat /\ balance[n] \in Nat
    BY <1>1, RestIs DEF IInv, TypeOK, NoNegativeLot
<1>3. FifoDraw(i, q, grades)[n]
        = IF n \in Drawable(i, grades) THEN LesserOf(balance[n], L[n - 1]) ELSE 0
    BY RemainingIs DEF FifoDraw
<1>4. L[n] = IF n \in Drawable(i, grades) THEN L[n - 1] - LesserOf(balance[n], L[n - 1]) ELSE L[n - 1]
    BY <1>1, LeftAfterStep DEF LoopStep
<1> HIDE DEF L
<1>5. LesserOf(balance[n], L[n - 1]) \in 0..balance[n]
    BY <1>2 DEF LesserOf
<1>6. FifoDraw(i, q, grades)[n] = L[n - 1] - L[n] /\ FifoDraw(i, q, grades)[n] \in 0..balance[n]
    BY <1>2, <1>3, <1>4, <1>5
<1> QED
    BY <1>3, <1>6 DEF L

\* An older lot is emptied before a younger one is touched.
LEMMA OldestFirst ==
    ASSUME IInv, NEW i \in Items, NEW q \in Nat, NEW grades,
           NEW k \in Drawable(i, grades), NEW l \in Drawable(i, grades),
           k < l, FifoDraw(i, q, grades)[l] > 0
    PROVE  FifoDraw(i, q, grades)[k] = balance[k]
<1> DEFINE L == LeftAfter(i, q, grades)
           H(n) == HeldBy(i, grades, n)
<1>1. k \in Lots /\ l \in Lots
    BY DEF Drawable, LotsOf
<1>2. /\ k \in 0..NumLots /\ k - 1 \in 0..NumLots /\ l - 1 \in 0..NumLots
      /\ k \in Nat /\ l \in Nat
    BY <1>1, StockAssumption DEF Lots
<1>3. /\ L[k - 1] = IF H(k - 1) >= q THEN 0 ELSE q - H(k - 1)
      /\ L[l - 1] = IF H(l - 1) >= q THEN 0 ELSE q - H(l - 1)
    BY <1>2 DEF LeftAfter
<1>4. /\ FifoDraw(i, q, grades)[l] = LesserOf(balance[l], L[l - 1])
      /\ FifoDraw(i, q, grades)[k] = LesserOf(balance[k], L[k - 1])
    BY <1>1, DrawIs
<1>5. /\ H(k) = H(k - 1) + balance[k]
      /\ H(k) \in Nat /\ H(k - 1) \in Nat /\ H(l - 1) \in Nat
      /\ balance[k] \in Nat /\ balance[l] \in Nat
    BY <1>1, <1>2, HeldByGrows DEF IInv, TypeOK, NoNegativeLot
<1>6. H(k) <= H(l - 1)
  <2>1. \A n \in Drawable(i, grades) : n \in Nat /\ balance[n] \in Nat
      BY StockAssumption DEF Drawable, LotsOf, Lots, IInv, TypeOK, NoNegativeLot
  <2>2. Visited(i, grades, k) \subseteq Visited(i, grades, l - 1)
    <3>1. \A n \in Drawable(i, grades) : n <= k => n <= l - 1
        BY <1>2, <2>1
    <3> QED
        BY <3>1 DEF Visited
  <2>3. IsFiniteSet(Visited(i, grades, l - 1)) /\ \A n \in Visited(i, grades, l - 1) : balance[n] \in Nat
      BY <2>1, VisitedFinite
  <2> QED
      BY <2>2, <2>3, SumSubset DEF HeldBy
<1> HIDE DEF L, H
<1> QED
    BY <1>3, <1>4, <1>5, <1>6 DEF LesserOf

\* The loop finds q units in all or what there is.
LEMMA DrawnInAll ==
    ASSUME IInv, NEW i \in Items, NEW q \in Nat, NEW grades, NEW j \in Items
    PROVE  LET usable == SumFunctionOnSet(balance, Drawable(i, grades))
           IN  /\ usable \in Nat
               /\ SumFunctionOnSet(FifoDraw(i, q, grades), LotsOf(j))
                    = IF j = i THEN (IF usable >= q THEN q ELSE usable) ELSE 0
<1> DEFINE draw == FifoDraw(i, q, grades)
           usable == SumFunctionOnSet(balance, Drawable(i, grades))
           L == LeftAfter(i, q, grades)
<1>1. \A l \in Lots : draw[l] \in Int
  <2>1. \A l \in Lots : balance[l] \in Int /\ draw[l] \in 0..balance[l]
      BY DrawIs DEF IInv, TypeOK
  <2> QED
      BY <2>1
<1>2. HeldBy(i, grades, NumLots) = usable /\ usable \in Nat
  <2>1. Visited(i, grades, NumLots) = Drawable(i, grades)
      BY StockAssumption DEF Visited, Drawable, LotsOf, Lots
  <2>2. NumLots \in 0..NumLots
      BY StockAssumption
  <2>3. HeldBy(i, grades, NumLots) \in Nat
      BY <2>2, HeldByGrows
  <2> QED
      BY <2>1, <2>3 DEF HeldBy
<1>3. SumFunctionOnSet(draw, Lots) = q - L[NumLots]
  <2>1. \A n \in 0..NumLots : -L[n] \in Int
      BY RestIs
  <2> DEFINE F == [n \in 0..NumLots |-> -L[n]]
  <2>2. \A n \in 0..NumLots : F[n] \in Int /\ F[n] = -L[n]
      BY <2>1
  <2>3. \A n \in 1..NumLots : draw[n] = F[n] - F[n - 1]
    <3> SUFFICES ASSUME NEW n \in 1..NumLots PROVE draw[n] = F[n] - F[n - 1]
        OBVIOUS
    <3>1. n \in Lots /\ n \in 0..NumLots /\ n - 1 \in 0..NumLots
        BY StockAssumption DEF Lots
    <3>2. draw[n] = L[n - 1] - L[n] /\ L[n] \in Nat /\ L[n - 1] \in Nat
        BY <3>1, DrawIs, RestIs
    <3>3. F[n] = -L[n] /\ F[n - 1] = -L[n - 1]
        BY <2>2, <3>1
    <3> HIDE DEF F, L, draw
    <3> QED
        BY <3>2, <3>3
  <2>4. L[0] = q /\ L[NumLots] \in Nat /\ 0 \in 0..NumLots /\ NumLots \in 0..NumLots
      BY RestIs, StockAssumption
  <2>5. F[0] = -q /\ F[NumLots] = -L[NumLots]
      BY <2>2, <2>4
  <2> HIDE DEF F, draw, L
  <2>6. SumFunctionOnSet(draw, 1..NumLots) = F[NumLots] - F[0]
      BY <2>2, <2>3, StockAssumption, SumTelescope, SMTT(30)
  <2> QED
      BY <2>4, <2>5, <2>6 DEF Lots
<1>4. L[NumLots] = IF usable >= q THEN 0 ELSE q - usable
    BY <1>2, RestIs
<1>5. CASE j = i
  <2>1. \A l \in Lots \ LotsOf(i) : draw[l] = 0
      BY DrawIs DEF Drawable
  <2>2. IsFiniteSet(Lots) /\ LotsOf(i) \subseteq Lots
      BY LotsFinite, FS_Interval, StockAssumption DEF Lots
  <2> HIDE DEF draw
  <2>3. SumFunctionOnSet(draw, Lots \ LotsOf(i)) = 0
      BY <2>1, <2>2, FS_Difference, SumZero
  <2>4. SumFunctionOnSet(draw, Lots)
          = SumFunctionOnSet(draw, LotsOf(i)) + SumFunctionOnSet(draw, Lots \ LotsOf(i))
      BY <1>1, <2>2, SumSplit
  <2>5. SumFunctionOnSet(draw, LotsOf(i)) \in Int
      BY <1>1, <2>2, LotsFinite, SumType
  <2> HIDE DEF L, usable
  <2>6. SumFunctionOnSet(draw, LotsOf(i)) = IF usable >= q THEN q ELSE usable
      BY <1>2, <1>3, <1>4, <2>3, <2>4, <2>5
  <2> QED
      BY <1>2, <1>5, <2>6 DEF draw, usable
<1>6. CASE j # i
  <2>1. \A l \in LotsOf(j) : draw[l] = 0
    <3>1. \A l \in LotsOf(j) : l \in Lots /\ l \notin Drawable(i, grades)
        BY <1>6 DEF LotsOf, Drawable
    <3> QED
        BY <3>1, DrawIs
  <2> HIDE DEF draw
  <2>2. SumFunctionOnSet(draw, LotsOf(j)) = 0
      BY <2>1, LotsFinite, SumZero
  <2> QED
      BY <1>2, <1>6, <2>2 DEF draw, usable
<1> QED
    BY <1>5, <1>6

LEMMA FifoWorks == IInv => FifoIsOldestFirst
<1> SUFFICES ASSUME IInv, NEW i \in Items, NEW q \in 1..MaxTxn,
                    NEW grades \in {Issuable, QualityStatus}
             PROVE  LET draw == FifoDraw(i, q, grades)
                        usable == SumFunctionOnSet(balance, Drawable(i, grades))
                    IN  /\ \A k, l \in Drawable(i, grades) :
                               k < l /\ draw[l] > 0 => draw[k] = balance[k]
                        /\ ValidDraw(Only(i, q), grades, draw) <=> usable >= q
    BY DEF FifoIsOldestFirst
<1> DEFINE draw == FifoDraw(i, q, grades)
           usable == SumFunctionOnSet(balance, Drawable(i, grades))
<1>1. q \in Nat
    BY StockAssumption
<1>2. \A k, l \in Drawable(i, grades) : k < l /\ draw[l] > 0 => draw[k] = balance[k]
    BY <1>1, OldestFirst
<1>3. \A l \in Lots : draw[l] \in 0..balance[l] /\ (draw[l] > 0 => quality[l] \in grades)
  <2> SUFFICES ASSUME NEW l \in Lots
               PROVE  draw[l] \in 0..balance[l] /\ (draw[l] > 0 => quality[l] \in grades)
      OBVIOUS
  <2>1. draw[l] \in 0..balance[l] /\ (l \notin Drawable(i, grades) => draw[l] = 0)
      BY <1>1, DrawIs
  <2> HIDE DEF draw
  <2> QED
      BY <2>1 DEF Drawable
<1>4. \A j \in Items : /\ usable \in Nat
                       /\ SumFunctionOnSet(draw, LotsOf(j))
                            = IF j = i THEN (IF usable >= q THEN q ELSE usable) ELSE 0
    BY <1>1, DrawnInAll
<1> HIDE DEF draw, usable
<1>5. (\A j \in Items : SumFunctionOnSet(draw, LotsOf(j)) = Only(i, q)[j]) <=> usable >= q
    BY <1>1, <1>4 DEF Only
<1>6. ValidDraw(Only(i, q), grades, draw) <=> usable >= q
    BY <1>3, <1>5 DEF ValidDraw
<1> QED
    BY <1>2, <1>6 DEF draw, usable

\* In every reachable state the allocation loop empties older lots first and
\* fails exactly when the usable lots together hold too little.
THEOREM FifoSafe == Spec => []FifoIsOldestFirst
BY Inductive, FifoWorks, PTL
=============================================================================
