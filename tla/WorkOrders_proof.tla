----------------------------- MODULE WorkOrders_proof -----------------------------
(***************************************************************************)
(* The safety of work order execution for every set of orders, every       *)
(* routing and every quantity.  Each clause of the inductive invariant     *)
(* speaks of one order: QuantityChain, ActiveOnlyAfterTransfer and          *)
(* NeverStranded, strengthened by what a step's status says of its         *)
(* quantity (StepsAt), and with NeverStranded in the form FrontierAt, which *)
(* needs no induction over the steps.  The completion records are summed  *)
(* apart: a key that is not recorded yet adds its quantity once.           *)
(***************************************************************************)
EXTENDS WorkOrderExecution, Commitments, Sums_proof, TLAPS

Executable == {"READY", "IN_PROGRESS", "PAUSED"}

Routed(w) == 1..NumSteps[w]

ChainAt(w) ==
    /\ \A i \in Routed(w) :
         /\ opQty[w][i] <= Quantity[w]
         /\ i > 1 => opQty[w][i] <= opQty[w][i - 1]
    /\ completed[w] > 0 =>
         NumSteps[w] > 0 /\ completed[w] <= opQty[w][NumSteps[w]]

\* A step being worked on, or ready to be, has had its batch transferred; one
\* still PENDING has not.
TransferAt(w) ==
    \A i \in Routed(w) :
        /\ opStatus[w][i] \in Executable => PredecessorReady(w, i)
        /\ opStatus[w][i] = "PENDING" => ~PredecessorReady(w, i)

\* Rows exist from the release on, start at quantity 0, and are COMPLETED
\* exactly when the quantity reaches the plan.
StepsAt(w) ==
    \A i \in Steps :
        /\ opStatus[w][i] = "NONE" <=> (status[w] = "PLANNED" \/ i > NumSteps[w])
        /\ opStatus[w][i] \in {"NONE", "PENDING", "READY"} => opQty[w][i] = 0
        /\ opStatus[w][i] = "COMPLETED" <=> opQty[w][i] = Quantity[w]

\* At or below every unfinished step there is one that can be worked on.
FrontierAt(w) ==
    status[w] # "PLANNED" =>
        \A i \in Routed(w) : opStatus[w][i] # "COMPLETED" =>
            \E j \in 1..i : opStatus[w][j] \in Executable

\* The order's own status follows its completed quantity.
StatusAt(w) ==
    /\ status[w] \in {"COMPLETED", "CLOSED"} <=> completed[w] = Quantity[w]
    /\ status[w] = "PLANNED" => completed[w] = 0

OrderInv(w) == ChainAt(w) /\ TransferAt(w) /\ StepsAt(w) /\ FrontierAt(w) /\ StatusAt(w)

\* The finished goods of one order, by its completion records.
Booked(w) ==
    SumFunctionOnSet([c \in completions |-> c.qty], {c \in completions : c.wo = w})

BookedInv ==
    /\ IsFiniteSet(completions)
    /\ \A w \in WorkOrders : completed[w] = Booked(w)

IInv == TypeOK /\ BookedInv /\ \A w \in WorkOrders : OrderInv(w)

-----------------------------------------------------------------------------
\* The types of one order's part of the state, as the steps below use them.
LEMMA OrderTypes ==
    ASSUME TypeOK, NEW w \in WorkOrders
    PROVE  /\ NumSteps[w] \in 0..MaxSteps /\ MaxSteps \in Nat
           /\ Quantity[w] \in Nat \ {0}
           /\ status[w] \in WorkOrderStatus
           /\ completed[w] \in Nat /\ reported[w] \in Nat
           /\ \A i \in Steps : /\ opStatus[w][i] \in OperationStatus
                               /\ opQty[w][i] \in Nat
                               /\ TransferBatch[w][i] \in Nat
           /\ opStatus[w] \in [Steps -> OperationStatus]
           /\ opQty[w] \in [Steps -> Nat]
  BY WorkOrderAssumption DEF TypeOK

\* An order no part of which changes keeps its invariant.
LEMMA Untouched ==
    ASSUME NEW v \in WorkOrders, OrderInv(v),
           status'[v] = status[v], completed'[v] = completed[v],
           opStatus'[v] = opStatus[v], opQty'[v] = opQty[v]
    PROVE  OrderInv(v)'
  <1>1. ChainAt(v)'
    BY DEF OrderInv, ChainAt
  <1>2. TransferAt(v)'
    BY DEF OrderInv, TransferAt, PredecessorReady, BatchTransferred
  <1>3. StepsAt(v)'
    BY DEF OrderInv, StepsAt
  <1>4. FrontierAt(v)'
    BY DEF OrderInv, FrontierAt
  <1>5. StatusAt(v)'
    BY DEF OrderInv, StatusAt
  <1>6. QED
    BY <1>1, <1>2, <1>3, <1>4, <1>5 DEF OrderInv

LEMMA InitIInv == Init => IInv
  <1> SUFFICES ASSUME Init PROVE IInv
    OBVIOUS
  <1>1. TypeOK
    BY DEF Init, TypeOK, WorkOrderStatus, OperationStatus
  <1>2. ASSUME NEW w \in WorkOrders PROVE OrderInv(w)
    <2> USE WorkOrderAssumption, OrderTypes, <1>1 DEF Init, Steps, Routed
    <2>1. ChainAt(w) /\ StatusAt(w)
      BY DEF ChainAt, StatusAt
    <2>2. TransferAt(w)
      BY DEF TransferAt, Executable
    <2>3. StepsAt(w) /\ FrontierAt(w)
      BY DEF StepsAt, FrontierAt
    <2>4. QED
      BY <2>1, <2>2, <2>3 DEF OrderInv
  <1>3. BookedInv
    <2>1. {c \in completions : TRUE} = {} /\ IsFiniteSet(completions)
      BY FS_EmptySet DEF Init
    <2>2. ASSUME NEW w \in WorkOrders PROVE Booked(w) = 0 /\ completed[w] = 0
      <3>1. {c \in completions : c.wo = w} = {}
        BY <2>1
      <3>2. SumFunctionOnSet([c \in completions |-> c.qty], {}) = 0
        BY FS_EmptySet, SumFirst
      <3>3. QED
        BY <3>1, <3>2 DEF Booked, Init
    <2>3. QED
      BY <2>1, <2>2 DEF BookedInv
  <1>4. QED
    BY <1>1, <1>2, <1>3 DEF IInv

\* A release creates the rows; the first one is the frontier.
LEMMA ReleaseKeeps ==
    ASSUME TypeOK, NEW w \in WorkOrders, OrderInv(w), ReleaseOrder(w)
    PROVE  OrderInv(w)'
  <1> USE OrderTypes DEF Steps, Routed
  <1>1. \A i \in Steps :
          /\ opQty[w][i] = 0
          /\ opStatus'[w][i] = IF i > NumSteps[w] THEN "NONE"
                              ELSE IF i = 1 THEN "READY" ELSE "PENDING"
    BY DEF TypeOK, OrderInv, StepsAt, ReleaseOrder
  <1>2. /\ status[w] = "PLANNED" /\ status'[w] = "RELEASED"
        /\ completed' = completed /\ opQty' = opQty
    BY DEF TypeOK, ReleaseOrder
  <1>3. ChainAt(w)'
    BY <1>2 DEF OrderInv, ChainAt
  <1>4. TransferAt(w)'
    <2> SUFFICES ASSUME NEW i \in Routed(w)
                 PROVE  /\ opStatus'[w][i] \in Executable => PredecessorReady(w, i)'
                        /\ opStatus'[w][i] = "PENDING" => ~PredecessorReady(w, i)'
      BY DEF TransferAt
    <2>1. CASE i = 1
      BY <1>1, <2>1 DEF PredecessorReady
    <2>2. CASE i > 1
      <3>1. i - 1 \in Steps /\ opStatus'[w][i] = "PENDING"
        BY <1>1, <2>2
      <3>2. opStatus'[w][i - 1] # "COMPLETED" /\ opQty'[w][i - 1] = 0
        BY <1>1, <1>2, <3>1
      <3>3. ~BatchTransferred(w, i - 1, 0)
        BY <3>1 DEF BatchTransferred, LesserOf
      <3>4. QED
        BY <2>2, <3>1, <3>2, <3>3 DEF PredecessorReady, Executable, BatchTransferred
    <2>3. QED
      BY <2>1, <2>2
  <1>5. StepsAt(w)'
    BY <1>1, <1>2 DEF StepsAt
  <1>6. FrontierAt(w)'
    BY <1>1, <1>2 DEF FrontierAt, Executable
  <1>7. StatusAt(w)'
    BY <1>2 DEF OrderInv, StatusAt
  <1>8. QED
    BY <1>3, <1>4, <1>5, <1>6, <1>7 DEF OrderInv

\* START and STOP exchange one executable status for another.
LEMMA SwapKeeps ==
    ASSUME TypeOK, NEW w \in WorkOrders, OrderInv(w), OpenForExecution(w),
           NEW i \in Routed(w), NEW s \in {"IN_PROGRESS", "PAUSED"},
           opStatus[w][i] \in Executable,
           opStatus' = [opStatus EXCEPT ![w][i] = s],
           completed' = completed, opQty' = opQty,
           status'[w] \in {"RELEASED", "IN_PROGRESS"}
    PROVE  OrderInv(w)'
  <1> USE OrderTypes DEF Steps, Routed
  <1>1. \A j \in Steps : opStatus'[w][j] = IF j = i THEN s ELSE opStatus[w][j]
    BY DEF TypeOK
  <1>2. ChainAt(w)' /\ StatusAt(w)'
    BY DEF OrderInv, ChainAt, StatusAt, OpenForExecution
  <1>3. \A j \in Routed(w) : PredecessorReady(w, j)' <=> PredecessorReady(w, j)
    BY <1>1 DEF PredecessorReady, BatchTransferred, Executable
  <1>4. TransferAt(w)'
    BY <1>1, <1>3 DEF OrderInv, TransferAt, Executable
  <1>5. StepsAt(w)'
    BY <1>1 DEF OrderInv, StepsAt, OpenForExecution, Executable
  <1>6. FrontierAt(w)'
    <2> SUFFICES ASSUME NEW j \in Routed(w), opStatus'[w][j] # "COMPLETED"
                 PROVE  \E k \in 1..j : opStatus'[w][k] \in Executable
      BY DEF FrontierAt
    <2>1. opStatus[w][j] # "COMPLETED"
      BY <1>1 DEF Executable
    <2>2. PICK k \in 1..j : opStatus[w][k] \in Executable
      BY <2>1 DEF OrderInv, FrontierAt, OpenForExecution
    <2>3. opStatus'[w][k] \in Executable
      BY <1>1, <2>2 DEF Executable
    <2>4. QED
      BY <2>3
  <1>7. QED
    BY <1>2, <1>4, <1>5, <1>6 DEF OrderInv

LEMMA StartKeeps ==
    ASSUME TypeOK, NEW w \in WorkOrders, OrderInv(w),
           NEW i \in Routed(w), StartOperation(w, i)
    PROVE  OrderInv(w)'
  BY SwapKeeps, OrderTypes
     DEF StartOperation, OpenForExecution, MarkStarted, Executable, TypeOK

LEMMA StopKeeps ==
    ASSUME TypeOK, NEW w \in WorkOrders, OrderInv(w),
           NEW i \in Routed(w), StopOperation(w, i)
    PROVE  OrderInv(w)'
  BY SwapKeeps DEF StopOperation, OpenForExecution, orderVars, Executable

\* A report raises one quantity, may finish its step, and then leaves the
\* frontier at or below the next step.
LEMMA ReportKeeps ==
    ASSUME TypeOK, NEW w \in WorkOrders, OrderInv(w), NEW i \in Routed(w),
           NEW q \in 1..Quantity[w], ReportOperation(w, i, q)
    PROVE  OrderInv(w)'
  <1> USE OrderTypes DEF Steps, Routed
  <1> DEFINE moves == q >= Quantity[w] \/ BatchTransferred(w, i, q)
  <1>1. /\ OpenForExecution(w) /\ status'[w] = "IN_PROGRESS"
        /\ completed' = completed
        /\ opStatus[w][i] = "IN_PROGRESS" /\ i \in Steps
        /\ q > opQty[w][i] /\ q <= Quantity[w]
        /\ i = NumSteps[w] => q >= completed[w]
        /\ i > 1 => q <= opQty[w][i - 1]
    BY DEF ReportOperation, CumulativeReportOK, WithinPredecessor, MarkStarted,
           OpenForExecution, TypeOK
  <1>2. \A j \in Steps : opQty'[w][j] = IF j = i THEN q ELSE opQty[w][j]
    BY DEF ReportOperation, TypeOK
  <1>3. \A j \in Steps :
          /\ j = i => opStatus'[w][j] =
               IF q >= Quantity[w] THEN "COMPLETED" ELSE "IN_PROGRESS"
          /\ (j = i + 1 /\ opStatus[w][j] = "PENDING" /\ moves)
               => opStatus'[w][j] = "READY"
          /\ (j # i /\ ~(j = i + 1 /\ opStatus[w][j] = "PENDING" /\ moves))
               => opStatus'[w][j] = opStatus[w][j]
    BY DEF ReportOperation, AfterReport, Reported, TypeOK
  <1>4. ChainAt(w)'
    <2>1. \A j \in Routed(w) : opQty'[w][j] <= Quantity[w]
                              /\ (j > 1 => opQty'[w][j] <= opQty'[w][j - 1])
      <3> SUFFICES ASSUME NEW j \in Routed(w)
                   PROVE  /\ opQty'[w][j] <= Quantity[w]
                          /\ j > 1 => opQty'[w][j] <= opQty'[w][j - 1]
        OBVIOUS
      <3>1. opQty[w][j] <= Quantity[w] /\ (j > 1 => opQty[w][j] <= opQty[w][j - 1])
        BY DEF OrderInv, ChainAt
      <3>2. j \in Steps /\ (j > 1 => j - 1 \in Steps)
        OBVIOUS
      <3>3. CASE j = i
        <4>1. opQty'[w][j] = q
          BY <1>2, <3>2, <3>3
        <4>2. j > 1 => opQty'[w][j - 1] = opQty[w][j - 1]
          BY <1>2, <3>2, <3>3
        <4>3. q <= Quantity[w] /\ (j > 1 => q <= opQty[w][j - 1])
          BY <1>1, <3>3
        <4>4. QED
          BY <4>1, <4>2, <4>3
      <3>4. CASE j # i
        BY <1>1, <1>2, <3>1, <3>2, <3>4, SMTT(30)
      <3>5. QED
        BY <3>3, <3>4
    <2>2. completed'[w] > 0 =>
            NumSteps[w] > 0 /\ completed'[w] <= opQty'[w][NumSteps[w]]
      BY <1>1, <1>2, SMTT(30) DEF OrderInv, ChainAt
    <2>3. QED
      BY <2>1, <2>2 DEF ChainAt
  <1>5. TransferAt(w)'
    <2> SUFFICES ASSUME NEW j \in Routed(w)
                 PROVE  /\ opStatus'[w][j] \in Executable => PredecessorReady(w, j)'
                        /\ opStatus'[w][j] = "PENDING" => ~PredecessorReady(w, j)'
      BY DEF TransferAt
    <2>1. CASE j = i + 1
      <3>0. /\ j > 1 /\ j - 1 = i
            /\ opQty'[w][j - 1] = q
            /\ opStatus'[w][j - 1] = "COMPLETED" <=> q >= Quantity[w]
        BY <1>1, <1>2, <1>3, <2>1
      <3>1. PredecessorReady(w, j)' <=> moves
        BY <3>0 DEF PredecessorReady, BatchTransferred
      <3>2. PredecessorReady(w, j) => moves
        BY <1>1, <2>1 DEF PredecessorReady, BatchTransferred, LesserOf
      <3>3. /\ opStatus[w][j] \in Executable => PredecessorReady(w, j)
            /\ opStatus[w][j] = "PENDING" \/ opStatus'[w][j] = opStatus[w][j]
            /\ opStatus'[w][j] = "PENDING" => opStatus[w][j] = "PENDING" /\ ~moves
        BY <1>3, <2>1 DEF OrderInv, TransferAt
      <3>4. opStatus[w][j] = "PENDING" /\ ~moves => opStatus'[w][j] = "PENDING"
        BY <1>3, <2>1, SMTT(30)
      <3>5. QED
        BY <3>1, <3>2, <3>3, <3>4 DEF Executable
    <2>2. CASE j # i + 1
      <3>0. ASSUME j > 1
            PROVE  /\ opQty'[w][j - 1] = opQty[w][j - 1]
                   /\ opStatus'[w][j - 1] = "COMPLETED"
                        <=> opStatus[w][j - 1] = "COMPLETED"
        <4>1. j - 1 \in Steps /\ j - 1 # i
          BY <1>1, <2>2, <3>0
        <4> QED
          BY <1>2, <1>3, <4>1
      <3>1. PredecessorReady(w, j)' <=> PredecessorReady(w, j)
        BY <3>0 DEF PredecessorReady, BatchTransferred
      <3>2. opStatus'[w][j] = "PENDING" => opStatus[w][j] = "PENDING"
        BY <1>1, <1>3, <2>2, SMTT(30)
      <3>3. opStatus'[w][j] \in Executable => opStatus[w][j] \in Executable
        BY <1>1, <1>3, <2>2, SMTT(30) DEF Executable
      <3>4. QED
        BY <3>1, <3>2, <3>3 DEF OrderInv, TransferAt
    <2>3. QED
      BY <2>1, <2>2
  <1>6. StepsAt(w)'
    <2> SUFFICES ASSUME NEW j \in Steps
                 PROVE  /\ opStatus'[w][j] # "NONE" <=> j <= NumSteps[w]
                        /\ opStatus'[w][j] \in {"NONE", "PENDING", "READY"}
                             => opQty'[w][j] = 0
                        /\ opStatus'[w][j] = "COMPLETED" <=> opQty'[w][j] = Quantity[w]
      BY <1>1 DEF StepsAt
    <2>1. /\ opStatus[w][j] # "NONE" <=> j <= NumSteps[w]
          /\ opStatus[w][j] \in {"NONE", "PENDING", "READY"} => opQty[w][j] = 0
          /\ opStatus[w][j] = "COMPLETED" <=> opQty[w][j] = Quantity[w]
      BY <1>1 DEF OrderInv, StepsAt, OpenForExecution
    <2>2. CASE j = i
      BY <1>1, <1>2, <1>3, <2>2
    <2>3. CASE j # i
      BY <1>1, <1>2, <1>3, <2>1, <2>3
    <2>4. QED
      BY <2>2, <2>3
  <1>7. FrontierAt(w)'
    <2> SUFFICES ASSUME NEW j \in Routed(w), opStatus'[w][j] # "COMPLETED"
                 PROVE  \E k \in 1..j : opStatus'[w][k] \in Executable
      BY DEF FrontierAt
    <2>1. opStatus[w][j] # "COMPLETED"
      BY <1>1, <1>3, SMTT(30)
    <2>2. PICK k \in 1..j : opStatus[w][k] \in Executable
      BY <1>1, <2>1 DEF OrderInv, FrontierAt, OpenForExecution
    <2>3. CASE opStatus'[w][k] \in Executable
      BY <2>3
    <2>4. CASE opStatus'[w][k] \notin Executable
      <3>1. k = i /\ q = Quantity[w] /\ opStatus'[w][i] = "COMPLETED"
        BY <1>1, <1>3, <2>2, <2>4, SMTT(30) DEF Executable
      <3>2. i + 1 \in 1..j /\ i + 1 \in Routed(w)
        BY <2>2, <3>1
      <3>3. opStatus[w][i + 1] # "NONE"
        BY <1>1, <3>2 DEF OrderInv, StepsAt, OpenForExecution
      <3>4. opStatus[w][i + 1] # "COMPLETED"
        <4>1. opQty[w][i + 1] <= opQty[w][(i + 1) - 1]
          BY <3>2 DEF OrderInv, ChainAt
        <4>2. opQty[w][i + 1] < Quantity[w]
          BY <1>1, <3>1, <3>2, <4>1
        <4>3. QED
          BY <3>2, <4>2 DEF OrderInv, StepsAt
      <3>5. opStatus'[w][i + 1] \in Executable
        <4>1. moves /\ i + 1 # i /\ i + 1 \in Steps
          BY <3>1, <3>2
        <4>2. opStatus[w][i + 1] \in {"PENDING"} \union Executable
          BY <3>3, <3>4, <4>1 DEF Executable, OperationStatus
        <4>3. QED
          BY <1>3, <4>1, <4>2 DEF Executable
      <3>6. QED
        BY <3>2, <3>5
    <2>5. QED
      BY <2>3, <2>4
  <1>8. StatusAt(w)'
    BY <1>1 DEF OrderInv, StatusAt, OpenForExecution
  <1>9. QED
    BY <1>4, <1>5, <1>6, <1>7, <1>8 DEF OrderInv

\* The steps of an order that stays released keep their clauses when only its
\* status and completed quantity change.
LEMMA StepsUntouched ==
    ASSUME NEW w \in WorkOrders, OrderInv(w),
           status[w] # "PLANNED", status'[w] # "PLANNED",
           opStatus' = opStatus, opQty' = opQty
    PROVE  TransferAt(w)' /\ StepsAt(w)' /\ FrontierAt(w)'
  <1>1. TransferAt(w)'
    BY DEF OrderInv, TransferAt, PredecessorReady, BatchTransferred
  <1>2. StepsAt(w)'
    BY DEF OrderInv, StepsAt
  <1>3. FrontierAt(w)'
    BY DEF OrderInv, FrontierAt
  <1>4. QED
    BY <1>1, <1>2, <1>3

LEMMA CompleteKeeps ==
    ASSUME TypeOK, NEW w \in WorkOrders, OrderInv(w), NEW id \in CompletionIds,
           NEW q \in 1..Quantity[w], CompleteBatch(w, id, q)
    PROVE  OrderInv(w)'
  <1> USE OrderTypes
  <1>1. /\ OpenForExecution(w) /\ opStatus' = opStatus /\ opQty' = opQty
        /\ completed'[w] = completed[w] + q /\ completed[w] + q <= Quantity[w]
        /\ status'[w] = IF completed[w] + q = Quantity[w]
                        THEN "COMPLETED" ELSE "IN_PROGRESS"
        /\ NumSteps[w] > 0 /\ completed[w] + q <= opQty[w][NumSteps[w]]
    BY DEF CompleteBatch, opVars, WithinFinalOperation, TypeOK
  <1>2. ChainAt(w)'
    BY <1>1 DEF OrderInv, ChainAt, Routed
  <1>3. TransferAt(w)' /\ StepsAt(w)' /\ FrontierAt(w)'
    BY <1>1, StepsUntouched DEF OpenForExecution
  <1>4. StatusAt(w)'
    BY <1>1 DEF StatusAt
  <1>5. QED
    BY <1>2, <1>3, <1>4 DEF OrderInv

LEMMA CloseKeeps ==
    ASSUME TypeOK, NEW w \in WorkOrders, OrderInv(w), CloseOrder(w)
    PROVE  OrderInv(w)'
  <1>1. /\ status[w] = "COMPLETED" /\ status'[w] = "CLOSED"
        /\ completed' = completed /\ opStatus' = opStatus /\ opQty' = opQty
    BY DEF CloseOrder, opVars, TypeOK
  <1>2. TransferAt(w)' /\ StepsAt(w)' /\ FrontierAt(w)'
    BY <1>1, StepsUntouched
  <1>3. ChainAt(w)' /\ StatusAt(w)'
    BY <1>1 DEF OrderInv, ChainAt, StatusAt
  <1>4. QED
    BY <1>2, <1>3 DEF OrderInv

\* A late progress write may start a released order, and nothing else of it.
LEMMA WriteKeeps ==
    ASSUME TypeOK, NEW w \in WorkOrders, OrderInv(w), NEW c \in Clients,
           WriteProgress(c)
    PROVE  OrderInv(w)'
  <1>1. /\ completed' = completed /\ opStatus' = opStatus /\ opQty' = opQty
        /\ status'[w] = status[w] \/
           (status[w] = "RELEASED" /\ status'[w] = "IN_PROGRESS")
    BY DEF WriteProgress, opVars, TypeOK
  <1>2. CASE status'[w] = status[w]
    BY <1>1, <1>2, Untouched
  <1>3. CASE status[w] = "RELEASED" /\ status'[w] = "IN_PROGRESS"
    <2>1. TransferAt(w)' /\ StepsAt(w)' /\ FrontierAt(w)'
      BY <1>1, <1>3, StepsUntouched
    <2>2. ChainAt(w)' /\ StatusAt(w)'
      BY <1>1, <1>3 DEF OrderInv, ChainAt, StatusAt
    <2>3. QED
      BY <2>1, <2>2 DEF OrderInv
  <1>4. QED
    BY <1>1, <1>2, <1>3

-----------------------------------------------------------------------------
LEMMA TypeStep == TypeOK /\ [Next]_vars => TypeOK'
  <1> SUFFICES ASSUME TypeOK, [Next]_vars PROVE TypeOK'
    OBVIOUS
  <1> USE WorkOrderAssumption DEF TypeOK, WorkOrderStatus, orderVars, opVars
  <1>1. ASSUME NEW w \in WorkOrders, ReleaseOrder(w) PROVE TypeOK'
    BY <1>1 DEF ReleaseOrder, OperationStatus
  <1>2. ASSUME NEW w \in WorkOrders, NEW i \in 1..NumSteps[w],
               StartOperation(w, i) \/ StopOperation(w, i)
        PROVE  TypeOK'
    <2>0. i \in Steps
      BY DEF Steps
    <2>1. opStatus' \in [WorkOrders -> [Steps -> OperationStatus]]
      <3>1. \E s \in OperationStatus : opStatus' = [opStatus EXCEPT ![w][i] = s]
        BY <1>2 DEF StartOperation, StopOperation, OperationStatus
      <3>2. QED
        BY <2>0, <3>1
    <2>2. status' \in [WorkOrders -> WorkOrderStatus]
      BY <1>2 DEF StartOperation, StopOperation, MarkStarted
    <2>3. QED
      BY <1>2, <2>1, <2>2 DEF StartOperation, StopOperation
  <1>3. ASSUME NEW w \in WorkOrders, NEW i \in 1..NumSteps[w],
               NEW q \in 1..Quantity[w], ReportOperation(w, i, q)
        PROVE  TypeOK'
    <2>1. opStatus' \in [WorkOrders -> [Steps -> OperationStatus]]
      <3>1. AfterReport(w, i, q) \in [Steps -> OperationStatus]
        BY DEF AfterReport, Reported, OperationStatus
      <3>2. QED
        BY <1>3, <3>1 DEF ReportOperation
    <2>2. opQty' \in [WorkOrders -> [Steps -> Nat]]
      <3>1. i \in Steps /\ q \in Nat
        BY DEF Steps
      <3>2. QED
        BY <1>3, <3>1 DEF ReportOperation
    <2>3. status' \in [WorkOrders -> WorkOrderStatus]
      BY <1>3 DEF ReportOperation, MarkStarted
    <2>4. QED
      BY <1>3, <2>1, <2>2, <2>3 DEF ReportOperation
  <1>4. ASSUME NEW w \in WorkOrders, NEW id \in CompletionIds,
               NEW q \in 1..Quantity[w], CompleteBatch(w, id, q)
        PROVE  TypeOK'
    BY <1>4 DEF CompleteBatch, Completion
  <1>5. ASSUME NEW w \in WorkOrders, CloseOrder(w) PROVE TypeOK'
    BY <1>5 DEF CloseOrder
  <1>6. ASSUME NEW w \in WorkOrders, NEW c \in Clients, NEW q \in 0..Quantity[w],
               ValidateProgress(c, w, q)
        PROVE  TypeOK'
    BY <1>6 DEF ValidateProgress, ProgressRequest
  <1>7. ASSUME NEW c \in Clients, WriteProgress(c) PROVE TypeOK'
    BY <1>7 DEF WriteProgress, ProgressRequest
  <1>8. CASE UNCHANGED vars
    BY <1>8 DEF vars
  <1>9. QED
    BY <1>1, <1>2, <1>3, <1>4, <1>5, <1>6, <1>7, <1>8
       DEF Next, ExecuteOperation, CompleteOrder, ReportProgress

\* Every step keeps the invariant of the order it works on, and leaves the
\* others alone.
LEMMA OrderStep ==
    ASSUME TypeOK, [Next]_vars, NEW v \in WorkOrders, OrderInv(v)
    PROVE  OrderInv(v)'
  <1>1. ASSUME NEW w \in WorkOrders, w # v,
               ReleaseOrder(w) \/ ExecuteOperation(w) \/ CompleteOrder(w) \/ CloseOrder(w)
        PROVE  OrderInv(v)'
    <2>1. status'[v] = status[v] /\ completed'[v] = completed[v]
      BY <1>1 DEF ReleaseOrder, ExecuteOperation, StartOperation, StopOperation,
         ReportOperation, MarkStarted, CompleteOrder, CompleteBatch, CloseOrder,
         orderVars, TypeOK
    <2>2. opStatus'[v] = opStatus[v] /\ opQty'[v] = opQty[v]
      BY <1>1 DEF ReleaseOrder, ExecuteOperation, StartOperation, StopOperation,
         ReportOperation, CompleteOrder, CompleteBatch, CloseOrder, opVars, TypeOK
    <2>3. QED
      BY <2>1, <2>2, Untouched
  <1>2. ASSUME ReleaseOrder(v) \/ ExecuteOperation(v) \/ CompleteOrder(v) \/ CloseOrder(v)
        PROVE  OrderInv(v)'
    BY <1>2, ReleaseKeeps, StartKeeps, StopKeeps, ReportKeeps, CompleteKeeps, CloseKeeps
       DEF ExecuteOperation, CompleteOrder, Routed
  <1>3. ASSUME NEW w \in WorkOrders, ReportProgress(w) PROVE OrderInv(v)'
    BY <1>3, Untouched DEF ReportProgress, ValidateProgress, orderVars, opVars
  <1>4. ASSUME NEW c \in Clients, WriteProgress(c) PROVE OrderInv(v)'
    BY <1>4, WriteKeeps
  <1>5. CASE UNCHANGED vars
    BY <1>5, Untouched DEF vars
  <1>6. QED
    BY <1>1, <1>2, <1>3, <1>4, <1>5 DEF Next

\* A batch whose key is new adds its quantity to the records of its order.
LEMMA BatchBooked ==
    ASSUME TypeOK, BookedInv, NEW w \in WorkOrders, NEW id \in CompletionIds,
           NEW q \in 1..Quantity[w], CompleteBatch(w, id, q)
    PROVE  BookedInv'
  <1> DEFINE r == [id |-> id, wo |-> w, qty |-> q]
             Before == [c \in completions |-> c.qty]
             After == [c \in completions' |-> c.qty]
             Of(v) == {c \in completions : c.wo = v}
  <1>1. completions' = completions \union {r} /\ r.qty = q /\ r.wo = w /\ r.id = id
    BY DEF CompleteBatch
  <1>2. r \notin completions
    BY <1>1 DEF CompleteBatch, Recorded
  <1>3. q \in Nat /\ \A c \in completions : c.qty \in Int
    BY WorkOrderAssumption DEF TypeOK, Completion
  <1>4. IsFiniteSet(completions')
    BY <1>1, FS_AddElement DEF BookedInv
  <1>5. ASSUME NEW v \in WorkOrders PROVE completed'[v] = Booked(v)'
    <2>1. /\ IsFiniteSet(Of(v)) /\ r \notin Of(v)
          /\ \A c \in Of(v) : c \in completions /\ Before[c] \in Int /\ After[c] = Before[c]
          /\ After[r] = q
      <3>1. IsFiniteSet(Of(v)) /\ r \notin Of(v)
        BY <1>2, FS_Subset DEF BookedInv
      <3>2. \A c \in Of(v) : c \in completions /\ Before[c] = c.qty /\ After[c] = c.qty
        BY <1>1
      <3>3. After[r] = q
        BY <1>1
      <3>4. QED
        BY <1>3, <3>1, <3>2, <3>3
    <2>2. {c \in completions' : c.wo = v} = IF v = w THEN Of(v) \union {r} ELSE Of(v)
      BY <1>1
    <2>3. completed[v] = SumFunctionOnSet(Before, Of(v)) /\ completed[v] \in Nat
      BY DEF BookedInv, Booked, TypeOK
    <2>4. completed'[v] = IF v = w THEN completed[v] + q ELSE completed[v]
      BY DEF CompleteBatch, TypeOK
    <2>5. Booked(v)' = SumFunctionOnSet(After, {c \in completions' : c.wo = v})
      BY DEF Booked
    <2> HIDE DEF r, Before, After, Of
    <2>6. SumFunctionOnSet(After, Of(v)) = SumFunctionOnSet(Before, Of(v))
      BY <2>1, SumSame
    <2>7. SumFunctionOnSet(After, Of(v) \union {r}) = SumFunctionOnSet(After, Of(v)) + q
      <3>1. \A c \in Of(v) \union {r} : After[c] \in Int
        BY <1>3, <2>1
      <3>2. QED
        BY <2>1, <3>1, SumInsert
    <2>8. QED
      BY <2>2, <2>3, <2>4, <2>5, <2>6, <2>7
  <1>6. QED
    BY <1>4, <1>5 DEF BookedInv

LEMMA BookedStep == TypeOK /\ BookedInv /\ [Next]_vars => BookedInv'
  <1>1. ASSUME BookedInv, UNCHANGED <<completed, completions>> PROVE BookedInv'
    BY <1>1 DEF BookedInv, Booked
  <1>2. QED
    BY <1>1, BatchBooked
       DEF Next, vars, orderVars, opVars, ReleaseOrder, ExecuteOperation, StartOperation,
           StopOperation, ReportOperation, CompleteOrder, CloseOrder, ReportProgress,
           ValidateProgress, WriteProgress

THEOREM Inductive == Spec => []IInv
  <1>1. IInv /\ [Next]_vars => IInv'
    BY TypeStep, BookedStep, OrderStep DEF IInv
  <1>2. QED
    BY InitIInv, <1>1, PTL DEF Spec

\* Every reachable state has the declared types.
THEOREM TypeCorrect == Spec => []TypeOK
  BY Inductive, PTL DEF IInv

\* No step of any routing runs ahead of the one before it, and no order
\* receives more finished goods than its final operation made.
THEOREM QuantityChainSafe == Spec => []QuantityChain
  <1>1. IInv => QuantityChain
    BY DEF IInv, OrderInv, ChainAt, Routed, QuantityChain
  <1>2. QED
    BY Inductive, <1>1, PTL

\* Steps overlap only as far as transfer batches allow.
THEOREM TransferSafe == Spec => []ActiveOnlyAfterTransfer
  <1>1. IInv => ActiveOnlyAfterTransfer
    BY DEF IInv, OrderInv, TransferAt, Routed, Executable, ActiveOnlyAfterTransfer
  <1>2. QED
    BY Inductive, <1>1, PTL

\* Resent completions count once, and the order is finished exactly when its
\* records add up to the plan.
THEOREM CompletionsSafe == Spec => []CompletionsAccountForOrder
  <1>1. IInv => CompletionsAccountForOrder
    BY DEF IInv, BookedInv, Booked, OrderInv, StatusAt, CompletionsAccountForOrder
  <1>2. QED
    BY Inductive, <1>1, PTL

\* No history of reports strands an open order.
THEOREM StrandSafe == Spec => []NeverStranded
  <1>1. ASSUME IInv, NEW w \in WorkOrders, OpenForExecution(w),
               NEW i \in 1..NumSteps[w], opStatus[w][i] # "COMPLETED"
        PROVE  \E j \in 1..NumSteps[w] : opStatus[w][j] \in Executable
    <2>1. PICK j \in 1..i : opStatus[w][j] \in Executable
      BY <1>1 DEF IInv, OrderInv, FrontierAt, Routed, OpenForExecution
    <2>2. j \in 1..NumSteps[w]
      BY <1>1, OrderTypes DEF IInv
    <2>3. QED
      BY <2>1, <2>2
  <1>2. IInv => NeverStranded
    BY <1>1 DEF NeverStranded, Executable
  <1>3. QED
    BY Inductive, <1>2, PTL

\* Quantities grow, finished steps stay finished, orders do not go back.
THEOREM ForwardSafe == Spec => ExecutionMovesForward
  <1>1. ASSUME IInv, Next, NEW v \in WorkOrders PROVE MovesForward(v)
    <2> USE OrderTypes, <1>1 DEF IInv, Steps, MovesForward
    <2>1. ASSUME NEW w \in WorkOrders, ReleaseOrder(w) PROVE MovesForward(v)
      <3>1. status[w] = "PLANNED" /\ status'[w] = "RELEASED" /\ opQty' = opQty
            /\ (v # w => status'[v] = status[v] /\ opStatus'[v] = opStatus[v])
        BY <2>1 DEF ReleaseOrder, TypeOK
      <3>2. \A i \in Steps : opStatus[w][i] # "COMPLETED"
        BY <3>1 DEF OrderInv, StepsAt
      <3>3. QED
        BY <3>1, <3>2
    <2>2. ASSUME NEW w \in WorkOrders, NEW i \in 1..NumSteps[w],
                 StartOperation(w, i) \/ StopOperation(w, i)
          PROVE  MovesForward(v)
      <3>1. /\ opStatus[w][i] # "COMPLETED" /\ opQty' = opQty
            /\ \A j \in Steps : <<v, j>> # <<w, i>> => opStatus'[v][j] = opStatus[v][j]
            /\ status'[v] = status[v] \/
               (status[v] = "RELEASED" /\ status'[v] = "IN_PROGRESS")
        BY <2>2 DEF StartOperation, StopOperation, MarkStarted, orderVars, TypeOK
      <3>2. QED
        BY <3>1
    <2>3. ASSUME NEW w \in WorkOrders, NEW i \in 1..NumSteps[w],
                 NEW q \in 1..Quantity[w], ReportOperation(w, i, q)
          PROVE  MovesForward(v)
      <3>1. /\ opStatus[w][i] = "IN_PROGRESS" /\ q > opQty[w][i]
            /\ \A j \in Steps : opQty'[v][j] =
                    IF v = w /\ j = i THEN q ELSE opQty[v][j]
            /\ status'[v] = status[v] \/
               (status[v] = "RELEASED" /\ status'[v] = "IN_PROGRESS")
        BY <2>3 DEF ReportOperation, CumulativeReportOK, MarkStarted, TypeOK
      <3>2. \A j \in Steps : opStatus[v][j] = "COMPLETED"
                             => opStatus'[v][j] = "COMPLETED"
        BY <2>3, <3>1 DEF ReportOperation, AfterReport, Reported, TypeOK
      <3>3. QED
        BY <3>1, <3>2
    <2>4. ASSUME NEW w \in WorkOrders, CompleteOrder(w) \/ CloseOrder(w)
          PROVE  MovesForward(v)
      <3>1. /\ opStatus' = opStatus /\ opQty' = opQty
            /\ status'[v] = status[v] \/ status'[v] \in {"COMPLETED", "CLOSED"}
               \/ (status'[v] = "IN_PROGRESS" /\ status[v] \in {"RELEASED", "IN_PROGRESS"})
        BY <2>4 DEF CompleteOrder, CompleteBatch, CloseOrder, OpenForExecution,
                    opVars, TypeOK
      <3>2. QED
        BY <3>1
    <2>5. ASSUME NEW w \in WorkOrders, ReportProgress(w) PROVE MovesForward(v)
      BY <2>5 DEF ReportProgress, ValidateProgress, orderVars, opVars
    <2>6. ASSUME NEW c \in Clients, WriteProgress(c) PROVE MovesForward(v)
      <3>1. /\ opStatus' = opStatus /\ opQty' = opQty
            /\ status'[v] = status[v] \/
               (status[v] = "RELEASED" /\ status'[v] = "IN_PROGRESS")
        BY <2>6 DEF WriteProgress, opVars, TypeOK
      <3>2. QED
        BY <3>1
    <2>7. QED
      BY <2>1, <2>2, <2>3, <2>4, <2>5, <2>6 DEF Next, ExecuteOperation
  <1>2. IInv /\ [Next]_vars =>
          [\A w \in WorkOrders : MovesForward(w)]_vars
    BY <1>1
  <1>3. QED
    BY Inductive, <1>2, PTL DEF Spec, ExecutionMovesForward

-----------------------------------------------------------------------------
(* Commitments: what release and completion promise about stock *)

\* What OnlyOrder says point by point.
LEMMA OneOrder ==
    ASSUME NEW w \in Orders, NEW f \in [Orders -> Amounts], NEW g, OnlyOrder(w, f, g)
    PROVE  /\ g \in [Orders -> Amounts]
           /\ \A v \in Orders : v # w => g[v] = f[v]
BY DEF OnlyOrder

LEMMA FirstState == CommitInit => NeverOverPromised
BY DEF CommitInit, NeverOverPromised, Amounts, Nothing

LEMMA NextState ==
    NeverOverPromised /\ [CommitNext]_commitVars => NeverOverPromised'
<1> SUFFICES ASSUME NeverOverPromised, [CommitNext]_commitVars
             PROVE  NeverOverPromised'
    OBVIOUS
<1>1. CASE Supply
    BY <1>1 DEF Supply, Gained, NeverOverPromised
<1>2. ASSUME NEW w \in Orders, Promise(w)
      PROVE  NeverOverPromised'
    BY <1>2, OneOrder DEF Promise, NeverOverPromised
<1>3. ASSUME NEW w \in Orders, Fulfil(w)
      PROVE  NeverOverPromised'
    BY <1>3, OneOrder DEF Fulfil, Gained, NeverOverPromised
<1>4. CASE UNCHANGED commitVars
    BY <1>4 DEF commitVars, NeverOverPromised
<1> QED
    BY <1>1, <1>2, <1>3, <1>4 DEF CommitNext

\* Every promise is backed: what is free and what is promised stay at or above
\* nothing in every reachable state.
THEOREM PromisesBacked == CommitSpec => []NeverOverPromised
BY FirstState, NextState, PTL DEF CommitSpec

LEMMA StepFixes ==
    NeverOverPromised /\ [CommitNext]_commitVars => [\A w \in Orders : FixedFor(w)]_commitVars
<1> SUFFICES ASSUME NeverOverPromised, CommitNext, NEW v \in Orders, ~Uncommitted(v)
             PROVE  \A i \in Items :
                        promised'[v][i] + used'[v][i] = promised[v][i] + used[v][i]
    BY DEF FixedFor
<1>1. CASE Supply
    BY <1>1 DEF Supply
<1>2. ASSUME NEW w \in Orders, Promise(w)
      PROVE  promised'[v] = promised[v] /\ used' = used
  <2>1. v # w
    BY <1>2 DEF Promise
  <2> QED
    BY <1>2, <2>1, OneOrder DEF Promise, NeverOverPromised
<1>3. ASSUME NEW w \in Orders, Fulfil(w), NEW i \in Items
      PROVE  promised'[v][i] + used'[v][i] = promised[v][i] + used[v][i]
  <2>1. CASE v = w
    BY <1>3, <2>1 DEF Fulfil
  <2>2. CASE v # w
    BY <1>3, <2>2, OneOrder DEF Fulfil, NeverOverPromised
  <2> QED
    BY <2>1, <2>2
<1> QED
    BY <1>1, <1>2, <1>3 DEF CommitNext

\* What an order holds and has used adds up to what it was first promised.
THEOREM PromisesFixed == CommitSpec => PromiseIsFixed
<1>1. CommitSpec => []NeverOverPromised
    BY PromisesBacked
<1> QED
    BY <1>1, StepFixes, PTL DEF CommitSpec, PromiseIsFixed
=============================================================================
