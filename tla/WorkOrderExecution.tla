-------------------------- MODULE WorkOrderExecution --------------------------
(***************************************************************************)
(* One work order from PLANNED to CLOSED: the shop-floor operations copied *)
(* from the routing at release, the cumulative good quantities reported    *)
(* against them, the finished-goods receipts those quantities gate, and    *)
(* the advisory progress figure, which is written without a lock.          *)
(*                                                                         *)
(* Every action but the two of the progress handler is one database        *)
(* transaction: the services lock the work order row first, so within one  *)
(* work order transactions are serial.  The progress handler reads the     *)
(* order in one statement and writes it in another, and is two actions.    *)
(* Stock is the subject of StockLedger; Production composes the two.       *)
(***************************************************************************)
EXTENDS Integers, FiniteSetsExt

CONSTANTS
    WorkOrders,      \* work_orders.id
    CompletionIds,   \* the idempotency keys clients generate
    Clients,         \* concurrent callers of the progress endpoint
    MaxSteps,        \* the longest routing
    Quantity,        \* work_orders.quantity, by work order
    NumSteps,        \* operations of the active routing; 0 when there is none
    TransferBatch    \* transfer_batch_qty by work order and step; 0: overlap off

Steps == 1..MaxSteps

ASSUME WorkOrderAssumption ==
    /\ MaxSteps \in Nat
    /\ Quantity \in [WorkOrders -> Nat \ {0}]
    /\ NumSteps \in [WorkOrders -> 0..MaxSteps]
    /\ TransferBatch \in [WorkOrders -> [Steps -> Nat]]

VARIABLES
    status,        \* work_orders.status
    completed,     \* work_orders.completed_qty
    reported,      \* work_orders.reported_progress_qty
    opStatus,      \* wo_operations.status, by work order and step
    opQty,         \* wo_operations.completed_qty
    completions,   \* work_order_completions
    pending        \* the validated, not yet written requests of updateWOProgress

orderVars == <<status, completed, reported>>
opVars == <<opStatus, opQty>>
vars == <<status, completed, reported, opStatus, opQty, completions, pending>>

WorkOrderStatus == {"PLANNED", "RELEASED", "IN_PROGRESS", "COMPLETED", "CLOSED"}
\* "NONE" stands for a step that has no wo_operations row.
OperationStatus ==
    {"NONE", "PENDING", "READY", "IN_PROGRESS", "PAUSED", "COMPLETED"}

Completion == [id : CompletionIds, wo : WorkOrders, qty : Nat]
ProgressRequest == [wo : WorkOrders, qty : Nat]

TypeOK ==
    /\ status \in [WorkOrders -> WorkOrderStatus]
    /\ completed \in [WorkOrders -> Nat]
    /\ reported \in [WorkOrders -> Nat]
    /\ opStatus \in [WorkOrders -> [Steps -> OperationStatus]]
    /\ opQty \in [WorkOrders -> [Steps -> Nat]]
    /\ completions \subseteq Completion
    /\ pending \in [Clients -> SUBSET ProgressRequest]

Init ==
    /\ status = [w \in WorkOrders |-> "PLANNED"]
    /\ completed = [w \in WorkOrders |-> 0]
    /\ reported = [w \in WorkOrders |-> 0]
    /\ opStatus = [w \in WorkOrders |-> [i \in Steps |-> "NONE"]]
    /\ opQty = [w \in WorkOrders |-> [i \in Steps |-> 0]]
    /\ completions = {}
    /\ pending = [c \in Clients |-> {}]

-----------------------------------------------------------------------------
(* Rules shared by the handlers *)

OpenForExecution(w) == status[w] \in {"RELEASED", "IN_PROGRESS"}

LesserOf(a, b) == IF a <= b THEN a ELSE b

\* The quantity q is a full transfer batch of step i, when steps may overlap.
BatchTransferred(w, i, q) ==
    TransferBatch[w][i] > 0 /\ q >= LesserOf(TransferBatch[w][i], Quantity[w])

\* wo_predecessor_transfer_ready: the first step has no predecessor.
PredecessorReady(w, i) ==
    i > 1 => \/ opStatus[w][i - 1] = "COMPLETED"
             \/ BatchTransferred(w, i - 1, opQty[w][i - 1])

\* mutant: a cumulative report may go down
CumulativeReportMayShrink(w, i, q) ==
    /\ q <= Quantity[w]
    /\ i = NumSteps[w] => q >= completed[w]

\* The cumulative report q is allowed for step i.
CumulativeReportOK(w, i, q) ==
    /\ q <= Quantity[w]
    /\ q > opQty[w][i]
    /\ i = NumSteps[w] => q >= completed[w]

\* mutant: the predecessor's actuals are not looked at
WithinPlanOnly(w, i, q) == q <= Quantity[w]

WithinPredecessor(w, i, q) == i > 1 => q <= opQty[w][i - 1]

\* Starting or reporting an operation also starts its work order.
MarkStarted(w) ==
    status' = [status EXCEPT ![w] = IF @ = "RELEASED" THEN "IN_PROGRESS" ELSE @]

\* The finished-goods receipt q is covered by the final operation's actuals.
WithinFinalOperation(w, q) ==
    /\ NumSteps[w] > 0
    /\ opQty[w][NumSteps[w]] > 0
    /\ completed[w] + q <= opQty[w][NumSteps[w]]

-----------------------------------------------------------------------------
(* Release and the shop floor *)

\* The order part of a release: the routing is copied, its first step READY.
ReleaseOrder(w) ==
    /\ status[w] = "PLANNED"
    /\ status' = [status EXCEPT ![w] = "RELEASED"]
    /\ opStatus' = [opStatus EXCEPT ![w] = [i \in Steps |->
            IF i > NumSteps[w] THEN "NONE"
            ELSE IF i = 1 THEN "READY" ELSE "PENDING"]]
    /\ UNCHANGED <<completed, reported, opQty, completions, pending>>

StartOperation(w, i) ==
    /\ OpenForExecution(w)
    /\ opStatus[w][i] \in {"READY", "PAUSED"}
    /\ PredecessorReady(w, i)
    /\ opStatus' = [opStatus EXCEPT ![w][i] = "IN_PROGRESS"]
    /\ MarkStarted(w)
    /\ UNCHANGED <<completed, reported, opQty, completions, pending>>

StopOperation(w, i) ==
    /\ OpenForExecution(w)
    /\ opStatus[w][i] = "IN_PROGRESS"
    /\ opStatus' = [opStatus EXCEPT ![w][i] = "PAUSED"]
    /\ UNCHANGED <<orderVars, opQty, completions, pending>>

Reported(w, q) == IF q >= Quantity[w] THEN "COMPLETED" ELSE "IN_PROGRESS"

\* mutants: the successor is never promoted; any report promotes it
AfterReportAlone(w, i, q) == [opStatus[w] EXCEPT ![i] = Reported(w, q)]
AfterAnyReport(w, i, q) ==
    [j \in Steps |-> IF j = i THEN Reported(w, q)
                     ELSE IF j = i + 1 /\ opStatus[w][j] = "PENDING" THEN "READY"
                     ELSE opStatus[w][j]]

\* The statuses after step i reported q: a transfer promotes a PENDING successor.
AfterReport(w, i, q) ==
    [j \in Steps |->
        CASE j = i -> Reported(w, q)
          [] /\ j = i + 1
             /\ opStatus[w][j] = "PENDING"
             /\ q >= Quantity[w] \/ BatchTransferred(w, i, q) -> "READY"
          [] OTHER -> opStatus[w][j]]

\* A cumulative good-quantity report, partial or final.
ReportOperation(w, i, q) ==
    /\ OpenForExecution(w)
    /\ opStatus[w][i] = "IN_PROGRESS"
    /\ WithinPredecessor(w, i, q)
    /\ CumulativeReportOK(w, i, q)
    /\ opStatus' = [opStatus EXCEPT ![w] = AfterReport(w, i, q)]
    /\ opQty' = [opQty EXCEPT ![w][i] = q]
    /\ MarkStarted(w)
    /\ UNCHANGED <<completed, reported, completions, pending>>

-----------------------------------------------------------------------------
(* Finished goods *)

\* mutant: a retry is not recognised
NeverRecorded(id) == FALSE

Recorded(id) == \E c \in completions : c.id = id

\* One physical completion batch.  A retry of a recorded id returns the stored
\* result (or a conflict, when order or quantity differ) and changes nothing.
CompleteBatch(w, id, q) ==
    /\ ~Recorded(id)
    /\ OpenForExecution(w)
    /\ completed[w] + q <= Quantity[w]
    /\ WithinFinalOperation(w, q)
    /\ completions' = completions \union {[id |-> id, wo |-> w, qty |-> q]}
    /\ completed' = [completed EXCEPT ![w] = @ + q]
    /\ reported' = [reported EXCEPT ![w] =
            IF @ >= completed[w] + q THEN @ ELSE completed[w] + q]
    /\ status' = [status EXCEPT ![w] =
            IF completed[w] + q = Quantity[w] THEN "COMPLETED" ELSE "IN_PROGRESS"]
    /\ UNCHANGED <<opVars, pending>>

CloseOrder(w) ==
    /\ status[w] = "COMPLETED"
    /\ status' = [status EXCEPT ![w] = "CLOSED"]
    /\ UNCHANGED <<completed, reported, opVars, completions, pending>>

-----------------------------------------------------------------------------
(* Advisory progress: read and validate, then write, with nothing locked *)

ValidateProgress(c, w, q) ==
    /\ pending[c] = {}
    /\ q <= Quantity[w]
    /\ q >= completed[w]
    /\ pending' = [pending EXCEPT ![c] = {[wo |-> w, qty |-> q]}]
    /\ UNCHANGED <<orderVars, opVars, completions>>

WriteProgress(c) ==
    \E r \in pending[c] :
        /\ reported' = [reported EXCEPT ![r.wo] = r.qty]
        /\ status' = [status EXCEPT ![r.wo] =
                IF r.qty > 0 /\ @ = "RELEASED" THEN "IN_PROGRESS" ELSE @]
        /\ pending' = [pending EXCEPT ![c] = {}]
        /\ UNCHANGED <<completed, opVars, completions>>

-----------------------------------------------------------------------------
ExecuteOperation(w) ==
    \E i \in 1..NumSteps[w] :
        \/ StartOperation(w, i)
        \/ StopOperation(w, i)
        \/ \E q \in 1..Quantity[w] : ReportOperation(w, i, q)

CompleteOrder(w) ==
    \E id \in CompletionIds, q \in 1..Quantity[w] : CompleteBatch(w, id, q)

ReportProgress(w) ==
    \E c \in Clients, q \in 0..Quantity[w] : ValidateProgress(c, w, q)

Next ==
    \/ \E w \in WorkOrders :
            \/ ReleaseOrder(w)
            \/ ExecuteOperation(w)
            \/ CompleteOrder(w)
            \/ CloseOrder(w)
            \/ ReportProgress(w)
    \/ \E c \in Clients : WriteProgress(c)

Spec == Init /\ [][Next]_vars

-----------------------------------------------------------------------------
(* What must hold of every committed state *)

\* A step never has more good units than the step before it, the order never
\* more finished goods than its final step, and nothing exceeds the plan: the
\* deferred triggers of migrations 0020 and 0030 raise when this fails.
QuantityChain ==
    \A w \in WorkOrders :
        /\ \A i \in 1..NumSteps[w] :
               /\ opQty[w][i] <= Quantity[w]
               /\ i > 1 => opQty[w][i] <= opQty[w][i - 1]
        /\ completed[w] > 0 =>
               NumSteps[w] > 0 /\ completed[w] <= opQty[w][NumSteps[w]]

\* A step is READY or being worked only once its predecessor has transferred
\* a batch, although batches are reported, paused and resumed in any order.
ActiveOnlyAfterTransfer ==
    \A w \in WorkOrders : \A i \in 1..NumSteps[w] :
        opStatus[w][i] \in {"READY", "IN_PROGRESS", "PAUSED"} => PredecessorReady(w, i)

\* An open order whose routing is not finished always has a step somebody can
\* start or report: no sequence of overlapping reports strands a later step.
NeverStranded ==
    \A w \in WorkOrders :
        /\ OpenForExecution(w)
        /\ \E i \in 1..NumSteps[w] : opStatus[w][i] # "COMPLETED"
        => \E i \in 1..NumSteps[w] :
               opStatus[w][i] \in {"READY", "IN_PROGRESS", "PAUSED"}

\* However often a completion is resent, its key counts once: the cumulative figure
\* on the order is the sum of its completion records, and the order is finished
\* exactly when that sum reaches the plan (CompleteWorkOrder).
CompletionsAccountForOrder ==
    \A w \in WorkOrders :
        /\ completed[w] = SumFunctionOnSet([c \in completions |-> c.qty],
                                          {c \in completions : c.wo = w})
        /\ status[w] \in {"COMPLETED", "CLOSED"} <=> completed[w] = Quantity[w]

MovesForward(w) ==
    /\ \A i \in Steps :
         /\ opQty'[w][i] >= opQty[w][i]
         /\ opStatus[w][i] = "COMPLETED" => opStatus'[w][i] = "COMPLETED"
    /\ status[w] \in {"COMPLETED", "CLOSED"} => status'[w] \in {"COMPLETED", "CLOSED"}
    /\ status[w] = "IN_PROGRESS" => status'[w] # "RELEASED"

\* Reported work is never lost: quantities do not shrink, a finished step is
\* not reopened and an order that left execution does not return to it.
ExecutionMovesForward == [][\A w \in WorkOrders : MovesForward(w)]_vars
=============================================================================
