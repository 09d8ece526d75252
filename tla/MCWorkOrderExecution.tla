------------------------ MODULE MCWorkOrderExecution ------------------------
(* Two orders: one of three overlapping steps and one of a single step.       *)
EXTENDS WorkOrderExecution, TLC

CONSTANTS long, short

CompletionIdSymmetry == Permutations(CompletionIds)

MCQuantity == [w \in WorkOrders |-> IF w = long THEN 3 ELSE 2]
MCNumSteps == [w \in WorkOrders |-> IF w = long THEN 3 ELSE 1]
\* Step 1 of the long order hands over single pieces, step 2 batches of two;
\* step 3 is the last and its batch is never asked for.
MCTransferBatch ==
    [w \in WorkOrders |-> [i \in 1..3 |-> IF w = long /\ i < 3 THEN i ELSE 0]]
=============================================================================
