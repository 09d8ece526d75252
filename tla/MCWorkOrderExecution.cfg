SPECIFICATION Spec
CONSTANTS
    long = long
    short = short
    WorkOrders = {long, short}
    CompletionIds = {c1, c2, c3}
    Clients = {u1}
    MaxSteps = 3
    Quantity <- MCQuantity
    NumSteps <- MCNumSteps
    TransferBatch <- MCTransferBatch
SYMMETRY CompletionIdSymmetry
INVARIANTS
    QuantityChain
    ActiveOnlyAfterTransfer
    NeverStranded
    CompletionsAccountForOrder
PROPERTIES
    ExecutionMovesForward
\* Orders end CLOSED, or out of completion ids.
CHECK_DEADLOCK FALSE
