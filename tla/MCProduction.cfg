SPECIFICATION Spec
CONSTANTS
    steel = steel
    gear = gear
    car = car
    gears = gears
    cars = cars
    NoDoc = NoDoc
    WorkOrders = {gears, cars}
    CompletionIds = {c1, c2, c3}
    Clients = {}
    MaxSteps = 1
    Quantity <- MCQuantity
    NumSteps <- MCNumSteps
    TransferBatch <- MCTransferBatch
    Items = {steel, gear, car}
    NumLots = 4
    LotItem <- MCLotItem
    Docs = {gears, cars}
    OrderDocs = {gears, cars}
    ReceiptDocs = {}
    ReserveDocs = {}
    InspectedLots = {1}
    MaxTxn = 2
    MaxStock = 3
    Product <- MCProduct
    InitialBOM <- MCInitialBOM
    Revisions <- MCRevisions
SYMMETRY Symmetry
INVARIANTS
    ReservationMatchesOrder
    UsageMatchesCompletions
PROPERTIES
    ImplementsCommitments
\* Every order may be closed and the stock bound reached.
CHECK_DEADLOCK FALSE
