SPECIFICATION Spec
CONSTANTS
    steel = steel
    wo = wo
    NoDoc = NoDoc
    Items = {steel}
    NumLots = 3
    LotItem <- MCLotItem
    Docs = {wo}
    OrderDocs = {wo}
    ReceiptDocs = {}
    ReserveDocs = {wo}
    InspectedLots = {1, 2, 3}
    MaxTxn = 2
    MaxStock = 3
INVARIANTS
    NoNegativeLot
    LotsReconcile
    FifoIsOldestFirst
