SPECIFICATION MCSpec
CONSTANTS
    big = big
    small = small
    acme = acme
    PurchaseOrders = {big, small}
    ReceiptIds = {d1, d2, d3}
    LotNos = {A}
    Suppliers = {acme}
    SupplierOf <- MCSupplierOf
    Ordered <- MCOrdered
    Unnamed = Unnamed
    NoAnswer = NoAnswer
    Lots = {lot}
    NCRs = {n1, n2, n3}
    MaxDelivered = 2
SYMMETRY Symmetry
INVARIANTS
    ReceiptsAccountForOrder
    StockAccountsForDecisions
PROPERTIES
    DeliveryUnderInspectionHeld
    ReleasedWhenClear
    DecidedOnce
