SPECIFICATION MCSpec
CONSTANTS
    c1 = c1
    c2 = c2
    o1 = o1
    o2 = o2
    l1 = l1
    l2 = l2
    l3 = l3
    gold = gold
    plain = plain
    shared = shared
    favoured = favoured
    Customers = {c1, c2}
    Orders = {o1, o2}
    Lines = {l1, l2, l3}
    CustomerOf <- MCCustomerOf
    OrderOf <- MCOrderOf
    Quantity <- MCQuantity
    Tasks <- MCTasks
    Requests = {q1, q2}
    Others = Others
    Batch = 2
    MaxStock = 4
    MaxDay = 2
    RequestedOn <- MCRequestedOn
    Place <- MCPlace
    Horizons = {1, 2}
    Rate = 2
    Plants <- MCPlants
    Planners = {p1, p2}
    Runs = {r1, r2}
    None = None
    Classes = {gold, plain}
    ClassRank <- MCClassRank
    Plans = {shared, favoured}
    From <- MCFrom
    To <- MCTo
    Share <- MCShare
SYMMETRY Symmetry
INVARIANTS
    OrdersReconcile
    RequestsApplyOnce
    DecisionExplainsDates
PROPERTIES
    PublishedFitsSupply
CHECK_DEADLOCK FALSE
