-------------------------- MODULE MCCustomerOrders --------------------------
(* Two halves of one run.  "orders": an order of two lines, its allocations,  *)
(* releases and shipments sent more than once and at once, under inspections  *)
(* and other reservations.  "planning": two confirmed orders of customers of  *)
(* two classes, promised and replanned while supply, capacity, policies and   *)
(* orders change, twice at most beside the planners' own steps.  Quantities are *)
(* in steps of two, so that half of one is one.                               *)
EXTENDS Backorders, TLC

CONSTANTS c1, c2, o1, o2, l1, l2, l3, gold, plain, shared, favoured

VARIABLES half, changes

MCCustomerOf == [o \in Orders |-> IF o = o1 THEN c1 ELSE c2]
MCOrderOf == [l \in Lines |-> IF l = l3 THEN o2 ELSE o1]
MCQuantity == [l \in Lines |-> IF l = l1 THEN 4 ELSE 2]
MCRequestedOn == [l \in Lines |-> IF l = l2 THEN 2 ELSE 1]
MCPlace == [l \in Lines |-> CASE l = l1 -> 1 [] l = l2 -> 2 [] l = l3 -> 3]
Task(k, i, l, n) == [kind |-> k, id |-> i, line |-> l, qty |-> n]
MCTasks == {Task("ALLOCATE", "a", l1, 4), Task("ALLOCATE", "b", l2, 2), Task("RELEASE", "a", l1, 2),
            Task("RELEASE", "r", l1, 2), Task("SHIP", "a", l1, 2), Task("SHIP", "b", l1, 2),
            Task("SHIP", "a", l2, 2)}
MCClassRank == [c \in Classes |-> IF c = gold THEN 1 ELSE 2]
MCFrom == [a \in Plans |-> 1]
MCTo == [a \in Plans |-> IF a = shared THEN 2 ELSE 1]
MCShare == [a \in Plans |-> IF a = shared THEN [c \in Classes |-> 50] ELSE [c \in {gold} |-> 100]]
Plant(due2, parts, lead, safety, free) ==
    [due |-> [d \in Days |-> IF d = 2 THEN due2 ELSE 0], parts |-> parts, partsDue |-> [d \in Days |-> 0],
     lead |-> lead, safety |-> safety, free |-> free]
MCPlants == {Plant(0, 4, 1, 0, {1, 2}), Plant(0, 4, 1, 1, {1, 2}), Plant(2, 0, 1, 0, {})}

MCInit ==
    /\ changes = 0
    /\ PromisingInit
    /\ priority = [o \in Orders |-> "NORMAL"]
    /\ class = [c \in Customers |-> IF c = c1 THEN plain ELSE gold]
    /\ blocked = {} /\ events = <<>> /\ shipments = <<>>
    /\ line = [l \in Lines |-> [allocated |-> 0, shipped |-> 0, cancelled |-> 0]]
    /\ reserved = [r \in Lines \union {Others} |-> 0]
    /\ history = [o \in Orders |-> <<>>]
    /\ request = [q \in Requests |-> Idle] /\ answered = {} /\ held = 0
    /\ \/ /\ half = "orders" /\ plant = CHOOSE x \in Plants : TRUE
          /\ order = [o \in Orders |-> "NONE"] /\ sellable = 0
          /\ allocation = [a \in Plans |-> "NONE"]
       \/ /\ half = "planning" /\ plant.free # {}
          /\ order = [o \in Orders |-> "CONFIRMED"] /\ sellable = (IF plant.safety = 1 THEN 4 ELSE 2)
          /\ allocation \in {[a \in Plans |-> IF a = shared THEN "ACTIVE" ELSE "NONE"], [a \in Plans |-> "DRAFT"]}

MCNext ==
    /\ UNCHANGED half
    /\ \/ half = "orders" /\ SalesStep /\ order'[o2] = "NONE" /\ UNCHANGED changes
       \/ half = "planning" /\ (PromisingStep \/ BackorderStep) /\ UNCHANGED changes
       \/ /\ half = "planning" /\ changes < 2 /\ changes' = changes + 1
          /\ SalesStep \/ PolicyStep \/ PlantStep
          /\ UNCHANGED <<blocked, reserved, events, shipments, request, answered, held>>

MCSpec == MCInit /\ [][MCNext]_<<customerVars, half, changes>>
Symmetry == Permutations(Planners) \union Permutations(Runs) \union Permutations(Requests)
=============================================================================
