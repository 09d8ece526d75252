-------------------------- MODULE MaterialPlanning --------------------------
(***************************************************************************)
(* One MRP run (MRPService.run) beside the stock postings and the BOM changes *)
(* that go on while it reads: it has no transaction of its own, so stock,     *)
(* purchases, work orders and the components of each item are read one after  *)
(* the other.  Days count from the start of the horizon; what is past due is  *)
(* there on the first.  Lead times and policies stand still during a run.     *)
(***************************************************************************)
EXTENDS BillOfMaterials

CONSTANTS
    Horizon,   \* days of a run
    Master,    \* by item: lead, method, lot, periods, as MRP reads them
    Policy,    \* by item: EffectiveInventoryPolicy
    Demand,    \* mps: planned quantity by item and day
    Purchases, WorkOrders

Dates == 0..(Horizon - 1)
\* eoq is what EOQ computes, 0 if it cannot.
ItemMaster == [lead : Nat, method : {"LFL", "FOQ", "POQ", "EOQ"}, lot : Nat, eoq : Nat, periods : Nat \ {0}]
EffectivePolicy == [minMax : BOOLEAN, \* MIN_MAX and CALCULATED
                    safety : Nat, reorder : Nat, max : Nat]
PurchaseOrder == [item : Items, quantity : Nat, received : Nat, day : Int, blocked : BOOLEAN]
WorkOrder == [item : Items, quantity : Nat, completed : Nat, start : Int, due : Int, status : {"PLANNED", "RELEASED", "COMPLETED"}]

ASSUME MaterialPlanningAssumption ==
    /\ Horizon \in Nat \ {0} /\ IsFiniteSet(Purchases) /\ IsFiniteSet(WorkOrders)
    /\ Master \in [Items -> ItemMaster] /\ Policy \in [Items -> EffectivePolicy]
    /\ \A i \in Items : Policy[i].reorder <= Policy[i].max
    /\ Demand \in [Items -> [Dates -> Nat]]

VARIABLES
    onHand,    \* by item
    purchases, \* purchase_orders
    work,      \* work_orders
    run        \* what the run has read and planned so far

planVars == <<onHand, purchases, work, run>>

Zero == [i \in Items |-> [d \in Dates |-> 0]]
BeforeRun == [phase |-> "idle", level |-> <<>>, stock |-> <<>>, position |-> <<>>, orders |-> <<>>, todo |-> {}, scheduled |-> Zero, gross |-> Zero,
         components |-> <<>>, planned |-> <<>>]

PlanningTypeOK ==
    /\ onHand \in [Items -> Int]
    /\ purchases \in [Purchases -> PurchaseOrder] /\ work \in [WorkOrders -> WorkOrder]
    /\ run.gross \in [Items -> [Dates -> Int]] /\ run.scheduled \in [Items -> [Dates -> Int]]

-----------------------------------------------------------------------------
(* Netting.                                                                *)
Due(d) == IF d < 0 THEN 0 ELSE d
Remaining(p) == IF p.received < p.quantity THEN p.quantity - p.received ELSE 0
RoundUpToMultiple(x, m) == IF m <= 0 \/ x % m = 0 THEN x ELSE (x \div m + 1) * m
ApplyLotSize(i, net) ==
    IF net <= 0 THEN 0
    ELSE CASE Master[i].method = "FOQ" -> RoundUpToMultiple(net, Max({Master[i].lot, 1}))
           [] Master[i].method = "EOQ" -> RoundUpToMultiple(net, Master[i].eoq)
           [] OTHER -> net

\* Under POQ the days with a requirement are taken in groups, each moved to its first day.
Grouped(i, g) ==
    LET days == {d \in Dates : g[d] > 0}
        GroupOf(d) == Cardinality({e \in days : e < d}) \div Master[i].periods
    IN IF Master[i].method # "POQ" THEN g
       ELSE [d \in Dates |-> IF d \in days /\ Cardinality({e \in days : e < d}) % Master[i].periods = 0
                             THEN SumFunctionOnSet(g, {e \in days : GroupOf(e) = GroupOf(d)}) ELSE 0]

\* netMRPBucket, with safety stock as the balance to end on, or up to the maximum once below the reorder point.
NetRequirement(i, before) ==
    IF Policy[i].minMax THEN (IF before >= Policy[i].reorder THEN 0 ELSE Policy[i].max - before) ELSE Policy[i].safety - before
\* Days without requirement or receipt are no buckets, but for the first when stock is already short.
IsBucket(i, g, s, stock, d) ==
    \/ g[d] > 0 \/ s[d] > 0
    \/ d = 0 /\ stock < IF Policy[i].minMax THEN Policy[i].reorder ELSE Policy[i].safety
\* Projected balance and planned receipt, day by day.
Netted(i, g, s, stock) ==
    LET net[d \in -1..(Horizon - 1)] ==
            IF d = -1 THEN [balance |-> stock, receipt |-> 0]
            ELSE LET before == net[d - 1].balance + s[d] - g[d]
                     receipt == IF IsBucket(i, g, s, stock, d) THEN ApplyLotSize(i, NetRequirement(i, before)) ELSE 0
                 IN [balance |-> before + receipt, receipt |-> receipt]
    IN [d \in Dates |-> net[d].receipt]

ComponentsOf(i) == [c \in {x \in Items : <<i, x>> \in DOMAIN bom} |-> bom[i, c]]
\* What is released on d for the receipts r, lead days before each.
ReleasedOn(r, lead, d) == SumFunctionOnSet(r, {e \in Dates : Due(e - lead) = d})
\* Requirement of the components for that.
Exploded(gross, r, lead, components) ==
    [c \in Items |-> [d \in Dates |-> gross[c][d] +
        IF c \notin DOMAIN components THEN 0
        ELSE components[c] * ReleasedOn(r, lead, d)]]

-----------------------------------------------------------------------------
(* The run.                                                                *)
\* mutant: the stock is read last.
ReadsStockLast == <<"purchases", "orders", "stock", "work">>
\* What is read, in this order.
Reads == <<"stock", "purchases", "orders", "work">>
AfterRead(phase) == Reads[1 + CHOOSE k \in 1..3 : Reads[k] = phase]

Counted(p) == ~p.blocked /\ p.day < Horizon
Outstanding == [p \in Purchases |-> Remaining(purchases[p])]
Unfinished(orders) == [w \in WorkOrders |-> orders[w].quantity - orders[w].completed]
\* All that may still arrive, in the horizon or after it.
OpenSupply(i) ==
    SumFunctionOnSet(Outstanding, {p \in Purchases : purchases[p].item = i /\ ~purchases[p].blocked})
    + SumFunctionOnSet(Unfinished(work), {w \in WorkOrders : work[w].item = i /\ work[w].status = "RELEASED"})
\* RecomputeLLC, then the items with their codes.
StartRun ==
    /\ run.phase = "idle"
    /\ llc' = LowLevelCodes(DOMAIN bom)
    /\ run' = [BeforeRun EXCEPT !.phase = Reads[1], !.level = llc', !.gross = Demand, !.position = [i \in Items |-> onHand[i] + OpenSupply(i)]]
    /\ UNCHANGED <<bom, eco, today, onHand, purchases, work>>
ReadStock ==
    /\ run.phase = "stock"
    /\ run' = [run EXCEPT !.phase = AfterRead("stock"), !.stock = onHand]
    /\ UNCHANGED <<bomVars, onHand, purchases, work>>
ReadPurchases ==
    /\ run.phase = "purchases"
    /\ run' = [run EXCEPT !.phase = AfterRead("purchases"),
                          !.scheduled = [i \in Items |-> [d \in Dates |-> SumFunctionOnSet(Outstanding,
                              {p \in Purchases : purchases[p].item = i /\ Counted(purchases[p]) /\ Due(purchases[p].day) = d})]]]
    /\ UNCHANGED <<bomVars, onHand, purchases, work>>
ReadWorkOrders ==
    /\ run.phase = "orders"
    /\ run' = [run EXCEPT !.phase = AfterRead("orders"), !.orders = work,
                          !.todo = {w \in WorkOrders : work[w].status = "RELEASED" /\ work[w].completed < work[w].quantity}]
    /\ UNCHANGED <<bomVars, onHand, purchases, work>>

\* Components are read once for an item and kept.
Cached(i) == IF i \in DOMAIN run.components THEN run.components ELSE [x \in DOMAIN run.components \cup {i} |-> IF x = i THEN ComponentsOf(i) ELSE run.components[x]]
\* An open order is supply of its product and, whatever the day it is due, demand for its components.
ReadWorkOrder(w) ==
    /\ run.phase = "work" /\ w \in run.todo
    /\ LET order == run.orders[w]
           open == Unfinished(run.orders)[w]
           started == order.start < Horizon
           cache == IF started THEN Cached(order.item) ELSE run.components
       IN run' = [run EXCEPT !.todo = @ \ {w}, !.components = cache,
                     !.scheduled = IF order.due < Horizon THEN [run.scheduled EXCEPT ![order.item][Due(order.due)] = @ + open] ELSE @,
                     !.gross = IF started THEN Exploded(@, [d \in Dates |-> IF d = Due(order.start) THEN open ELSE 0], 0, cache[order.item]) ELSE @]
    /\ UNCHANGED <<bomVars, onHand, purchases, work>>
StartNetting ==
    /\ run.phase = "work" /\ run.todo = {}
    /\ run' = [run EXCEPT !.phase = "netting"]
    /\ UNCHANGED <<bomVars, onHand, purchases, work>>

\* mutant: requirements may fall on a level that is done.
LevelDoneUnchecked(i, components) == FALSE
\* The components were read after the codes: a new one may stand on a level that is done.
LevelDone(i, components) == \E c \in DOMAIN components : run.level[c] <= run.level[i]
PlanItem(i) ==
    /\ run.phase = "netting" /\ i \notin DOMAIN run.planned
    /\ \A j \in Items \ DOMAIN run.planned : run.level[i] < run.level[j] \/ (run.level[i] = run.level[j] /\ i <= j)
    /\ LET receipts == Netted(i, Grouped(i, run.gross[i]), run.scheduled[i], run.stock[i])
           plans == \E d \in Dates : receipts[d] > 0
           cache == IF plans THEN Cached(i) ELSE run.components
       IN run' = IF plans /\ LevelDone(i, cache[i]) THEN [BeforeRun EXCEPT !.phase = "failed"]
                 ELSE [run EXCEPT !.planned = [x \in DOMAIN @ \cup {i} |-> IF x = i THEN receipts ELSE @[x]], !.components = cache,
                                  !.gross = IF plans THEN Exploded(@, receipts, Master[i].lead, cache[i]) ELSE @]
    /\ UNCHANGED <<bomVars, onHand, purchases, work>>
FinishRun ==
    /\ run.phase = "netting" /\ DOMAIN run.planned = Items
    /\ run' = [run EXCEPT !.phase = "done"]
    /\ UNCHANGED <<bomVars, onHand, purchases, work>>

-----------------------------------------------------------------------------
(* Postings of the others, each a transaction (Production, PurchaseReceipts). *)
ReceivePurchase(p, q) ==
    /\ q \in 1..Remaining(purchases[p]) /\ ~purchases[p].blocked
    /\ purchases' = [purchases EXCEPT ![p].received = @ + q]
    /\ onHand' = [onHand EXCEPT ![purchases[p].item] = @ + q]
    /\ UNCHANGED <<bomVars, work, run>>
CompleteWorkOrder(w, q, used) ==
    /\ work[w].status = "RELEASED" /\ q \in 1..(work[w].quantity - work[w].completed)
    /\ \A i \in Items : used[i] <= onHand[i]
    /\ work' = [work EXCEPT ![w].completed = @ + q, ![w].status = IF work[w].completed + q = work[w].quantity THEN "COMPLETED" ELSE @]
    /\ onHand' = [i \in Items |-> onHand[i] - used[i] + IF i = work[w].item THEN q ELSE 0]
    /\ UNCHANGED <<bomVars, purchases, run>>

RunSteps ==
    \/ StartRun \/ ReadStock \/ ReadPurchases \/ ReadWorkOrders \/ StartNetting \/ FinishRun
    \/ \E w \in run.todo : ReadWorkOrder(w)
    \/ \E i \in Items : PlanItem(i)
Postings ==
    \/ \E p \in Purchases : \E q \in 1..Remaining(purchases[p]) : ReceivePurchase(p, q)
    \/ \E w \in WorkOrders : \E q \in 1..(work[w].quantity - work[w].completed) :
          CompleteWorkOrder(w, q, [i \in Items |-> IF <<work[w].item, i>> \in DOMAIN bom THEN q * bom[work[w].item, i] ELSE 0])
PlanningNext == RunSteps \/ Postings \/ (BOMNext /\ UNCHANGED planVars)
PlanningInit ==
    /\ BOMInit /\ run = BeforeRun
    /\ onHand \in [Items -> Nat] /\ purchases \in [Purchases -> PurchaseOrder]
    /\ work \in {f \in [WorkOrders -> WorkOrder] : \A w \in WorkOrders : f[w].completed <= f[w].quantity}
PlanningSpec == PlanningInit /\ [][PlanningNext]_<<bomVars, planVars>>

-----------------------------------------------------------------------------
(* What a finished plan must be, from the requirements themselves.          *)
UpTo(f, d) == SumFunctionOnSet(f, 0..d)
\* Quantity of c in one p, by the components the run went by.
Per(components, p, c) == IF p \in DOMAIN components /\ c \in DOMAIN components[p] THEN components[p][c] ELSE 0
\* Requirements of i on d: the master schedule, the open orders as read, and the planned receipts of its parents.
OfOrder(w, i, d) ==
    IF run.orders[w].status = "RELEASED" /\ Due(run.orders[w].start) = d
    THEN Unfinished(run.orders)[w] * Per(run.components, run.orders[w].item, i) ELSE 0
OfPlan(p, i, d) == Per(run.components, p, i) * ReleasedOn(run.planned[p], Master[p].lead, d)
Requirements(i) ==
    [d \in Dates |-> Demand[i][d] + SumFunctionOnSet([w \in WorkOrders |-> OfOrder(w, i, d)], WorkOrders)
                                  + SumFunctionOnSet([p \in Items |-> OfPlan(p, i, d)], Items)]
BalanceAt(i, d) == run.stock[i] + UpTo(run.scheduled[i], d) + UpTo(run.planned[i], d) - UpTo(Requirements(i), d)
Floor(i) == IF Policy[i].minMax THEN Policy[i].reorder ELSE Policy[i].safety
Ceiling(i) == IF Policy[i].minMax THEN Policy[i].max ELSE Policy[i].safety
LotOf(i) == CASE Master[i].method = "FOQ" -> Max({Master[i].lot, 1}) [] Master[i].method = "EOQ" -> Max({Master[i].eoq, 1}) [] OTHER -> 1

\* Whatever BOM changes and postings met the run, a plan that comes out has taken each requirement of each
\* level into account once: no balance falls below the policy of the item and no lot is planned that it does not
\* call for (the netting of MRPService.run, level by level).
PlanMeetsRequirements ==
    run.phase = "done" =>
        \A i \in Items, d \in Dates :
            /\ BalanceAt(i, d) >= Floor(i)
            /\ run.planned[i][d] > 0 /\ Master[i].method # "POQ" => BalanceAt(i, d) - LotOf(i) < Ceiling(i)

\* Goods that arrive or are finished while the run reads are never planned with twice, as stock and as the open
\* rest of their order (the order of the reads in MRPService.run).
DeliveriesCountedOnce ==
    run.phase = "netting" => \A i \in Items : run.stock[i] + UpTo(run.scheduled[i], Horizon - 1) <= run.position[i]
=============================================================================
