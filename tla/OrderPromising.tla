--------------------------- MODULE OrderPromising ---------------------------
(***************************************************************************)
(* Promised dates of sales orders: the availability of the product through  *)
(* a day, the ATP-then-CTP calculation, its evidence (Check) and the         *)
(* acceptance of a run by its order (Accept), which recalculates before it   *)
(* opens its transaction.                                                   *)
(*                                                                         *)
(* Time is in days.  The bottleneck makes Rate units on a day it is free,    *)
(* each from a unit of a purchased component (CRP and the other work centers *)
(* are in FiniteScheduling).                                               *)
(***************************************************************************)
EXTENDS SalesOrders

CONSTANTS
    MaxDay,      \* bound: the last day
    RequestedOn, \* RequestedOn[l]: requested_date
    Place,       \* Place[l]: place of a line by order date, order number and line number
    Horizons,    \* horizonDays of a run
    Rate,        \* units the bottleneck makes on a free day
    Plants,      \* states of supply and capacity that occur
    Planners,    \* planners' requests served at once
    Runs,        \* ids of order_promise_runs and backorder_runs
    None

Days == 1..MaxDay
PlantStates == [due : [Days -> Nat],      \* rest of open purchase and work orders, by day
                parts : Nat,              \* component in OK lots, unreserved
                partsDue : [Days -> Nat], \* rest of the component's purchase orders
                lead : Nat,               \* its effective lead time
                safety : Nat,             \* safety stock of the current inventory policy
                free : SUBSET Days]       \* days the bottleneck can work

ASSUME OrderPromisingAssumption ==
    /\ {MaxDay, Rate} \subseteq Nat \ {0} /\ Horizons \subseteq 1..MaxDay
    /\ RequestedOn \in [Lines -> Days] /\ Place \in [Lines -> Nat]
    /\ \A l, m \in Lines : Place[l] = Place[m] => l = m
    /\ Plants \subseteq PlantStates
    /\ None \notin Days

VARIABLES
    today,     \* BusinessToday
    plant,     \* what the calculations read beside orders and stock
    promised,  \* sales_order_lines.promised_date
    run,       \* order_promise_runs and backorder_runs with their evidence
    decisions, \* order_promise_acceptances and backorder_publications, oldest first
    planner    \* requests between their recalculation and their transaction

planVars == <<today, plant, promised, run, decisions, planner>>

NoRun == [kind |-> "NONE"]
Resting == [doing |-> "NOTHING"]
PromisingInit ==
    /\ today = 1 /\ plant \in Plants
    /\ promised = [l \in Lines |-> None]
    /\ run = [r \in Runs |-> NoRun] /\ decisions = <<>>
    /\ planner = [p \in Planners |-> Resting]

-----------------------------------------------------------------------------
Lesser(m, n) == IF m < n THEN m ELSE n
HorizonEnd(h) == today + h - 1

\* The header's date is the latest of its lines'.
HeaderDate(o) ==
    LET dates == {promised[l] : l \in LinesOf(o)} \ {None}
    IN IF dates = {} THEN None ELSE Max(dates)
\* COALESCE(l.promised_date, so.promised_date, l.requested_date)
DemandDate(l) ==
    IF promised[l] # None THEN promised[l]
    ELSE IF HeaderDate(OrderOf[l]) # None THEN HeaderDate(OrderOf[l]) ELSE RequestedOn[l]

\* Demand of other confirmed lines due by day d.
Committed(d, excluded) ==
    SumFunctionOnSet([l \in Lines |-> Unallocated(l)],
                     {l \in Lines \ excluded : order[OrderOf[l]] \in OpenStatus /\ DemandDate(l) <= d})
SupplyThrough(d) == SumFunctionOnSet(plant.due, {e \in Days : e <= d})

\* AvailableThrough: OK stock not reserved, plus supply, less demand, by day d.
BeforeSafety(d, excluded, own) ==
    Positive(sellable - Reserved + own) + SupplyThrough(d) - Committed(d, excluded)
AvailableThrough(d, excluded, own) == Positive(BeforeSafety(d, excluded, own) - plant.safety)

\* Day on which the component covers `need` units: from stock, at once; else with
\* the first receipt that does, or after its lead time.
MaterialReady(need) ==
    LET by(d) == plant.parts + SumFunctionOnSet(plant.partsDue, {e \in Days : e <= d})
        covering == {d \in Days : d >= today /\ by(d) >= need}
    IN IF need <= plant.parts THEN today
       ELSE Min({today + plant.lead} \union covering)

\* SimulateCTPOrder: the day qty units are made when they start on day `from`, or None.
CapacityEnd(qty, from) ==
    LET made(d) == Rate * Cardinality({e \in plant.free : from <= e /\ e <= d})
        ends == {d \in plant.free : d >= from /\ made(d) >= qty}
    IN IF ends = {} THEN None ELSE Min(ends)

\* What CTP promises for a line whose material is ready on one day and whose last unit is made on another.
CTPResult(ready, done, requested, from, end) ==
    LET promise == IF done # None /\ done < requested THEN requested ELSE done
    IN IF ready > end THEN [date |-> None, constraint |-> "HORIZON", from |-> from]
       ELSE IF done = None THEN [date |-> None, constraint |-> "CAPACITY", from |-> from]
       ELSE IF promise > end THEN [date |-> None, constraint |-> "HORIZON", from |-> done + 1]
       ELSE [date |-> promise, from |-> done + 1,
             constraint |-> IF done > requested THEN IF ready > requested THEN "MATERIAL_AND_CAPACITY" ELSE "CAPACITY"
                            ELSE IF ready > requested THEN "MATERIAL" ELSE "NONE"]

\* What is left after ATP is made: when the material and then the bottleneck are
\* free, if that is within the horizon.  used: component taken by lines before;
\* from: when they leave the bottleneck.
CTP(qty, requested, used, from, end) ==
    LET ready == MaterialReady(used + qty)
    IN CTPResult(ready, CapacityEnd(qty, Max({from, ready})), requested, from, end)

Confirmation == [open : Nat, fixed : Nat, atp : Nat, ctp : Nat, atpDate : Days \union {None},
                 date : Days \union {None}, constraint : STRING]

PromisingTypeOK ==
    /\ promised \in [Lines -> Days \union {None}]
    /\ \A r \in Runs : run[r].kind = "PROMISE" => \A l \in DOMAIN run[r].result : run[r].result[l] \in Confirmation

\* mutant: every line sees the whole of what is available
TakeATPUnshared(state, qty, available) == Lesser(qty, available)
\* Lines share what is available: what one has taken the next cannot have.
TakeATP(state, qty, available) == Lesser(qty, Positive(available - state.atp))

\* The result so far and that of one more line.
With(result, l, confirmed) ==
    [m \in DOMAIN result \union {l} |-> IF m = l THEN confirmed ELSE result[m]]

\* What is left of a line after c is left to CTP; a limit that c names is kept unless the horizon is the closer one.
PromiseWith(state, l, c) ==
    LET rest == c.open - c.fixed - c.atp
        ctp == CTP(rest, c.atpDate, state.parts, state.from, state.end)
        after == [state EXCEPT !.atp = @ + c.atp]
    IN IF rest = 0 THEN [after EXCEPT !.result = With(state.result, l, c)]
       ELSE [after EXCEPT !.parts = @ + rest, !.from = ctp.from,
                          !.result = With(state.result, l, [c EXCEPT
                              !.ctp = IF ctp.date = None THEN 0 ELSE rest,
                              !.date = ctp.date,
                              !.constraint = IF @ # "NONE" /\ ctp.constraint # "HORIZON" THEN @ ELSE ctp.constraint])]

PromiseLine(state, l) ==
    LET available == AvailableThrough(RequestedOn[l], state.lines, state.own)
    IN PromiseWith(state, l, [open |-> OpenQty(l), fixed |-> 0, ctp |-> 0, constraint |-> "NONE",
                              atp |-> TakeATP(state, OpenQty(l), available),
                              atpDate |-> RequestedOn[l], date |-> RequestedOn[l]])

\* Lines in an order given as the pairs of which the first comes before the second.
Queue(lines, before) ==
    LET places == {<<l, Cardinality({m \in lines : <<m, l>> \in before}) + 1>> : l \in lines}
    IN [n \in 1..Cardinality(lines) |-> CHOOSE l \in lines : <<l, n>> \in places]

\* The order's open lines, by requested date; ATP counts what the order has allocated.
PromiseOf(o, h) ==
    LET lines == LinesOf(o)
        open == {l \in lines : OpenQty(l) > 0}
        sooner == {x \in open \X open :
                      \/ RequestedOn[x[1]] < RequestedOn[x[2]]
                      \/ RequestedOn[x[1]] = RequestedOn[x[2]] /\ Place[x[1]] < Place[x[2]]}
        start == [atp |-> 0, parts |-> 0, from |-> today, end |-> HorizonEnd(h), lines |-> lines,
                  own |-> SumFunctionOnSet([l \in lines |-> line[l].allocated], lines), result |-> <<>>]
        end == FoldLeft(PromiseLine, start, Queue(open, sooner))
    IN [l \in open |-> end.result[l]]

-----------------------------------------------------------------------------
\* Check: the evidence of a run.  The order is read once; supply, stock and
\* demand are read as the calculation needs them.
Check(r, o, h) ==
    /\ run[r] = NoRun
    /\ order[o] \notin {"NONE", "SHIPPED", "CANCELLED"}
    /\ run' = [run EXCEPT ![r] = [kind |-> "PROMISE", order |-> o, horizon |-> h,
                                  orders |-> {o}, result |-> PromiseOf(o, h)]]
    /\ UNCHANGED <<salesVars, today, plant, promised, decisions, planner>>

Covered(c) == c.atp + c.ctp >= c.open /\ c.date # None
Decided(r) == \E k \in DOMAIN decisions : decisions[k].run = r

\* Accept, first half: the stored run must cover the order and still be what a
\* recalculation gives; nothing is locked.
Reconsider(p, r) ==
    /\ planner[p] = Resting
    /\ run[r].kind = "PROMISE" /\ ~Decided(r)
    /\ \A l \in DOMAIN run[r].result : Covered(run[r].result[l])
    /\ order[run[r].order] \notin {"SHIPPED", "CANCELLED"}
    /\ PromiseOf(run[r].order, run[r].horizon) = run[r].result
    /\ planner' = [planner EXCEPT ![p] = [doing |-> "ACCEPT", run |-> r]]
    /\ UNCHANGED <<salesVars, today, plant, promised, run, decisions>>

\* Accept, second half: the order's row is locked, and the dates are written.
Accept(p) == LET r == planner[p].run IN
    /\ planner[p].doing = "ACCEPT"
    /\ ~Decided(r)
    /\ DOMAIN run[r].result # {}
    /\ decisions' = Append(decisions, [kind |-> "ACCEPTANCE", run |-> r])
    /\ promised' = [l \in Lines |-> IF l \in DOMAIN run[r].result THEN run[r].result[l].date ELSE promised[l]]
    /\ planner' = [planner EXCEPT ![p] = Resting]
    /\ UNCHANGED <<salesVars, today, plant, run>>

\* The request ends without a commit, or finds the run decided.
GiveUp(p) ==
    /\ planner[p] # Resting
    /\ planner' = [planner EXCEPT ![p] = Resting]
    /\ UNCHANGED <<salesVars, today, plant, promised, run, decisions>>
=============================================================================
