---------------------------- MODULE ControlTower ----------------------------
(***************************************************************************)
(* The production control tower: cases for the open planning exceptions of   *)
(* the latest pegging run of each order, an immutable scored snapshot of a    *)
(* case whenever its evaluation is a new one, and the workflow of the         *)
(* planners on a case.  A refresh fixes its as-of time on arrival, its        *)
(* database snapshot at its first query, and stores what it evaluated; the    *)
(* time stamp of a case action is that of the start of its transaction,      *)
(* which then waits for the lock of the case.                                *)
(***************************************************************************)
EXTENDS Integers, Sequences, FiniteSets, FiniteSetsExt, SequencesExt

CONSTANTS
    Orders,       \* sales_orders.id
    Keys,         \* planning_exceptions.exception_key
    Types,        \* exception types in use
    Refreshes,    \* calls of the refresh
    Planners,     \* calls of the case workflow
    Values,       \* of open orders
    HoursPerTick,
    LastTime      \* bound of tick

ASSUME ControlTowerAssumption == LastTime \in Nat /\ HoursPerTick \in Nat /\ Values \subseteq Nat

VARIABLES
    order,       \* sales_orders with the service class of their customers
    exceptions,  \* planning_exceptions not resolved of the latest pegging run of each order
    cases,       \* control_tower_cases.case_key
    snapshots,   \* control_tower_case_snapshots with their recommendations
    actions,     \* control_tower_case_actions, in the order they were inserted
    refresh,     \* the calls of Refresh
    acting,      \* the calls of ActOnCase
    tick         \* the clock, in units of HoursPerTick

towerVars == <<order, exceptions, cases, snapshots, actions, refresh, acting, tick>>

Priorities == {"EXPEDITE", "HIGH", "NORMAL"}
Severities == {"CRITICAL", "WARNING", "INFO"}
\* open: CONFIRMED or PARTIALLY_SHIPPED
SalesOrder == [priority : Priorities, rank : 1..5, value : Values, open : BOOLEAN]
PlanningException == [order : Orders, key : Keys, type : Types, severity : Severities, impact : Nat, run : Nat, detected : 0..LastTime]

-----------------------------------------------------------------------------
(* Scoring.                                                                *)
SeverityScore(s) == CASE s = "CRITICAL" -> 100 [] s = "WARNING" -> 60 [] OTHER -> 20
LatenessScore(days) == CASE days <= 0 -> 0 [] days \in 1..2 -> 25 [] days \in 3..5 -> 50 [] days \in 6..10 -> 75 [] OTHER -> 100
\* mutant: a boundary out of order.
RevenueTiers(v) ==
    CASE v <= 0 -> 0 [] 0 < v /\ v < 100000 -> 15 [] 500000 <= v /\ v < 1000000 -> 35 [] 100000 <= v /\ v < 500000 -> 55
      [] 1000000 <= v /\ v < 2000000 -> 70 [] 2000000 <= v /\ v < 5000000 -> 85 [] OTHER -> 100
RevenueScore(v) ==
    CASE v <= 0 -> 0 [] 0 < v /\ v < 100000 -> 15 [] 100000 <= v /\ v < 500000 -> 35 [] 500000 <= v /\ v < 1000000 -> 55
      [] 1000000 <= v /\ v < 2000000 -> 70 [] 2000000 <= v /\ v < 5000000 -> 85 [] OTHER -> 100
CustomerScore(priority, rank) ==
    Max({CASE priority = "EXPEDITE" -> 100 [] priority = "HIGH" -> 75 [] OTHER -> 40,
         CASE rank = 1 -> 100 [] rank = 2 -> 85 [] rank = 3 -> 70 [] rank = 4 -> 55 [] OTHER -> 40})
AgingScore(hours) == CASE hours <= 24 -> 0 [] hours \in 25..72 -> 30 [] hours \in 73..168 -> 60 [] hours \in 169..336 -> 80 [] OTHER -> 100

Downtime == {"PREVENTIVE_MAINTENANCE_CAPACITY", "BREAKDOWN_CAPACITY", "PLANNED_DOWNTIME_CAPACITY", "UNPLANNED_DOWNTIME_CAPACITY"}
\* The strongest of the material, capacity, supplier and execution dimensions: a type counts in one of them.
ConstraintScore(t) ==
    CASE t \in {"MATERIAL_SHORTAGE", "CAPACITY_UNSCHEDULED", "SUPPLIER_BLOCKED", "DISPATCH_BLOCKED", "EXECUTION_COMMITMENT_CONFLICT", "FROZEN_HORIZON_CONFLICT"} -> 100
      [] t \in {"QUALITY_HOLD", "SUPPLIER_CONFIRMATION_LATE"} \cup Downtime -> 90
      [] t \in {"SAFETY_STOCK_BREACH", "CAPACITY_LATE", "LATE_PURCHASE_ORDER"} -> 85
      [] t \in {"OEE_CAPACITY_RISK", "RESCHEDULE_REQUIRED", "SCHEDULE_COMPLETION_LATE"} -> 80
      [] t = "SUPPLIER_RELIABILITY_RISK" -> 75
      [] t = "SCHEDULE_START_LATE" -> 70
      [] t = "FIRM_HORIZON_CHANGE" -> 65
      [] t = "REORDER_POINT_BREACH" -> 60
      [] OTHER -> 0
ForcedP1(t) == t \in {"MATERIAL_SHORTAGE", "SUPPLIER_BLOCKED", "CAPACITY_UNSCHEDULED", "DISPATCH_BLOCKED", "FROZEN_HORIZON_CONFLICT", "EXECUTION_COMMITMENT_CONFLICT"}

\* Evaluation of an exception: severity, lateness, revenue, customer and age, in hundredths of a point.
PriorityScore(x, o, hours) ==
    LET score == 20 * SeverityScore(x.severity) + 15 * LatenessScore(x.impact) + 20 * RevenueScore(o.value)
                 + 10 * CustomerScore(o.priority, o.rank) + 25 * ConstraintScore(x.type) + 10 * AgingScore(hours)
    IN IF ForcedP1(x.type) THEN Max({score, 7500}) ELSE score
PriorityBand(score) ==
    CASE score >= 7500 -> 1 [] 5500 <= score /\ score < 7500 -> 2 [] 3000 <= score /\ score < 5500 -> 3 [] OTHER -> 4

\* The ranked interventions for a cause; those that need an approval are marked.
RecommendedActions(t) ==
    CASE t \in {"SUPPLIER_CONFIRMATION_LATE", "SUPPLIER_RELIABILITY_RISK", "LATE_PURCHASE_ORDER"} -> <<"EXPEDITE_PO", "RECALCULATE_PROMISE">>
      [] t = "SUPPLIER_BLOCKED" -> <<"MANUAL_REVIEW!", "RECALCULATE_PROMISE", "CONTACT_CUSTOMER!">>
      [] t = "MATERIAL_SHORTAGE" -> <<"MANUAL_REVIEW", "RELEASE_WO!", "RECALCULATE_PROMISE">>
      [] t \in {"SAFETY_STOCK_BREACH", "REORDER_POINT_BREACH"} -> <<"MANUAL_REVIEW", "RECALCULATE_PROMISE">>
      [] t = "QUALITY_HOLD" -> <<"REVIEW_QUALITY_HOLD!", "RECALCULATE_PROMISE">>
      [] t \in {"CAPACITY_LATE", "CAPACITY_UNSCHEDULED", "OEE_CAPACITY_RISK"} -> <<"RESCHEDULE_WO", "ALTERNATE_WORK_CENTER!", "REVIEW_CAPACITY">>
      [] t = "DISPATCH_BLOCKED" -> <<"RESCHEDULE_WO", "REVIEW_CAPACITY">>
      [] t \in {"SCHEDULE_START_LATE", "SCHEDULE_COMPLETION_LATE", "RESCHEDULE_REQUIRED", "FIRM_HORIZON_CHANGE"} -> <<"RESCHEDULE_WO", "RECALCULATE_PROMISE">>
      [] t \in {"FROZEN_HORIZON_CONFLICT", "EXECUTION_COMMITMENT_CONFLICT"} -> <<"REVIEW_FROZEN_CONFLICT!", "CONTACT_CUSTOMER!">>
      [] t \in {"LATE_PROMISE", "BACKORDER", "UNCONVERTED_CTP"} -> <<"RECALCULATE_PROMISE", "CONTACT_CUSTOMER!">>
      [] t \in Downtime -> <<"ALTERNATE_WORK_CENTER!", "RESCHEDULE_WO", "REVIEW_CAPACITY">>
      [] OTHER -> <<"MANUAL_REVIEW">>

-----------------------------------------------------------------------------
(* The world the tower watches.                                            *)
\* Its priority, its value, its status or the class of its customer.
SetOrder(o, changed) ==
    /\ order' = [order EXCEPT ![o] = changed]
    /\ UNCHANGED <<exceptions, cases, snapshots, actions, refresh, acting, tick>>
\* A pegging run replaces the exceptions of its order.
PegOrder(o, found) ==
    /\ tick < LastTime /\ tick' = tick + 1
    /\ exceptions' = {x \in exceptions : x.order # o} \cup {[order |-> o, key |-> f.key, type |-> f.type, severity |-> f.severity,
                                                             impact |-> f.impact, run |-> tick, detected |-> tick] : f \in found}
    /\ UNCHANGED <<order, cases, snapshots, actions, refresh, acting>>
ResolveException(x) == exceptions' = exceptions \ {x} /\ UNCHANGED <<order, cases, snapshots, actions, refresh, acting, tick>>

-----------------------------------------------------------------------------
(* Refresh.                                                                *)
CaseKey(x) == [order |-> x.order, key |-> x.key, type |-> x.type]
\* What the result hash covers: the evaluation without its time.
Evaluation(x, o, asOf) ==
    LET score == PriorityScore(x, o, HoursPerTick * Max({asOf - x.detected, 0}))
    IN [case |-> CaseKey(x), run |-> x.run, severity |-> x.severity, impact |-> x.impact, order |-> o,
        aging |-> AgingScore(HoursPerTick * Max({asOf - x.detected, 0})), score |-> score, band |-> PriorityBand(score)]
NoRefresh == [phase |-> "idle", asOf |-> 0, created |-> 0, rows |-> {}, cases |-> {}, hashes |-> {}]

RequestRefresh(r, asOf) ==
    /\ refresh[r].phase = "idle" /\ tick < LastTime /\ tick' = tick + 1
    /\ refresh' = [refresh EXCEPT ![r] = [NoRefresh EXCEPT !.phase = "requested", !.asOf = asOf]]
    /\ UNCHANGED <<order, exceptions, cases, snapshots, actions, acting>>
Hashes == {s.evaluation : s \in snapshots}
\* The exceptions of the orders that are still to be shipped.
CurrentExceptionRows(r) ==
    /\ refresh[r].phase = "requested"
    /\ refresh' = [refresh EXCEPT ![r] = [@ EXCEPT !.phase = "evaluated", !.created = tick, !.cases = cases, !.hashes = Hashes,
                                             !.rows = {Evaluation(x, order[x.order], refresh[r].asOf) :
                                                         x \in {y \in exceptions : order[y.order].open}}]]
    /\ UNCHANGED <<order, exceptions, cases, snapshots, actions, acting, tick>>
\* A row that would meet one stored since the database snapshot is not skipped: the transaction cannot be serialized.
Serializable(r) ==
    /\ \A e \in refresh[r].rows : e.case \in cases => e.case \in refresh[r].cases
    /\ refresh[r].rows \cap Hashes \subseteq refresh[r].hashes
Store(r) ==
    /\ refresh[r].phase = "evaluated" /\ Serializable(r)
    /\ cases' = cases \cup {e.case : e \in refresh[r].rows}
    /\ snapshots' = snapshots \cup {[evaluation |-> e, asOf |-> refresh[r].asOf, created |-> refresh[r].created,
                                     recommended |-> RecommendedActions(e.case.type)] : e \in refresh[r].rows \ Hashes}
    /\ refresh' = [refresh EXCEPT ![r].phase = "done"]
    /\ UNCHANGED <<order, exceptions, actions, acting, tick>>
Rollback(r) ==
    /\ refresh[r].phase = "evaluated" /\ ~Serializable(r)
    /\ refresh' = [refresh EXCEPT ![r].phase = "failed"]
    /\ UNCHANGED <<order, exceptions, cases, snapshots, actions, acting, tick>>

-----------------------------------------------------------------------------
(* The workflow of a case.                                                 *)
After(cur) == [ACKNOWLEDGE |-> IF cur = "OPEN" THEN "ACKNOWLEDGED" ELSE "",
               ASSIGN      |-> IF cur \in {"OPEN", "ACKNOWLEDGED", "ASSIGNED"} THEN "ASSIGNED" ELSE IF cur = "IN_PROGRESS" THEN cur ELSE "",
               START       |-> IF cur \in {"ACKNOWLEDGED", "ASSIGNED"} THEN "IN_PROGRESS" ELSE "",
               RESOLVE     |-> IF cur \in {"OPEN", "ACKNOWLEDGED", "ASSIGNED", "IN_PROGRESS"} THEN "RESOLVED" ELSE "",
               REOPEN      |-> IF cur = "RESOLVED" THEN "OPEN" ELSE "",
               CLOSE       |-> IF cur = "RESOLVED" THEN "CLOSED" ELSE ""]
ActionsOn(c) == SelectSeq(actions, LAMBDA a : a.case = c)
\* The current status is that of the action with the latest time stamp, whenever it was inserted.
CurrentStatus(c) ==
    LET log == ActionsOn(c)
    IN IF log = <<>> THEN "OPEN" ELSE (CHOOSE a \in ToSet(log) : \A b \in ToSet(log) : b.at <= a.at).to

BeginAction(p, c, action) ==
    /\ acting[p].action = "none" /\ c \in cases /\ tick < LastTime /\ tick' = tick + 1
    /\ acting' = [acting EXCEPT ![p] = [case |-> c, action |-> action, at |-> tick]]
    /\ UNCHANGED <<order, exceptions, cases, snapshots, actions, refresh>>
NoAction == [case |-> [order |-> 0, key |-> 0, type |-> ""], action |-> "none", at |-> 0]
\* Under the lock of the case; an action its status does not allow is refused.
ActOnCase(p) ==
    LET cur == CurrentStatus(acting[p].case) IN
    /\ acting[p].action # "none"
    /\ actions' = IF After(cur)[acting[p].action] = "" THEN actions
                  ELSE Append(actions, [case |-> acting[p].case, action |-> acting[p].action, from |-> cur,
                                        to |-> After(cur)[acting[p].action], at |-> acting[p].at])
    /\ acting' = [acting EXCEPT ![p] = NoAction]
    /\ UNCHANGED <<order, exceptions, cases, snapshots, refresh, tick>>

-----------------------------------------------------------------------------
(* What planners see.                                                      *)
Newer(s, t) == s.asOf > t.asOf \/ (s.asOf = t.asOf /\ s.created >= t.created)
LatestSnapshot(c) == LET of == {s \in snapshots : s.evaluation.case = c} IN CHOOSE s \in of : \A t \in of : Newer(s, t)
Dashboard == {c \in cases : \E x \in exceptions : CaseKey(x) = c /\ x.run = LatestSnapshot(c).evaluation.run}
\* The order of the board: band, score, revenue.
Sooner(a, b) ==
    \/ a.band < b.band
    \/ a.band = b.band /\ a.score > b.score
    \/ a.band = b.band /\ a.score = b.score /\ a.order.value > b.order.value

TowerTypeOK ==
    /\ order \in [Orders -> SalesOrder] /\ \A x \in exceptions : x \in PlanningException
    /\ cases \subseteq [order : Orders, key : Keys, type : Types]
    /\ \A s \in snapshots : s.evaluation.band \in 1..4
TowerInit ==
    /\ order \in [Orders -> SalesOrder]
    /\ exceptions = {} /\ cases = {} /\ snapshots = {} /\ actions = <<>> /\ tick = 0
    /\ refresh = [r \in Refreshes |-> NoRefresh] /\ acting = [p \in Planners |-> NoAction]

\* Every call may come again once it has returned.
Return(r) ==
    /\ refresh[r].phase \in {"done", "failed"}
    /\ refresh' = [refresh EXCEPT ![r] = NoRefresh]
    /\ UNCHANGED <<order, exceptions, cases, snapshots, actions, acting, tick>>
TowerNext ==
    \/ \E r \in Refreshes : RequestRefresh(r, tick) \/ CurrentExceptionRows(r) \/ Store(r) \/ Rollback(r) \/ Return(r)
    \/ \E p \in Planners : ActOnCase(p) \/ \E c \in cases, a \in DOMAIN After("OPEN") : BeginAction(p, c, a)
    \/ \E o \in Orders : (\E v \in SalesOrder : SetOrder(o, v))
                         \/ \E found \in SUBSET [key : Keys, type : Types, severity : Severities, impact : {0, 3, 11}] : PegOrder(o, found)
    \/ \E x \in exceptions : ResolveException(x)
TowerSpec == TowerInit /\ [][TowerNext]_towerVars

-----------------------------------------------------------------------------
NoWorse(a, b) ==
    /\ a.case.type = b.case.type
    /\ SeverityScore(a.severity) <= SeverityScore(b.severity) /\ a.impact <= b.impact /\ a.order.value <= b.order.value
    /\ a.order.rank >= b.order.rank /\ (a.order.priority = b.order.priority \/ b.order.priority = "EXPEDITE") /\ a.aging <= b.aging
\* On the board a case never stands behind one of the same cause that is no worse in any respect, evaluated no
\* later, and a hard constraint never stands behind P1, however the tiers and weights combine
\* (ScoreControlTowerPriority).
WorstComesFirst ==
    \A c, d \in Dashboard : LET a == LatestSnapshot(c).evaluation  b == LatestSnapshot(d).evaluation IN
        /\ NoWorse(a, b) => ~Sooner(a, b)
        /\ ForcedP1(a.case.type) => a.band = 1
=============================================================================
