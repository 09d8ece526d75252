------------------------- MODULE RecoveryProjection -------------------------
(***************************************************************************)
(* The what-if engine: what the actions of a scenario would do for the open   *)
(* cases of the control tower.  It has no database.  Scores, revenues and     *)
(* days are integers here (thousandths, cents, days); what the code computes  *)
(* in floating point is computed exactly and then rounded as it rounds.  Only *)
(* the benefits a plan is scored by are coarser: cut to tenths of a percent.  *)
(***************************************************************************)
EXTENDS Integers, SequencesExt, FiniteSetsExt

CONSTANTS
    Menu,          \* the recovery actions users may enter: [type, target, value]
    DaysElsewhere, \* the days a move to another work center is said to recover
    Cost           \* Cost[a]: the estimated cost of an action

MinutesPerWeek == 7 * 24 * 60
ValidAction(a) ==
    /\ a.type \in {"EXPEDITE_PO", "ALTERNATE_WORK_CENTER", "ADD_OVERTIME_CAPACITY", "RESCHEDULE_WO", "RELEASE_WO"}
    /\ a.type \in {"EXPEDITE_PO", "RESCHEDULE_WO"} => a.value \in 1..365
    /\ a.type = "ADD_OVERTIME_CAPACITY" => a.value \in 1..MinutesPerWeek

ASSUME RecoveryProjectionAssumption ==
    DaysElsewhere \in 1..365 /\ Cost \in [Menu -> Nat] /\ \A a \in Menu : ValidAction(a)

SupplierExceptions == {"LATE_PURCHASE_ORDER", "SUPPLIER_CONFIRMATION_LATE", "SUPPLIER_RELIABILITY_RISK", "MATERIAL_SHORTAGE"}
DowntimeExceptions == {"PREVENTIVE_MAINTENANCE_CAPACITY", "BREAKDOWN_CAPACITY", "PLANNED_DOWNTIME_CAPACITY", "UNPLANNED_DOWNTIME_CAPACITY"}
CapacityExceptions ==
    {"CAPACITY_LATE", "CAPACITY_UNSCHEDULED", "OEE_CAPACITY_RISK", "SCHEDULE_START_LATE", "SCHEDULE_COMPLETION_LATE",
     "DISPATCH_BLOCKED", "RESCHEDULE_REQUIRED", "LATE_WORK_ORDER", "FIRM_HORIZON_CHANGE"} \cup DowntimeExceptions
ReleaseExceptions == {"CAPACITY_UNSCHEDULED", "DISPATCH_BLOCKED", "LATE_WORK_ORDER"}

\* The reference of a cause may contain the target of an action.
TargetMatches(c, a) == a.target = "*" \/ a.target \in c.roots
Applies(c, a) ==
    TargetMatches(c, a) /\ c.type \in CASE a.type = "EXPEDITE_PO" -> SupplierExceptions
                                        [] a.type = "RELEASE_WO" -> ReleaseExceptions
                                        [] OTHER -> CapacityExceptions
Days(a) ==
    CASE a.type \in {"EXPEDITE_PO", "RESCHEDULE_WO"} -> a.value
      [] a.type = "ALTERNATE_WORK_CENTER" -> DaysElsewhere
      [] a.type = "ADD_OVERTIME_CAPACITY" -> (a.value + 479) \div 480
      [] a.type = "RELEASE_WO" -> 1
\* In twentieths.
RiskRelief(a) ==
    CASE a.type = "EXPEDITE_PO" -> 11 [] a.type = "ALTERNATE_WORK_CENTER" -> 13 [] a.type = "ADD_OVERTIME_CAPACITY" -> 9
      [] a.type = "RESCHEDULE_WO" -> 10 [] a.type = "RELEASE_WO" -> 12
Resolves(c, a) ==
    \/ a.type = "EXPEDITE_PO" /\ c.type = "MATERIAL_SHORTAGE" /\ c.days = 0
    \/ a.type \in {"ALTERNATE_WORK_CENTER", "RELEASE_WO"} /\ c.type \in {"CAPACITY_UNSCHEDULED", "DISPATCH_BLOCKED"}

Rounded(n, d) == (2 * n + d) \div (2 * d)
Band(score) == CASE score >= 75000 -> 1 [] score \in 55000..74999 -> 2 [] score \in 30000..54999 -> 3 [] OTHER -> 4

Effects(c, plan) == {i \in DOMAIN plan : Applies(c, plan[i])}
RecoveredDays(c, plan) == Min({c.days, MapThenSumSet(LAMBDA i : Days(plan[i]), Effects(c, plan))})
\* The larger of two reliefs leaves the smaller rest: of the risks, which multiply, and of the days.
Rest(c, plan, amount) ==
    LET risk == FoldSet(LAMBDA i, x : x * (20 - RiskRelief(plan[i])), amount, Effects(c, plan))
        days == c.days - RecoveredDays(c, plan)
    IN Min({Rounded(risk, 20^Cardinality(Effects(c, plan)))} \cup (IF c.days > 0 THEN {Rounded(amount * days, c.days)} ELSE {}))
Resolved(c, plan) ==
    \/ \E i \in Effects(c, plan) : Resolves(c, plan[i])
    \/ Effects(c, plan) # {} /\ c.days > 0 /\ RecoveredDays(c, plan) = c.days
Untouched(c) == [open |-> 1, band |-> c.band, score |-> c.score, revenue |-> c.revenue, days |-> c.days]
ProjectedCase(c, plan) ==
    CASE Resolved(c, plan) -> [open |-> 0, band |-> 4, score |-> 0, revenue |-> 0, days |-> 0]
      [] Effects(c, plan) = {} -> Untouched(c)
      [] OTHER -> [open |-> 1, band |-> Band(Rest(c, plan, c.score)), score |-> Rest(c, plan, c.score),
                   revenue |-> Rest(c, plan, c.revenue), days |-> c.days - RecoveredDays(c, plan)]

\* mutant: every action is credited with all of what a case recovers.
WholeShare(c, plan, i, amount) == amount
\* What a case recovers is shared by the relief of the actions that match it.
Share(c, plan, i, amount) ==
    Rounded(amount * RiskRelief(plan[i]), MapThenSumSet(LAMBDA j : RiskRelief(plan[j]), Effects(c, plan)))
ProjectedAction(cases, plan, i) ==
    LET matched == {c \in cases : i \in Effects(c, plan)}
    IN [cases |-> Cardinality(matched),
        days |-> MapThenSumSet(LAMBDA c : Share(c, plan, i, c.days - ProjectedCase(c, plan).days), matched),
        revenue |-> MapThenSumSet(LAMBDA c : Share(c, plan, i, c.revenue - ProjectedCase(c, plan).revenue), matched)]

InBand(band, projected) == IF projected.open = 1 /\ projected.band = band THEN 1 ELSE 0
\* view: how each case appears.
Totals(cases, view) ==
    [open |-> MapThenSumSet(LAMBDA c : view[c].open, cases), p1 |-> MapThenSumSet(LAMBDA c : InBand(1, view[c]), cases),
     p2 |-> MapThenSumSet(LAMBDA c : InBand(2, view[c]), cases),
     revenue |-> MapThenSumSet(LAMBDA c : view[c].revenue, cases), days |-> MapThenSumSet(LAMBDA c : view[c].days, cases)]
\* In tenths of a percent, cut off; the code keeps the fraction and rounds the
\* score to three decimals.
Benefit(part, whole) == IF whole <= 0 \/ part <= 0 THEN 0 ELSE Min({1000, (1000 * part) \div whole})
Score(before, after, recovered, cost) ==
    35 * Benefit(before.p1 - after.p1, before.p1) + 30 * Benefit(recovered, before.revenue)
    + 20 * Benefit(before.days - after.days, before.days) + 10 * Benefit(before.open - after.open, before.open)
    + 5 * Benefit(recovered - cost, recovered)
ProjectedSummary(cases, plan) ==
    LET before == Totals(cases, [c \in cases |-> Untouched(c)])
        after == Totals(cases, [c \in cases |-> ProjectedCase(c, plan)])
        recovered == before.revenue - after.revenue
        cost == MapThenSumSet(LAMBDA i : Cost[plan[i]], DOMAIN plan)
    IN [before |-> before, after |-> after, net |-> recovered - cost, score |-> Score(before, after, recovered, cost)]
=============================================================================
