--------------------------- MODULE DemandPlanning ---------------------------
(***************************************************************************)
(* The master production schedule and the three writers of its entries:      *)
(* planners by hand, the publication of a forecast version consumed by        *)
(* orders, and the disaggregation of a monthly family plan by a product mix. *)
(* Each is one transaction that locks the version it reads from.  A          *)
(* quantity is a count of the smallest unit the code rounds to.              *)
(***************************************************************************)
EXTENDS Integers, Sequences, FiniteSets, FiniteSetsExt, Functions, SequencesExt

CONSTANTS
    Products,   \* items that can be scheduled
    Family,     \* item_groups.id of each product
    Scenarios,
    Forecasts,  \* forecast_runs.id
    Mixes,      \* sop_product_mix_versions.id
    MonthDays,       \* of the plan month, from 0
    Week,       \* days in a period of the disaggregation
    Bucket,     \* forecast_runs.bucket_days
    Amounts,    \* quantities of plans, forecasts and orders
    Shares,     \* product mixes: percent by product
    MaxRuns     \* bound on disaggregations

ASSUME DemandPlanningAssumption ==
    /\ MonthDays \in Nat \ {0} /\ Week \in Nat \ {0} /\ Bucket \in Nat \ {0} /\ MaxRuns \in Nat /\ Amounts \subseteq Nat
    /\ \A s \in Shares : DOMAIN s \subseteq Products /\ \A p \in DOMAIN s : s[p] \in 1..100

VARIABLES
    forecast,  \* forecast_runs with their forecast_values
    mix,       \* sop_product_mix_versions with their lines
    supply,    \* sop_plans.supply_qty of the month, by family
    applied,   \* sop_disaggregation_runs with their lines, in order
    orders,    \* open order quantity by product and due date
    mps        \* mps_entries by product and period

demandVars == <<forecast, mix, supply, applied, orders, mps>>

Families == {Family[p] : p \in Products}
MonthDates == 0..MonthDays - 1
Lifecycle == {"NONE", "DRAFT", "ACTIVE", "ARCHIVED"}
ForecastRun == [status : Lifecycle, product : Products, scenario : Scenarios, values : [{d \in MonthDates : d % Bucket = 0} -> Amounts]]
SOPProductMixVersion == [status : Lifecycle, family : Families, lines : Shares]
NoSource == 0
MPSEntry == [planned : Int, released : Nat, basis : {"NONE", "MANUAL", "FORECAST_CONSUMPTION", "SOP_DISAGGREGATION"}, source : Nat \cup Forecasts]
NoEntry == [planned |-> 0, released |-> 0, basis |-> "NONE", source |-> NoSource]

-----------------------------------------------------------------------------
(* Forecast versions.                                                      *)
GenerateForecast(f, p, s, v) ==
    /\ forecast[f].status = "NONE"
    /\ forecast' = [forecast EXCEPT ![f] = [status |-> "DRAFT", product |-> p, scenario |-> s, values |-> v]]
    /\ UNCHANGED <<mix, supply, applied, orders, mps>>

\* The version active so far is archived by the activation of the next.
Activating(versions, v, rivals) ==
    [w \in DOMAIN versions |-> IF w = v THEN [versions[w] EXCEPT !.status = "ACTIVE"]
                               ELSE IF versions[w].status = "ACTIVE" /\ w \in rivals THEN [versions[w] EXCEPT !.status = "ARCHIVED"]
                               ELSE versions[w]]
ActivateRun(f) ==
    /\ forecast[f].status = "DRAFT"
    /\ forecast' = Activating(forecast, f, {g \in Forecasts : forecast[g].product = forecast[f].product /\ forecast[g].scenario = forecast[f].scenario})
    /\ UNCHANGED <<mix, supply, applied, orders, mps>>

\* What a bucket keeps of its forecast once the orders due in it are counted, with the orders.
ConsumeForecastQty(quantity, ordered) == ordered + Max({quantity - ordered, 0})
TotalDemand(f, start) ==
    ConsumeForecastQty(forecast[f].values[start], SumFunctionOnSet(orders[forecast[f].product], start..Min({start + Bucket, MonthDays}) - 1))
\* What is released is kept, however little is now planned.
ApplyConsumptionToMPS(f) ==
    /\ forecast[f].status = "ACTIVE"
    /\ mps' = [mps EXCEPT ![forecast[f].product] = [d \in MonthDates |->
                  IF d \in DOMAIN forecast[f].values
                  THEN [planned |-> TotalDemand(f, d), released |-> @[d].released, basis |-> "FORECAST_CONSUMPTION", source |-> f]
                  ELSE @[d]]]
    /\ UNCHANGED <<forecast, mix, supply, applied, orders>>

-----------------------------------------------------------------------------
(* Sales and operations planning.                                          *)
CreateProductMixVersion(x, g, s) ==
    /\ mix[x].status = "NONE"
    /\ SumFunctionOnSet(s, DOMAIN s) = 100 /\ \A p \in DOMAIN s : Family[p] = g
    /\ mix' = [mix EXCEPT ![x] = [status |-> "DRAFT", family |-> g, lines |-> s]]
    /\ UNCHANGED <<forecast, supply, applied, orders, mps>>
ActivateProductMixVersion(x) ==
    /\ mix[x].status = "DRAFT"
    /\ mix' = Activating(mix, x, {y \in Mixes : mix[y].family = mix[x].family})
    /\ UNCHANGED <<forecast, supply, applied, orders, mps>>
UpsertPlan(g, q) == supply' = [supply EXCEPT ![g] = q] /\ UNCHANGED <<forecast, mix, applied, orders, mps>>

Round(n, d) == (2 * n + d) \div (2 * d)
Periods == {d \in MonthDates : d % Week = 0}
PeriodDays(d) == Min({Week, MonthDays - d})
\* mutant: every period is rounded, the last one too.
RoundedEach(target) == [d \in Periods |-> Round(target * PeriodDays(d), MonthDays)]
\* The last period takes what the rounded ones leave: less than nothing when they round up.
Phased(target) ==
    LET rounded == [d \in Periods |-> Round(target * PeriodDays(d), MonthDays)]
    IN [rounded EXCEPT ![Max(Periods)] = target - SumFunctionOnSet(rounded, Periods \ {Max(Periods)})]
CalcSOPDisaggregation(q, lines) == [p \in DOMAIN lines |-> Phased(Round(q * lines[p], 100))]
\* No period is planned below what is released of it.
CoversReleased(plan) == \A p \in DOMAIN plan, d \in Periods : mps[p][d].released <= plan[p][d]
\* A negative line is refused by the table that keeps it.
ApplyDisaggregationToMPS(x) ==
    LET plan == CalcSOPDisaggregation(supply[mix[x].family], mix[x].lines) IN
    /\ mix[x].status = "ACTIVE" /\ Len(applied) < MaxRuns
    /\ \A p \in DOMAIN plan, d \in Periods : plan[p][d] >= 0
    /\ CoversReleased(plan)
    /\ applied' = Append(applied, [mix |-> x, supply |-> supply[mix[x].family], lines |-> plan])
    /\ mps' = [p \in Products |-> [d \in MonthDates |->
                  IF p \in DOMAIN plan /\ d \in Periods
                  THEN [planned |-> plan[p][d], released |-> mps[p][d].released, basis |-> "SOP_DISAGGREGATION", source |-> Len(applied) + 1]
                  ELSE mps[p][d]]]
    /\ UNCHANGED <<forecast, mix, supply, orders>>

-----------------------------------------------------------------------------
\* By hand anything goes, and what an entry came from is forgotten.
UpsertMPS(p, d, planned, released) ==
    /\ mps' = [mps EXCEPT ![p][d] = [planned |-> planned, released |-> released, basis |-> "MANUAL", source |-> NoSource]]
    /\ UNCHANGED <<forecast, mix, supply, applied, orders>>
\* Orders are confirmed, shipped and cancelled.
OrdersChange(p, d, q) == orders' = [orders EXCEPT ![p][d] = q] /\ UNCHANGED <<forecast, mix, supply, applied, mps>>

DemandTypeOK ==
    /\ \A f \in Forecasts : forecast[f].status # "NONE" => forecast[f] \in ForecastRun
    /\ \A x \in Mixes : mix[x].status # "NONE" => mix[x] \in SOPProductMixVersion
    /\ mps \in [Products -> [MonthDates -> MPSEntry]] /\ orders \in [Products -> [MonthDates -> Nat]]
DemandInit ==
    /\ forecast = [f \in Forecasts |-> [status |-> "NONE", product |-> CHOOSE p \in Products : TRUE, scenario |-> CHOOSE s \in Scenarios : TRUE, values |-> <<>>]]
    /\ mix = [x \in Mixes |-> [status |-> "NONE", family |-> CHOOSE g \in Families : TRUE, lines |-> <<>>]]
    /\ supply = [g \in Families |-> 0] /\ applied = <<>>
    /\ orders = [p \in Products |-> [d \in MonthDates |-> 0]] /\ mps = [p \in Products |-> [d \in MonthDates |-> NoEntry]]
DemandNext ==
    \/ \E f \in Forecasts, p \in Products, s \in Scenarios, v \in [{d \in MonthDates : d % Bucket = 0} -> Amounts] : GenerateForecast(f, p, s, v)
    \/ \E f \in Forecasts : ActivateRun(f) \/ ApplyConsumptionToMPS(f)
    \/ \E x \in Mixes, g \in Families, s \in Shares : CreateProductMixVersion(x, g, s)
    \/ \E x \in Mixes : ActivateProductMixVersion(x) \/ ApplyDisaggregationToMPS(x)
    \/ \E g \in Families, q \in Amounts : UpsertPlan(g, q)
    \/ \E p \in Products, d \in MonthDates, q \in Amounts : OrdersChange(p, d, q) \/ \E r \in Amounts : UpsertMPS(p, d, q, r)
DemandSpec == DemandInit /\ [][DemandNext]_demandVars

-----------------------------------------------------------------------------
\* Whoever wrote an entry last, in whatever order forecasts, family plans and planners overwrite each other, it
\* can be traced: one from a family plan is a line of the disaggregation it names and covers what is released,
\* one from a forecast has that version's quantity of the product or more, and the lines of a disaggregation add
\* up to the share of each product in the plan (ApplyDisaggregationToMPS, CalcSOPDisaggregation,
\* ApplyConsumptionToMPS).
EntriesTraceToSource ==
    /\ \A p \in Products, d \in MonthDates : LET entry == mps[p][d] IN
          /\ entry.basis = "SOP_DISAGGREGATION" =>
                /\ p \in DOMAIN applied[entry.source].lines /\ entry.planned = applied[entry.source].lines[p][d]
                /\ entry.released <= entry.planned
          /\ entry.basis = "FORECAST_CONSUMPTION" =>
                LET f == forecast[entry.source] IN f.product = p /\ f.status \in {"ACTIVE", "ARCHIVED"} /\ entry.planned >= f.values[d]
    /\ \A k \in 1..Len(applied) : LET disaggregation == applied[k] IN
          \A p \in DOMAIN disaggregation.lines :
              SumFunctionOnSet(disaggregation.lines[p], Periods) = Round(disaggregation.supply * mix[disaggregation.mix].lines[p], 100)
=============================================================================
