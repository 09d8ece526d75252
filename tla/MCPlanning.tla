----------------------------- MODULE MCPlanning -----------------------------
(* What plans, in four halves that share no state: the master schedule; an     *)
(* assembly of a part and a raw material, changed by hand and by an            *)
(* engineering change, or under one MRP run with two of those changes; three   *)
(* orders of two operations on two work centers over three days of four slots,  *)
(* with varying calendars, maintenance and transfer batches.                  *)
EXTENDS MaterialPlanning, FiniteScheduling, DemandPlanning, TLC

\* changes: bound on what happens beside an MRP run
VARIABLES half, changes
MCVars == <<bomVars, planVars, shopVars, demandVars, half, changes>>

-----------------------------------------------------------------------------

MCMaster == [i \in Items |-> [lead |-> IF i = 1 THEN 1 ELSE i - 1, lot |-> 4, eoq |-> 3, periods |-> 2,
                              method |-> CASE i = 1 -> "POQ" [] i = 2 -> "FOQ" [] OTHER -> "EOQ"]]
MCPolicy == [i \in Items |-> [minMax |-> i = 3, safety |-> 1, reorder |-> 2, max |-> 5]]
MCDemand == [i \in Items |-> [d \in Dates |-> CASE i = 1 /\ d > 0 -> 2 [] i = 3 /\ d = 1 -> 1 [] OTHER -> 0]]

\* Lines of the engineering change: put one component in the place of another, close a cycle, or change a quantity.
MCLines == {[action |-> "REMOVE", edge |-> <<2, 3>>, quantity |-> 1], [action |-> "ADD", edge |-> <<3, 2>>, quantity |-> 1],
            [action |-> "ADD", edge |-> <<3, 1>>, quantity |-> 1], [action |-> "MODIFY", edge |-> <<1, 2>>, quantity |-> 2]}
NoECO == [status |-> "NONE", effective |-> 0, lines |-> <<>>]
SwapECO == [status |-> "APPROVED", effective |-> 0,
            lines |-> <<[action |-> "ADD", edge |-> <<3, 2>>, quantity |-> 1], [action |-> "REMOVE", edge |-> <<2, 3>>, quantity |-> 1]>>]
MCBom == [e \in {<<1, 2>>, <<2, 3>>} |-> 1]
MCBoms == {MCBom, [e \in {<<1, 3>>, <<1, 2>>} |-> 1], [e \in {<<2, 3>>} |-> 2]}
MCOrder(day) == [item |-> 3, quantity |-> 3, received |-> 1, day |-> day, blocked |-> FALSE]
MCBlocked == [item |-> 3, quantity |-> 2, received |-> 0, day |-> 0, blocked |-> TRUE]
MCWork(i, due, status) == [item |-> i, quantity |-> 2, completed |-> 0, start |-> due - 2, due |-> due, status |-> status]

MCPlanInit ==
    /\ changes = 0
    /\ bom \in (IF half \in {"bom", "mrp"} THEN MCBoms ELSE {MCBom}) /\ llc = LowLevelCodes(DOMAIN bom) /\ today = 0
    /\ eco = [e \in Changes |-> IF half # "mrp" THEN NoECO ELSE SwapECO]
    /\ onHand \in IF half = "shop" \/ half = "demand" THEN {[i \in Items |-> 2]} ELSE {[i \in Items |-> 2], [i \in Items |-> IF i = 1 THEN 0 ELSE 5]}
    /\ purchases \in [Purchases -> IF half # "mrp" THEN {MCBlocked} ELSE {MCOrder(-1), MCOrder(2), MCOrder(Horizon), MCBlocked}]
    /\ work \in [WorkOrders -> IF half # "mrp" THEN {MCWork(2, 2, "PLANNED")} ELSE {MCWork(1, 1, "RELEASED"), MCWork(2, 2, "RELEASED")}]
    /\ run = BeforeRun

MCBOMNext ==
    \/ \E p, c \in Items : AddComponent(p, c, 1)
    \/ \E e \in DOMAIN bom : DeleteComponent(e)
    \/ RecomputeLLC
    \/ \E e \in Changes : \/ half = "bom" /\ (CreateECO(e, 1) \/ Approve(e) \/ \E k \in 1..2, l \in MCLines : Len(eco[e].lines) < 2 /\ AddECOComponent(e, k, l))
                          \/ Cancel(e) \/ Apply(e)
    \/ NextDay
MCPlanNext ==
    /\ \/ half = "mrp" /\ RunSteps /\ UNCHANGED changes
       \/ half = "mrp" /\ run.phase \notin {"idle", "done"} /\ changes < 2 /\ Postings /\ changes' = changes + 1
       \/ half = "bom" /\ MCBOMNext /\ UNCHANGED <<planVars, changes>>
       \/ half = "mrp" /\ run.phase \notin {"idle", "done"} /\ changes < 2 /\ MCBOMNext /\ changes' = changes + 1 /\ UNCHANGED planVars
    /\ UNCHANGED <<shopVars, demandVars>>

-----------------------------------------------------------------------------
MCWorkCenters == {"cut", "weld"}
MCMachines == "cut" :> 2 @@ "weld" :> 1
MCWorkers == "cut" :> 2 @@ "weld" :> 1
MCShift == "cut" :> 0 @@ "weld" :> 1
MCSetupTime == <<"red", "blue">> :> 2 @@ <<"*", "red">> :> 1

Op(wc, setup, time, family, machines, workers, transfer, qty, done, started, others) ==
    [wc |-> wc, setup |-> setup, run |-> time, family |-> family, machines |-> machines, workers |-> workers,
     transfer |-> transfer, quantity |-> qty - done, done |-> done, started |-> started, others |-> others]
Elsewhere == <<[wc |-> "cut", priority |-> 1, run |-> 1, setup |-> 1]>>
TwoSteps(ref, priority, earliest, due, family, transfer, done, workers, others) ==
    [ref |-> ref, priority |-> priority, earliest |-> earliest, due |-> due,
     ops |-> <<Op("cut", 1, IF transfer = 0 THEN 1 ELSE 2, family, 1, workers, transfer, 2, done, done > 0, <<>>),
               Op("weld", 1, 1, family, 1, 1, transfer, 2, 0, FALSE, others)>>]

MCShops ==
    {[week |-> <<3, 4, 4>>, exceptions |-> e, overtime |-> [x \in MCWorkCenters \X (1..3) |-> IF x = <<"weld", 1>> THEN o ELSE 0],
      maintenance |-> m,
      tasks |-> <<TwoSteps(1, p, 0, 3, "red", t, d, w, <<>>), TwoSteps(2, 20, 0, 5, "blue", 0, 0, 1, Elsewhere),
                  TwoSteps(3, 100, 1, 8, "red", 1, 0, 1, <<>>)>>] :
        e \in {<<>>, 2 :> 0}, o \in {0, 1}, p \in {10, 50}, t \in {0, 1}, d \in {0, 1}, w \in {1, 2},
        m \in {{}, {[wc |-> "cut", from |-> 1, to |-> 4, machines |-> 0, workers |-> 1]},
                   {[wc |-> "cut", from |-> 0, to |-> 2, machines |-> 1, workers |-> 0],
                    [wc |-> "weld", from |-> 2, to |-> 3, machines |-> 1, workers |-> 0]}}}
MCShopInit == shop \in (IF half = "shop" THEN Shops ELSE {CHOOSE s \in Shops : TRUE}) /\ Unscheduled
MCShopNext == half = "shop" /\ ScheduleOrder /\ UNCHANGED <<bomVars, planVars, demandVars, changes>>

-----------------------------------------------------------------------------
MCFamily == [p \in Products |-> "family"]
MCShares == {1 :> 100, 1 :> 30 @@ 2 :> 70}
MCValues == {0 :> 2 @@ 3 :> 0, 0 :> 0 @@ 3 :> 1}
MCDemandNext ==
    /\ half = "demand"
    /\ \/ \E f \in Forecasts, s \in Scenarios, v \in MCValues : (v[0] = 2) = (f = 1) /\ GenerateForecast(f, 1, s, v)
       \/ \E f \in Forecasts : ActivateRun(f) \/ ApplyConsumptionToMPS(f)
       \/ \E x \in Mixes, g \in Families, s \in Shares : CreateProductMixVersion(x, g, s)
       \/ \E x \in Mixes : ActivateProductMixVersion(x) \/ ApplyDisaggregationToMPS(x)
       \/ \E g \in Families, q \in {5, 9} : supply[g] # q /\ UpsertPlan(g, q)
       \/ orders[1][1] = 0 /\ OrdersChange(1, 1, 3)
       \/ UpsertMPS(1, 0, 1, 3)
    /\ UNCHANGED <<bomVars, planVars, shopVars, changes>>

-----------------------------------------------------------------------------
MCInit == half \in {"bom", "mrp", "shop", "demand"} /\ MCPlanInit /\ MCShopInit /\ DemandInit
MCNext == (MCPlanNext \/ MCShopNext \/ MCDemandNext) /\ UNCHANGED half
MCSpec == MCInit /\ [][MCNext]_MCVars
=============================================================================
