----------------------------- MODULE MCRecovery -----------------------------
(* Three parts of one run, of what a restart can interrupt.  In the first, two  *)
(* people edit a scenario of up to two actions, run it up to twice, while the     *)
(* control tower's cases change, and publish it.  In the second a scenario is      *)
(* published already, with one of the plans below, and two executions of it are   *)
(* prepared and carried out: enough of the component for both orders, and room    *)
(* on the day for two overtime actions, until others interfere.  In the third,     *)
(* instances of an old binary, a new one and one with an edited script start and   *)
(* stop on new, old, complete and damaged databases.                              *)
EXTENDS RecoveryExecution, Migrations, TLC

CONSTANTS w1, w2, old, new1, new2, edited

VARIABLE half

Action(t, target, value) == [type |-> t, target |-> target, value |-> value]
Release(w) == Action("RELEASE_WO", w, 0)
Earlier(w) == Action("RESCHEDULE_WO", w, 1)
Overtime == Action("ADD_OVERTIME_CAPACITY", "day", 1)
Expedite == Action("EXPEDITE_PO", "po", 1)
Elsewhere == Action("ALTERNATE_WORK_CENTER", "first", "second")
Anywhere == Action("RELEASE_WO", "*", 0)

MCNeed == [w \in WorkOrders |-> 1]
MCMenu == {Release(w1), Release(w2), Earlier(w1), Overtime, Expedite, Elsewhere, Anywhere}
MCPlans == {<<Release(w1), Release(w2)>>, <<Overtime, Overtime>>, <<Expedite, Elsewhere>>,
            <<Earlier(w1), Release(w1)>>, <<Anywhere>>}

\* One baseline is recovered in part and shared by two actions, in the other a case is resolved at once.
Case(t, roots, band, score, revenue, days) ==
    [type |-> t, roots |-> roots, band |-> band, score |-> score, revenue |-> revenue, days |-> days]
MCBaselines ==
    {{Case("LATE_WORK_ORDER", {w1, "first"}, 1, 80001, 1001, 3), Case("CAPACITY_LATE", {w2, "first"}, 2, 60000, 99, 5)},
     {Case("DISPATCH_BLOCKED", {w1}, 1, 75000, 500, 0), Case("LATE_PURCHASE_ORDER", {"po"}, 1, 75333, 777, 2)}}
MCCost == [a \in MCMenu |-> IF a \in {Release(w1), Expedite} THEN 300 ELSE 0]

\* Script 2 shows in no schema; the fourth of an old deployment is there without the third.
MCEmbedded == [s \in Servers |-> CASE s = old -> <<"a", "b", "c", "d">> [] s = edited -> <<"a", "b", "x", "d">>
                                   [] OTHER -> <<"a", "b", "c", "d", "e">>]
MCDeployments == {{}, {1}, {1, 2, 3}, {1, 3, 4}, {1, 2, 4}}

Symmetry == Permutations(Users) \union Permutations(Executions) \union Permutations(Runs) \union Permutations({new1, new2})

\* A state the first part reaches for any plan of the menu.
PublishedInit(plan, done) ==
    /\ status = "PUBLISHED"
    /\ actions = plan
    /\ baseline = CHOOSE b \in Baselines : TRUE
    /\ run = [r \in Runs |-> IF r = done THEN [status |-> "SUCCEEDED", baseline |-> baseline,
                                             actions |-> plan, result |-> NoResult] ELSE Absent]
    /\ succeeded = <<done>>
    /\ alive = {}
    /\ snapshot = [r \in Runs |-> Absent]
    /\ publishing = NoRun /\ publication = done
    /\ overtaken = {}

NoDeployment == schema = {} /\ recorded = <<>> /\ lockedBy = NoServer /\ server = [s \in Servers |-> Down]
MCInit ==
    /\ ExecutionInit
    /\ \/ half = "scenario" /\ ScenarioInit /\ NoDeployment
       \/ half = "execution" /\ (\E plan \in MCPlans, r \in Runs : PublishedInit(plan, r)) /\ NoDeployment
       \/ half = "startup" /\ ScenarioInit /\ MigrationInit

MCNext ==
    /\ UNCHANGED half
    /\ \/ half = "execution" /\ ExecutionNext /\ UNCHANGED <<scenarioVars, migrationVars>>
       \/ /\ half = "scenario" /\ ScenarioNext /\ UNCHANGED <<executionVars, migrationVars>>
          /\ actions' \in {<<>>, <<Release(w1)>>, <<Elsewhere>>, <<Release(w1), Elsewhere>>}
       \/ half = "startup" /\ MigrationNext /\ UNCHANGED <<scenarioVars, executionVars>>

MCSpec == MCInit /\ [][MCNext]_<<vars, migrationVars, half>>
=============================================================================
