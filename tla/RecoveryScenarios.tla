------------------------- MODULE RecoveryScenarios -------------------------
(***************************************************************************)
(* One what-if scenario: its actions are edited while it is a DRAFT,        *)
(* simulated against the open control-tower cases, and one successful run   *)
(* is published.                                                           *)
(*                                                                         *)
(* A simulation is three transactions.  The first records the run RUNNING;  *)
(* the engine then computes without a database; the second re-reads the     *)
(* actions and records the success; the third, after any error, records     *)
(* the failure.  The second and the publication are REPEATABLE READ: they   *)
(* fix their snapshot with the statement that waits for the scenario's row, *)
(* and PostgreSQL refuses them that row only if it was itself updated since.*)
(* Adding, changing or deleting an action, and finishing another run of a   *)
(* scenario already SIMULATED, lock the row without updating it.  Snapshot  *)
(* and commit are therefore two steps here.                                *)
(***************************************************************************)
EXTENDS RecoveryProjection

CONSTANTS
    MaxActions,  \* bound: actions of the scenario
    Runs,        \* ids of recovery_scenario_runs
    Baselines,   \* sets of cases the control tower may hold open
    NoRun

ASSUME RecoveryScenariosAssumption == MaxActions \in Nat /\ NoRun \notin Runs

VARIABLES
    status,       \* recovery_scenarios.status
    actions,      \* recovery_scenario_actions by sequence_no
    baseline,     \* the open cases of v_current_control_tower_cases
    run,          \* recovery_scenario_runs with their results
    succeeded,    \* the SUCCEEDED runs by completed_at
    alive,        \* runs whose request is still being served
    snapshot,     \* what the second transaction of a run sees, if it has begun
    publishing,   \* the run a publication has found to be the latest, or NoRun
    publication,  \* recovery_scenario_publications: the run, or NoRun
    overtaken     \* history: runs whose snapshot missed a committed edit

scenarioVars == <<status, actions, baseline, run, succeeded, alive, snapshot,
                  publishing, publication, overtaken>>

ScenarioStatus == {"DRAFT", "SIMULATED", "PUBLISHED", "ARCHIVED"}
Plan == BoundedSeq(Menu, MaxActions)
Absent == [status |-> "NONE"]
Snapshot == [status : ScenarioStatus, actions : Plan]
RunOK(r) == r.status \in {"RUNNING", "SUCCEEDED", "FAILED"} /\ r.baseline \in Baselines /\ r.actions \in Plan

ScenarioTypeOK ==
    /\ status \in ScenarioStatus
    /\ actions \in Plan
    /\ baseline \in Baselines
    /\ \A r \in Runs : run[r] = Absent \/ RunOK(run[r])
    /\ succeeded \in Seq(Runs)
    /\ alive \subseteq Runs
    /\ snapshot \in [Runs -> Snapshot \union {Absent}]
    /\ {publishing, publication} \subseteq Runs \union {NoRun}

ScenarioInit ==
    /\ status = "DRAFT"
    /\ actions = <<>>
    /\ baseline \in Baselines
    /\ run = [r \in Runs |-> Absent]
    /\ succeeded = <<>>
    /\ alive = {}
    /\ snapshot = [r \in Runs |-> Absent]
    /\ publishing = NoRun /\ publication = NoRun
    /\ overtaken = {}

-----------------------------------------------------------------------------
Waiting == {r \in Runs : snapshot[r] # Absent}

\* The request hash covers the baseline, the horizon and the actions.
SameRequest(r, b, plan) == run[r].baseline = b /\ run[r].actions = plan

Edit(plan) ==
    /\ status = "DRAFT"
    /\ Len(plan) <= MaxActions
    /\ actions' = plan
    /\ overtaken' = overtaken \union Waiting
    /\ UNCHANGED <<status, baseline, run, succeeded, alive, snapshot, publishing, publication>>

AddScenarioAction == \E a \in Menu, i \in 1..Len(actions) + 1 : Edit(InsertAt(actions, i, a))

UpdateScenarioAction ==
    \E a \in Menu, i \in DOMAIN actions :
        /\ a # actions[i]
        /\ Edit([actions EXCEPT ![i] = a])

DeleteScenarioAction == \E i \in DOMAIN actions : Edit(RemoveAt(actions, i))

\* Not possible for a scenario that is archived already.
ArchiveScenario ==
    /\ status # "ARCHIVED"
    /\ status' = "ARCHIVED"
    /\ UNCHANGED <<actions, baseline, run, succeeded, alive, snapshot,
                   publishing, publication, overtaken>>

\* The control tower takes a new snapshot, or a case changes its status.
BaselineMoves ==
    /\ status # "ARCHIVED"
    /\ baseline' \in Baselines \ {baseline}
    /\ UNCHANGED <<status, actions, run, succeeded, alive, snapshot,
                   publishing, publication, overtaken>>

-----------------------------------------------------------------------------
Simulable == status \in {"DRAFT", "SIMULATED"}

\* A request already answered by a successful run gets that run.
Answered(b, plan) == \E s \in ToSet(succeeded) : SameRequest(s, b, plan)

NoResult == <<>>
StartRun(r) ==
    /\ run[r] = Absent
    /\ Simulable /\ actions # <<>>
    /\ ~Answered(baseline, actions)
    /\ run' = [run EXCEPT ![r] =
                  [status |-> "RUNNING", baseline |-> baseline, actions |-> actions, result |-> NoResult]]
    /\ alive' = alive \union {r}
    /\ UNCHANGED <<status, actions, baseline, succeeded, snapshot,
                   publishing, publication, overtaken>>

\* The second transaction begins; the scenario is locked in turn.
OpenResult(r) ==
    /\ r \in alive \ Waiting
    /\ run[r].status = "RUNNING"
    /\ Simulable
    /\ snapshot' = [snapshot EXCEPT ![r] = [status |-> status, actions |-> actions]]
    /\ UNCHANGED <<status, actions, baseline, run, succeeded, alive,
                   publishing, publication, overtaken>>

\* mutant: the result is stored without looking at the actions again
AnyRequest(r) == TRUE

UnchangedSince(r) == SameRequest(r, run[r].baseline, snapshot[r].actions)

\* The engine ran on the cases and actions of the first transaction.
CaseResults(cases, plan) == [c \in cases |-> ProjectedCase(c, plan)]
ActionResults(cases, plan) == [i \in DOMAIN plan |-> ProjectedAction(cases, plan, i)]
Result(cases, plan) ==
    [cases |-> CaseResults(cases, plan), actions |-> ActionResults(cases, plan), summary |-> ProjectedSummary(cases, plan)]

\* PostgreSQL refuses a row that was updated since the snapshot, and a unique
\* index a second success for one request.
StoreResult(r) ==
    /\ r \in Waiting
    /\ status = snapshot[r].status
    /\ UnchangedSince(r)
    /\ ~Answered(run[r].baseline, run[r].actions)
    /\ run' = [run EXCEPT ![r].status = "SUCCEEDED", ![r].result = Result(run[r].baseline, run[r].actions)]
    /\ succeeded' = Append(succeeded, r)
    /\ status' = "SIMULATED"
    /\ snapshot' = [snapshot EXCEPT ![r] = Absent]
    /\ alive' \in {alive, alive \ {r}}   \* the answer of the COMMIT may be lost
    /\ UNCHANGED <<actions, baseline, publishing, publication, overtaken>>

Failed(r) == IF run[r].status = "RUNNING" THEN [run EXCEPT ![r].status = "FAILED"] ELSE run

\* Any error after the first transaction: the engine's, a conflict of the
\* second, the scenario updated since its snapshot, a lost answer.
MarkRunFailed(r) ==
    /\ r \in alive
    /\ run' = Failed(r)
    /\ snapshot' = [snapshot EXCEPT ![r] = Absent]
    /\ alive' = alive \ {r}
    /\ UNCHANGED <<status, actions, baseline, succeeded, publishing, publication, overtaken>>

\* The server stops; nothing ever picks the RUNNING row up again.
ServerStops ==
    /\ alive # {} \/ publishing # NoRun
    /\ alive' = {}
    /\ snapshot' = [r \in Runs |-> Absent]
    /\ publishing' = NoRun
    /\ UNCHANGED <<status, actions, baseline, run, succeeded, publication, overtaken>>

-----------------------------------------------------------------------------
\* A publication sees the latest run of its snapshot and waits for the row.
OpenPublication ==
    /\ publishing = NoRun
    /\ status = "SIMULATED"
    /\ publishing' = Last(succeeded)
    /\ UNCHANGED <<status, actions, baseline, run, succeeded, alive, snapshot,
                   publication, overtaken>>

PublishScenario ==
    /\ publishing # NoRun
    /\ publishing' = NoRun
    /\ IF status = "SIMULATED"
       THEN publication' = publishing /\ status' = "PUBLISHED"
       ELSE UNCHANGED <<publication, status>>
    /\ UNCHANGED <<actions, baseline, run, succeeded, alive, snapshot, overtaken>>

ScenarioNext ==
    \/ AddScenarioAction \/ UpdateScenarioAction \/ DeleteScenarioAction
    \/ ArchiveScenario \/ BaselineMoves
    \/ \E r \in Runs : StartRun(r) \/ OpenResult(r) \/ StoreResult(r) \/ MarkRunFailed(r)
    \/ ServerStops
    \/ OpenPublication \/ PublishScenario

-----------------------------------------------------------------------------
\* A successful run answers the actions the scenario has: two people edit and
\* simulate at once, and a result computed for other actions never becomes
\* evidence, unless an edit committed while the result waited for the row.
EvidenceMatchesPlan ==
    \A r \in ToSet(succeeded) \ overtaken : run[r].actions = actions

AddsUp(cases, plan, result) ==
    LET Matches(i) == result.actions[i].cases
        Credited(Part(_)) == MapThenSumSet(Part, DOMAIN plan)
        Near(x, y) == x - y \in -Credited(Matches)..Credited(Matches)
        Without(i) == Result(cases, RemoveAt(plan, i))
    IN  /\ \A c \in cases :
              /\ result.cases[c].score <= c.score /\ result.cases[c].revenue <= c.revenue
              /\ result.cases[c].days <= c.days /\ result.cases[c].band >= c.band
        /\ Near(2 * Credited(LAMBDA i : result.actions[i].revenue),
                2 * (result.summary.before.revenue - result.summary.after.revenue))
        /\ Near(2 * Credited(LAMBDA i : result.actions[i].days), 2 * (result.summary.before.days - result.summary.after.days))
        /\ \A i \in DOMAIN plan :
              /\ \A c \in cases : Without(i).cases[c].revenue >= result.cases[c].revenue /\ Without(i).cases[c].days >= result.cases[c].days
              /\ Cost[plan[i]] = 0 => Without(i).summary.score <= result.summary.score
\* The stored evidence adds up: no case and no total is projected worse than it was; the actions that match a
\* case are credited with what it recovers once, but for a half per action (SimulateRecoveryScenario, "Attribute
\* realized benefit across matched actions without double-counting scenario-level recovered revenue"); and leaving
\* an action out recovers no more, nor scores higher where it cost nothing.
EvidenceAddsUp ==
    [][\A r \in Runs : run'[r] # run[r] /\ run'[r].status = "SUCCEEDED" =>
          AddsUp(run'[r].baseline, run'[r].actions, run'[r].result)]_scenarioVars
=============================================================================
