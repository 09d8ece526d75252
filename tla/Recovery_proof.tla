--------------------------- MODULE Recovery_proof ---------------------------
(***************************************************************************)
(* Recovery scenarios and their execution, for any menu of actions, plans,   *)
(* runs, executions, work orders and stops of the server.  A published plan  *)
(* is what its evidence was computed for; carrying it out, the journal, the   *)
(* status of each action and that of the execution tell the same; and an     *)
(* execution nobody disturbed finds the plant as its preflight foresaw it.   *)
(***************************************************************************)
EXTENDS RecoveryExecution, Sums_proof

-----------------------------------------------------------------------------
(* The invariant.                                                          *)

RunShape(x) == x = [status |-> x.status, baseline |-> x.baseline, actions |-> x.actions, result |-> x.result]

\* A result waits for the row of a scenario with the actions it has seen, unless they were edited since.
SnapshotsCurrent ==
    \A r \in Waiting : /\ run[r].status = "RUNNING"
                       /\ r \notin overtaken => snapshot[r].actions = actions

ScenarioInv ==
    /\ ScenarioTypeOK
    /\ run = [r \in Runs |-> run[r]] /\ \A r \in Runs : run[r] # Absent => RunShape(run[r])
    /\ status = "DRAFT" => succeeded = <<>>
    /\ status \in {"SIMULATED", "PUBLISHED"} => succeeded # <<>>
    /\ \A r \in ToSet(succeeded) : run[r].status = "SUCCEEDED"
    /\ SnapshotsCurrent
    /\ EvidenceMatchesPlan

Count(e) == Cardinality(Entries(e))
ExecutionShape(x) == x = [status |-> x.status, preparer |-> x.preparer, plan |-> x.plan, evidence |-> x.evidence, done |-> x.done]

RowsOK ==
    /\ exec = [e \in Executions |-> exec[e]]
    /\ plant \in Plant
    /\ journal \in Seq(Executions \X (1..MaxActions))
    /\ call \in [Executions -> Call]
    /\ moves \in 0..MaxMoves /\ disturbed \subseteq Executions

\* What has been done of a plan of n actions once the first k have been applied, and what the status says of it.
UpTo(k, i) == IF i <= k THEN "SUCCEEDED" ELSE "PENDING"
UpToFailed(k, i) == IF i <= k THEN "SUCCEEDED" ELSE IF i = k + 1 THEN "FAILED" ELSE "SKIPPED"
DoneOf(x, k) ==
    LET n == Len(x.plan) IN
    /\ x.status \in BeforeApproval \cup {"APPROVED", "CANCELLED"} => k = 0 /\ \A i \in 1..n : x.done[i] = "PENDING"
    /\ x.status = "EXECUTING" => k <= n /\ \A i \in 1..n : x.done[i] = UpTo(k, i)
    /\ x.status = "SUCCEEDED" => k = n /\ \A i \in 1..n : x.done[i] = "SUCCEEDED"
    /\ x.status = "PARTIAL_FAILED" => k \in 1..n - 1 /\ \A i \in 1..n : x.done[i] = UpToFailed(k, i)
    /\ x.status = "FAILED" => k = 0 /\ \A i \in 1..n : x.done[i] # "SUCCEEDED"

\* Only an execution that is EXECUTING is at work, and on its first action that is not done.
CallAt(e) ==
    call[e] # Idle => /\ exec[e].status = "EXECUTING"
                      /\ call[e].at = Count(e) + 1
                      /\ call[e].pc # "next" => Count(e) < Len(exec[e].plan)

ExecutionAt(e) ==
    IF exec[e] = Absent THEN Entries(e) = {} /\ call[e] = Idle
    ELSE LET x == exec[e] IN
         /\ ExecutionShape(x) /\ x.plan \in Plan /\ x.done \in [1..Len(x.plan) -> ActionStatus]
         /\ x.status \in Terminal \cup BeforeApproval \cup {"APPROVED", "EXECUTING"}
         /\ DoneOf(x, Count(e))
         /\ CallAt(e)
         /\ \A k \in Entries(e) : journal[k][2] = Cardinality({j \in Entries(e) : j <= k})
         /\ x.status \in {"PREFLIGHT_PASSED", "APPROVED", "EXECUTING"} =>
               DOMAIN x.evidence = 1..Len(x.plan) /\ AllReady(x.evidence)

\* For an execution nobody has disturbed the plant is what its preflight foresaw from where it started.
Foreseen(e) ==
    \E p : /\ exec[e].evidence = Simulated(p, exec[e].plan)
           /\ plant = AfterActions(p, exec[e].plan)[Count(e)]

UndisturbedAt(e) ==
    /\ exec[e].status = "EXECUTING" /\ e \notin disturbed =>
          Foreseen(e) /\ (call[e].pc = "applying" => call[e].seen = plant)
    /\ call[e].pc = "drifted" => e \in disturbed

AddsOvertime(a) == a.type = "ADD_OVERTIME_CAPACITY"
\* Two actions that add overtime do not overlap.
OvertimeSeen ==
    \A e \in Executions : call[e].pc = "applying" /\ AddsOvertime(exec[e].plan[call[e].at]) =>
        call[e].seen.overtime = plant.overtime

ExecutionInv ==
    /\ RowsOK
    /\ \A e \in Executions : ExecutionAt(e) /\ UndisturbedAt(e)
    /\ OvertimeSeen /\ OvertimeWithinDay
RecoveryInv == ScenarioInv /\ ExecutionInv

-----------------------------------------------------------------------------
(* Plans.                                                                  *)

LEMMA PlanIsSeq ==
    ASSUME NEW s \in Plan
    PROVE  s \in Seq(Menu) /\ Len(s) \in 0..MaxActions /\ DOMAIN s = 1..Len(s)
<1>1. PICK m \in 0..MaxActions : s \in [1..m -> Menu]
  BY DEF Plan, BoundedSeq, SeqOf
<1>2. MaxActions \in Nat
  BY RecoveryScenariosAssumption DEF RecoveryScenariosAssumption
<1>3. s \in Seq(Menu) /\ Len(s) = m
  BY <1>1, <1>2
<1> QED
  BY <1>1, <1>2, <1>3

LEMMA SeqIsPlan ==
    ASSUME NEW s \in Seq(Menu), Len(s) <= MaxActions
    PROVE  s \in Plan
<1>1. MaxActions \in Nat /\ Len(s) \in 0..MaxActions
  BY RecoveryScenariosAssumption DEF RecoveryScenariosAssumption
<1>2. s \in [1..Len(s) -> Menu]
  OBVIOUS
<1> QED
  BY <1>1, <1>2 DEF Plan, BoundedSeq, SeqOf

-----------------------------------------------------------------------------
(* The scenario.                                                           *)

LEMMA RunShapeApart == ASSUME NEW x, RunShape(x) PROVE x # Absent
<1>1. DOMAIN Absent = {"status"}
  BY DEF Absent
<1>2. "baseline" \in DOMAIN x
  BY DEF RunShape
<1> QED
  BY <1>1, <1>2

LEMMA ScenarioStart == ASSUME ScenarioInit PROVE ScenarioInv
<1>1. <<>> \in Plan
  <2>1. <<>> \in Seq(Menu) /\ Len(<<>>) = 0 /\ 0 <= MaxActions
    BY RecoveryScenariosAssumption DEF RecoveryScenariosAssumption
  <2> QED
    BY <2>1, SeqIsPlan
<1>2. ScenarioTypeOK
  BY <1>1 DEF ScenarioInit, ScenarioTypeOK, ScenarioStatus
<1>3. ToSet(<<>>) = {}
  BY DEF ToSet
<1>4. SnapshotsCurrent /\ EvidenceMatchesPlan
  BY <1>3 DEF ScenarioInit, SnapshotsCurrent, EvidenceMatchesPlan, Waiting
<1> QED
  BY <1>2, <1>3, <1>4 DEF ScenarioInit, ScenarioInv

\* An edit leaves runs and their results alone, and dates what waits; there is no result yet.
LEMMA EditKeeps ==
    ASSUME ScenarioInv, NEW plan \in Seq(Menu), Edit(plan)
    PROVE  ScenarioInv'
<1>1. plan \in Plan
  BY SeqIsPlan DEF Edit
<1>2. ScenarioTypeOK'
  BY <1>1 DEF ScenarioInv, ScenarioTypeOK, Edit, RunOK
<1>3. Waiting' = Waiting
  BY DEF Edit, Waiting
<1>4. SnapshotsCurrent'
  BY <1>3 DEF ScenarioInv, SnapshotsCurrent, Edit
<1>5. succeeded = <<>> /\ ToSet(succeeded) = {}
  BY DEF ScenarioInv, Edit, ToSet
<1>6. EvidenceMatchesPlan'
  BY <1>5 DEF Edit, EvidenceMatchesPlan
<1> QED
  BY <1>2, <1>4, <1>6 DEF ScenarioInv, Edit, RunShape

LEMMA EditsKeep ==
    ASSUME ScenarioInv, AddScenarioAction \/ UpdateScenarioAction \/ DeleteScenarioAction
    PROVE  ScenarioInv'
<1>1. actions \in Seq(Menu) /\ DOMAIN actions = 1..Len(actions)
  BY PlanIsSeq DEF ScenarioInv, ScenarioTypeOK
<1>2. ASSUME NEW a \in Menu, NEW i \in 1..Len(actions) + 1, Edit(InsertAt(actions, i, a)) PROVE ScenarioInv'
  <2>1. SubSeq(actions, 1, i - 1) \in Seq(Menu) /\ SubSeq(actions, i, Len(actions)) \in Seq(Menu)
    BY <1>1, <1>2
  <2>2. InsertAt(actions, i, a) \in Seq(Menu)
    BY <2>1 DEF InsertAt
  <2> QED
    BY <1>2, <2>2, EditKeeps
<1>3. ASSUME NEW a \in Menu, NEW i \in DOMAIN actions, Edit([actions EXCEPT ![i] = a]) PROVE ScenarioInv'
  <2>1. [actions EXCEPT ![i] = a] \in Seq(Menu)
    BY <1>1
  <2> QED
    BY <1>3, <2>1, EditKeeps
<1>4. ASSUME NEW i \in DOMAIN actions, Edit(RemoveAt(actions, i)) PROVE ScenarioInv'
  <2>1. SubSeq(actions, 1, i - 1) \in Seq(Menu) /\ SubSeq(actions, i + 1, Len(actions)) \in Seq(Menu)
    BY <1>1, <1>4
  <2>2. RemoveAt(actions, i) \in Seq(Menu)
    BY <2>1 DEF RemoveAt
  <2> QED
    BY <1>4, <2>2, EditKeeps
<1> QED
  BY <1>2, <1>3, <1>4 DEF AddScenarioAction, UpdateScenarioAction, DeleteScenarioAction

LEMMA ArchiveKeeps == ASSUME ScenarioInv, ArchiveScenario \/ BaselineMoves PROVE ScenarioInv'
<1>1. ScenarioTypeOK'
  BY DEF ScenarioInv, ScenarioTypeOK, ArchiveScenario, BaselineMoves, ScenarioStatus, RunOK
<1>2. SnapshotsCurrent' /\ EvidenceMatchesPlan'
  BY DEF ScenarioInv, SnapshotsCurrent, EvidenceMatchesPlan, Waiting, ArchiveScenario, BaselineMoves
<1> QED
  BY <1>1, <1>2 DEF ScenarioInv, ArchiveScenario, BaselineMoves, RunShape

LEMMA StartRunKeeps == ASSUME ScenarioInv, NEW r \in Runs, StartRun(r) PROVE ScenarioInv'
<1> DEFINE x == [status |-> "RUNNING", baseline |-> baseline, actions |-> actions, result |-> NoResult]
<1>1. run' = [q \in Runs |-> IF q = r THEN x ELSE run[q]]
  BY DEF ScenarioInv, StartRun
<1>2. RunOK(x) /\ RunShape(x)
  BY DEF ScenarioInv, ScenarioTypeOK, RunOK, RunShape
<1>3. ScenarioTypeOK'
  BY <1>1, <1>2 DEF ScenarioInv, ScenarioTypeOK, StartRun, RunOK
<1>4. r \notin ToSet(succeeded) /\ r \notin Waiting
  BY DEF ScenarioInv, StartRun, SnapshotsCurrent, Absent
<1>5. SnapshotsCurrent' /\ EvidenceMatchesPlan'
  BY <1>1, <1>4 DEF ScenarioInv, SnapshotsCurrent, EvidenceMatchesPlan, Waiting, StartRun
<1> HIDE DEF x
<1> QED
  BY <1>1, <1>2, <1>3, <1>4, <1>5 DEF ScenarioInv, StartRun, RunShape

LEMMA OpenResultKeeps == ASSUME ScenarioInv, NEW r \in Runs, OpenResult(r) PROVE ScenarioInv'
<1>1. ScenarioTypeOK'
  BY DEF ScenarioInv, ScenarioTypeOK, OpenResult, RunOK, Snapshot
<1>2. snapshot' = [q \in Runs |-> IF q = r THEN [status |-> status, actions |-> actions] ELSE snapshot[q]]
  BY DEF ScenarioInv, ScenarioTypeOK, OpenResult
<1>3. SnapshotsCurrent'
  BY <1>2 DEF ScenarioInv, SnapshotsCurrent, Waiting, OpenResult
<1>4. EvidenceMatchesPlan'
  BY DEF ScenarioInv, EvidenceMatchesPlan, OpenResult
<1> QED
  BY <1>1, <1>3, <1>4 DEF ScenarioInv, OpenResult, RunShape

\* The second transaction compares the actions of the run with those its snapshot shows.
LEMMA StoreResultKeeps == ASSUME ScenarioInv, NEW r \in Runs, StoreResult(r) PROVE ScenarioInv'
<1> DEFINE x == [status |-> "SUCCEEDED", baseline |-> run[r].baseline, actions |-> run[r].actions,
                 result |-> Result(run[r].baseline, run[r].actions)]
<1>1. r \in Waiting /\ run[r].status = "RUNNING" /\ run[r] # Absent
  <2>1. r \in Waiting /\ SnapshotsCurrent
    BY DEF StoreResult, ScenarioInv
  <2>2. run[r].status = "RUNNING"
    BY <2>1 DEF SnapshotsCurrent
  <2> QED
    BY <2>1, <2>2 DEF Absent
<1>2. run' = [q \in Runs |-> IF q = r THEN x ELSE run[q]]
  <2>1. RunShape(run[r])
    BY <1>1 DEF ScenarioInv
  <2>2. PICK b, p, z : run[r] = [status |-> "RUNNING", baseline |-> b, actions |-> p, result |-> z]
    BY <2>1, <1>1 DEF RunShape
  <2>3. run = [q \in Runs |-> run[q]]
    BY DEF ScenarioInv
  <2>4. run' = [run EXCEPT ![r] = [run[r] EXCEPT !.status = "SUCCEEDED", !.result = Result(run[r].baseline, run[r].actions)]]
    BY DEF StoreResult
  <2>5. [run[r] EXCEPT !.status = "SUCCEEDED", !.result = Result(run[r].baseline, run[r].actions)] = x
    <3>1. ASSUME NEW w PROVE [run[r] EXCEPT !.status = "SUCCEEDED", !.result = w]
                             = [[run[r] EXCEPT !.status = "SUCCEEDED"] EXCEPT !.result = w]
      OBVIOUS
    <3>2. [run[r] EXCEPT !.status = "SUCCEEDED"] = [status |-> "SUCCEEDED", baseline |-> b, actions |-> p, result |-> z]
      BY <2>2
    <3>3. \A w : [[status |-> "SUCCEEDED", baseline |-> b, actions |-> p, result |-> z] EXCEPT !.result = w]
                = [status |-> "SUCCEEDED", baseline |-> b, actions |-> p, result |-> w]
      OBVIOUS
    <3>4. run[r].baseline = b /\ run[r].actions = p
      BY <2>2
    <3> QED
      BY <3>1, <3>2, <3>3, <3>4
  <2> HIDE DEF x
  <2> QED
    BY <2>3, <2>4, <2>5
<1>3. RunOK(run[r])
  BY <1>1 DEF ScenarioInv, ScenarioTypeOK
<1>4. RunOK(x) /\ RunShape(x)
  BY <1>3 DEF RunOK, RunShape
<1>5. x.actions = run[r].actions /\ x.status = "SUCCEEDED"
  OBVIOUS
<1> HIDE DEF x
<1>6. succeeded \in Seq(Runs) /\ succeeded' = Append(succeeded, r)
  BY DEF ScenarioInv, ScenarioTypeOK, StoreResult
<1>7. ToSet(succeeded') = ToSet(succeeded) \cup {r} /\ succeeded' # <<>> /\ succeeded' \in Seq(Runs)
  BY <1>6 DEF ToSet
<1>8. ScenarioTypeOK'
  BY <1>2, <1>4, <1>7 DEF ScenarioInv, ScenarioTypeOK, ScenarioStatus, StoreResult, RunOK
<1>9. snapshot' = [q \in Runs |-> IF q = r THEN Absent ELSE snapshot[q]]
  BY DEF ScenarioInv, ScenarioTypeOK, StoreResult
<1>10. SnapshotsCurrent'
  BY <1>2, <1>9 DEF ScenarioInv, SnapshotsCurrent, Waiting, StoreResult
<1>11. r \notin overtaken => run[r].actions = actions
  BY <1>1 DEF ScenarioInv, SnapshotsCurrent, StoreResult, UnchangedSince, SameRequest
<1>12. EvidenceMatchesPlan'
  <2> SUFFICES ASSUME NEW q \in ToSet(succeeded') \ overtaken PROVE run'[q].actions = actions
    BY DEF EvidenceMatchesPlan, StoreResult
  <2>1. q \in Runs
    BY <1>7 DEF ToSet
  <2>2. CASE q = r
    BY <1>2, <1>5, <1>11, <2>1, <2>2
  <2>3. CASE q # r
    <3>1. q \in ToSet(succeeded) \ overtaken /\ run'[q] = run[q]
      BY <1>2, <1>7, <2>1, <2>3
    <3> QED
      BY <3>1 DEF ScenarioInv, EvidenceMatchesPlan
  <2> QED
    BY <2>2, <2>3
<1>13. \A q \in ToSet(succeeded') : run'[q].status = "SUCCEEDED"
  <2>1. ToSet(succeeded') \subseteq Runs
    BY <1>7 DEF ToSet
  <2> QED
    BY <1>2, <1>5, <1>7, <2>1 DEF ScenarioInv
<1>14. run' = [q \in Runs |-> run'[q]] /\ \A q \in Runs : run'[q] # Absent => RunShape(run'[q])
  BY <1>2, <1>4 DEF ScenarioInv
<1>15. status' = "SIMULATED"
  BY DEF StoreResult
<1> QED
  BY <1>7, <1>8, <1>10, <1>12, <1>13, <1>14, <1>15 DEF ScenarioInv

LEMMA MarkRunFailedKeeps == ASSUME ScenarioInv, NEW r \in Runs, MarkRunFailed(r) PROVE ScenarioInv'
<1>1. CASE run[r].status # "RUNNING"
  <2>1. run' = run /\ snapshot' = [q \in Runs |-> IF q = r THEN Absent ELSE snapshot[q]]
    BY <1>1 DEF MarkRunFailed, Failed, ScenarioInv, ScenarioTypeOK
  <2>2. ScenarioTypeOK'
    BY <2>1 DEF ScenarioInv, ScenarioTypeOK, MarkRunFailed, RunOK
  <2>3. SnapshotsCurrent' /\ EvidenceMatchesPlan'
    BY <2>1 DEF ScenarioInv, SnapshotsCurrent, EvidenceMatchesPlan, Waiting, MarkRunFailed
  <2> QED
    BY <2>1, <2>2, <2>3 DEF ScenarioInv, MarkRunFailed, RunShape
<1>2. CASE run[r].status = "RUNNING"
  <2> DEFINE x == [status |-> "FAILED", baseline |-> run[r].baseline, actions |-> run[r].actions, result |-> run[r].result]
  <2>1. run[r] # Absent
    BY <1>2 DEF Absent
  <2>2. run' = [q \in Runs |-> IF q = r THEN x ELSE run[q]]
    BY <1>2, <2>1 DEF ScenarioInv, MarkRunFailed, Failed, RunShape
  <2>3. RunOK(x) /\ RunShape(x)
    BY <2>1 DEF ScenarioInv, ScenarioTypeOK, RunOK, RunShape
  <2> HIDE DEF x
  <2>4. snapshot' = [q \in Runs |-> IF q = r THEN Absent ELSE snapshot[q]]
    BY DEF MarkRunFailed, ScenarioInv, ScenarioTypeOK
  <2>5. ScenarioTypeOK'
    BY <2>2, <2>3, <2>4 DEF ScenarioInv, ScenarioTypeOK, MarkRunFailed, RunOK
  <2>6. r \notin ToSet(succeeded) /\ ToSet(succeeded) \subseteq Runs
    <3>1. \A q \in ToSet(succeeded) : run[q].status = "SUCCEEDED"
      BY DEF ScenarioInv
    <3>2. succeeded \in Seq(Runs)
      BY DEF ScenarioInv, ScenarioTypeOK
    <3> QED
      BY <1>2, <3>1, <3>2 DEF ToSet
  <2>7. SnapshotsCurrent' /\ EvidenceMatchesPlan'
    BY <2>2, <2>4, <2>6 DEF ScenarioInv, SnapshotsCurrent, EvidenceMatchesPlan, Waiting, MarkRunFailed
  <2>8. \A q \in ToSet(succeeded') : run'[q].status = "SUCCEEDED"
    BY <2>2, <2>6 DEF ScenarioInv, MarkRunFailed
  <2> QED
    BY <2>2, <2>3, <2>5, <2>7, <2>8 DEF ScenarioInv, MarkRunFailed
<1> QED
  BY <1>1, <1>2

LEMMA ServerStopsKeeps == ASSUME ScenarioInv, ServerStops PROVE ScenarioInv'
<1>1. ScenarioTypeOK'
  BY DEF ScenarioInv, ScenarioTypeOK, ServerStops, RunOK
<1>2. SnapshotsCurrent' /\ EvidenceMatchesPlan'
  BY DEF ScenarioInv, SnapshotsCurrent, EvidenceMatchesPlan, Waiting, ServerStops
<1> QED
  BY <1>1, <1>2 DEF ScenarioInv, ServerStops, RunShape

LEMMA PublicationKeeps == ASSUME ScenarioInv, OpenPublication \/ PublishScenario PROVE ScenarioInv'
<1>1. status = "SIMULATED" => Last(succeeded) \in Runs
  <2>1. succeeded \in Seq(Runs) /\ (status = "SIMULATED" => succeeded # <<>>)
    BY DEF ScenarioInv, ScenarioTypeOK
  <2> QED
    BY <2>1 DEF Last
<1>2. ScenarioTypeOK'
  <2>1. OpenPublication => {publishing', publication'} \subseteq Runs \cup {NoRun}
    BY <1>1 DEF ScenarioInv, ScenarioTypeOK, OpenPublication
  <2>2. PublishScenario => {publishing', publication'} \subseteq Runs \cup {NoRun}
    BY DEF ScenarioInv, ScenarioTypeOK, PublishScenario
  <2>3. status' \in ScenarioStatus
    BY DEF ScenarioInv, ScenarioTypeOK, OpenPublication, PublishScenario, ScenarioStatus
  <2> QED
    BY <2>1, <2>2, <2>3 DEF ScenarioInv, ScenarioTypeOK, OpenPublication, PublishScenario, RunOK
<1>3. SnapshotsCurrent' /\ EvidenceMatchesPlan'
  BY DEF ScenarioInv, SnapshotsCurrent, EvidenceMatchesPlan, Waiting, OpenPublication, PublishScenario
<1> QED
  BY <1>2, <1>3 DEF ScenarioInv, OpenPublication, PublishScenario, RunShape

LEMMA ScenarioKept == ASSUME ScenarioInv, ScenarioNext \/ UNCHANGED scenarioVars PROVE ScenarioInv'
<1>1. CASE UNCHANGED scenarioVars
  <2>1. ScenarioTypeOK' /\ SnapshotsCurrent' /\ EvidenceMatchesPlan'
    BY <1>1 DEF scenarioVars, ScenarioInv, ScenarioTypeOK, RunOK, SnapshotsCurrent, EvidenceMatchesPlan, Waiting
  <2> QED
    BY <1>1, <2>1 DEF scenarioVars, ScenarioInv, RunShape
<1>2. CASE ScenarioNext
  BY <1>2, EditsKeep, ArchiveKeeps, StartRunKeeps, OpenResultKeeps, StoreResultKeeps, MarkRunFailedKeeps,
     ServerStopsKeeps, PublicationKeeps DEF ScenarioNext
<1> QED
  BY <1>1, <1>2

-----------------------------------------------------------------------------
(* The plant, and the preflight's walk through a plan.                     *)

NextPlant(q, a) == IF Preflight(q, a).ready THEN Effect(q, q, a) ELSE q
IsWalk(p, plan, n, g) == g = [i \in 0..n |-> IF i = 0 THEN p ELSE NextPlant(g[i - 1], plan[i])]

LEMMA WalkExists ==
    ASSUME NEW p, NEW plan, NEW n \in Nat
    PROVE  \E g : IsWalk(p, plan, n, g)
<1> DEFINE C == {m \in Nat : ~ \E g : IsWalk(p, plan, m, g)}
<1> SUFFICES ASSUME C # {} PROVE FALSE
  OBVIOUS
<1>1. PICK m \in C : \A k \in C : m <= k
  <2>1. C \subseteq Nat
    OBVIOUS
  <2> HIDE DEF C
  <2> QED
    BY <2>1, SmallestNumber
<1>2. CASE m = 0
  <2>1. IsWalk(p, plan, 0, [i \in 0..0 |-> p])
    BY DEF IsWalk
  <2> QED
    BY <1>1, <1>2, <2>1
<1>3. CASE m # 0
  <2>1. m - 1 \in Nat /\ m - 1 \notin C
    BY <1>1, <1>3
  <2>2. PICK g : IsWalk(p, plan, m - 1, g)
    BY <2>1
  <2> DEFINE h == [i \in 0..m |-> IF i < m THEN g[i] ELSE NextPlant(g[m - 1], plan[m])]
  <2>3. ASSUME NEW i \in 0..m PROVE h[i] = IF i = 0 THEN p ELSE NextPlant(h[i - 1], plan[i])
    <3>1. CASE i = m
      BY <1>1, <1>3, <3>1
    <3>2. CASE i # m /\ i = 0
      BY <1>1, <1>3, <2>1, <2>2, <3>2 DEF IsWalk
    <3>3. CASE i # m /\ i # 0
      <4>1. i \in 0..m - 1 /\ i - 1 \in 0..m - 1 /\ i - 1 \in 0..m
        BY <1>1, <3>3
      <4>2. g[i] = NextPlant(g[i - 1], plan[i])
        BY <2>2, <3>3, <4>1 DEF IsWalk
      <4> QED
        BY <1>1, <3>3, <4>1, <4>2
    <3> QED
      BY <3>1, <3>2, <3>3
  <2> HIDE DEF h
  <2>4. DOMAIN h = 0..m /\ h = [i \in 0..m |-> h[i]]
    BY DEF h
  <2>5. IsWalk(p, plan, m, h)
    BY <2>3, <2>4 DEF IsWalk
  <2> QED
    BY <1>1, <2>5
<1> QED
  BY <1>2, <1>3

\* Each action finds the plant as the ready ones before it left it.
LEMMA AfterStep ==
    ASSUME NEW p, NEW plan \in Seq(Menu)
    PROVE  /\ AfterActions(p, plan)[0] = p
           /\ \A i \in 1..Len(plan) : AfterActions(p, plan)[i] = NextPlant(AfterActions(p, plan)[i - 1], plan[i])
<1> DEFINE A == CHOOSE g : IsWalk(p, plan, Len(plan), g)
<1>1. AfterActions(p, plan) = A
  BY DEF AfterActions, IsWalk, NextPlant
<1>2. IsWalk(p, plan, Len(plan), A)
  BY WalkExists
<1> HIDE DEF A
<1>3. \A i \in 0..Len(plan) : A[i] = IF i = 0 THEN p ELSE NextPlant(A[i - 1], plan[i])
  BY <1>2 DEF IsWalk
<1> QED
  BY <1>1, <1>3

LEMMA ReadyIsKnown ==
    ASSUME NEW p \in Plant, NEW a \in Menu, Preflight(p, a).ready
    PROVE  /\ a.type \in {"RESCHEDULE_WO", "RELEASE_WO"} => a.target \in WorkOrders
           /\ a.type = "ALTERNATE_WORK_CENTER" => a.value \in Alternatives
           /\ a.type = "ADD_OVERTIME_CAPACITY" => p.overtime + a.value <= MaxClock
<1>1. ValidAction(a)
  BY RecoveryProjectionAssumption DEF RecoveryProjectionAssumption
<1>2. \A b, what : Found(b, what).ready = b
  BY DEF Found
<1>3. a.target # "*" /\ (a.type \in {"RESCHEDULE_WO", "RELEASE_WO"} => a.target \in WorkOrders)
  BY <1>2, Zenon DEF Preflight
<1>4. CASE a.type = "ALTERNATE_WORK_CENTER"
  <2>1. Preflight(p, a) = Found(p.op.status = "READY" /\ a.target = p.op.center /\ a.value \in Alternatives, p.op)
    BY <1>3, <1>4 DEF Preflight
  <2> QED
    BY <1>2, <1>4, <2>1
<1>5. CASE a.type = "ADD_OVERTIME_CAPACITY"
  <2>1. Preflight(p, a) = Found(p.overtime + a.value <= MaxClock, p.overtime)
    BY <1>3, <1>5 DEF Preflight
  <2>2. Found(p.overtime + a.value <= MaxClock, p.overtime).ready = (p.overtime + a.value <= MaxClock)
    BY DEF Found
  <2>3. p.overtime + a.value <= MaxClock
    BY <2>1, <2>2
  <2> QED
    BY <1>5, <2>3
<1> QED
  BY <1>3, <1>4, <1>5

LEMMA EffectType ==
    ASSUME NEW p \in Plant, NEW q \in Plant, NEW a \in Menu, Preflight(p, a).ready
    PROVE  /\ Effect(p, q, a) \in Plant
           /\ AddsOvertime(a) => Effect(p, q, a).overtime = q.overtime + a.value /\ a.value \in Nat
           /\ ~AddsOvertime(a) => Effect(p, q, a).overtime = q.overtime
<1>1. ValidAction(a)
  BY RecoveryProjectionAssumption DEF RecoveryProjectionAssumption
<1>2. CASE a.type = "EXPEDITE_PO"
  BY <1>1, <1>2 DEF Effect, Plant, AddsOvertime, ValidAction
<1>3. CASE a.type = "RESCHEDULE_WO"
  <2> DEFINE t == a.target
             d == p.wo[t].date - a.value
  <2>1. t \in WorkOrders /\ d \in Int
    BY <1>1, <1>3, ReadyIsKnown DEF Plant, ValidAction
  <2>2. Effect(p, q, a) = [q EXCEPT !.wo[t].date = d]
    BY <1>3 DEF Effect
  <2> HIDE DEF t, d
  <2>3. [q EXCEPT !.wo[t].date = d] \in Plant /\ [q EXCEPT !.wo[t].date = d].overtime = q.overtime
    BY <2>1 DEF Plant
  <2> QED
    BY <1>3, <2>2, <2>3 DEF AddsOvertime
<1>4. CASE a.type = "RELEASE_WO"
  <2> DEFINE t == a.target
             n == Need[t]
             r == [q EXCEPT !.wo[t].status = "RELEASED"]
  <2>1. t \in WorkOrders /\ n \in Int
    BY <1>4, ReadyIsKnown, RecoveryExecutionAssumption DEF RecoveryExecutionAssumption
  <2>2. Effect(p, q, a) = [q EXCEPT !.wo[t].status = "RELEASED", !.available = @ - n]
    BY <1>4 DEF Effect
  <2>3. Effect(p, q, a) = [r EXCEPT !.available = @ - n]
    BY <2>2
  <2> HIDE DEF t, n
  <2>4. r \in Plant /\ r.overtime = q.overtime
    BY <2>1 DEF Plant
  <2> HIDE DEF r
  <2>5. [r EXCEPT !.available = @ - n] \in Plant /\ [r EXCEPT !.available = @ - n].overtime = r.overtime
    <3>1. r.available - n \in Int
      BY <2>1, <2>4 DEF Plant
    <3> QED
      BY <3>1, <2>4 DEF Plant
  <2> QED
    BY <1>4, <2>3, <2>4, <2>5 DEF AddsOvertime
<1>5. CASE a.type = "ALTERNATE_WORK_CENTER"
  BY <1>5, ReadyIsKnown DEF Effect, Plant, AddsOvertime, Centers
<1>6. CASE a.type = "ADD_OVERTIME_CAPACITY"
  <2>1. a.value \in Nat
    <3>1. a.value \in 1..MinutesPerWeek
      BY <1>1, <1>6, Zenon DEF ValidAction
    <3> QED
      BY <3>1
  <2>2. Effect(p, q, a) = [q EXCEPT !.overtime = @ + a.value]
    BY <1>6 DEF Effect
  <2>3. q.overtime + a.value \in Nat
    BY <2>1 DEF Plant
  <2>4. [q EXCEPT !.overtime = @ + a.value] \in Plant /\ [q EXCEPT !.overtime = @ + a.value].overtime = q.overtime + a.value
    BY <2>3 DEF Plant
  <2> QED
    BY <1>6, <2>1, <2>2, <2>4 DEF AddsOvertime
<1> QED
  BY <1>1, <1>2, <1>3, <1>4, <1>5, <1>6 DEF ValidAction

-----------------------------------------------------------------------------
(* What a step leaves alone, and the row of the execution it changes.      *)

Row(s, x, v, d) == [status |-> s, preparer |-> x.preparer, plan |-> x.plan, evidence |-> v, done |-> d]

LEMMA RowUpdates ==
    ASSUME NEW x, ExecutionShape(x)
    PROVE  /\ \A s : [x EXCEPT !.status = s] = Row(s, x, x.evidence, x.done)
           /\ \A s, v : [x EXCEPT !.evidence = v, !.status = s] = Row(s, x, v, x.done)
           /\ \A s, d : [x EXCEPT !.done = d, !.status = s] = Row(s, x, x.evidence, d)
           /\ \A i, v : [x EXCEPT !.done[i] = v] = Row(x.status, x, x.evidence, [x.done EXCEPT ![i] = v])
<1>1. x = Row(x.status, x, x.evidence, x.done)
  BY DEF ExecutionShape, Row
<1>2. \A r, s, v, d : [Row(r, x, v, d) EXCEPT !.status = s] = Row(s, x, v, d)
  BY DEF Row
<1>3. \A r, u, v, d : [Row(r, x, u, d) EXCEPT !.evidence = v] = Row(r, x, v, d)
  BY DEF Row
<1>4. \A r, v, c, d : [Row(r, x, v, c) EXCEPT !.done = d] = Row(r, x, v, d)
  BY DEF Row
<1>5. \A i, v : [x EXCEPT !.done[i] = v] = [x EXCEPT !.done = [x.done EXCEPT ![i] = v]]
  OBVIOUS
<1>8. \A s : [x EXCEPT !.status = s] = Row(s, x, x.evidence, x.done)
  BY <1>1, <1>2
<1>9. ASSUME NEW s, NEW v PROVE [x EXCEPT !.evidence = v, !.status = s] = Row(s, x, v, x.done)
  <2>1. [x EXCEPT !.evidence = v] = Row(x.status, x, v, x.done)
    BY <1>1, <1>3
  <2>2. [x EXCEPT !.evidence = v, !.status = s] = [[x EXCEPT !.evidence = v] EXCEPT !.status = s]
    OBVIOUS
  <2>3. [Row(x.status, x, v, x.done) EXCEPT !.status = s] = Row(s, x, v, x.done)
    BY <1>2
  <2> QED
    BY <2>1, <2>2, <2>3
<1>10. ASSUME NEW s, NEW d PROVE [x EXCEPT !.done = d, !.status = s] = Row(s, x, x.evidence, d)
  <2>1. [x EXCEPT !.done = d] = Row(x.status, x, x.evidence, d)
    BY <1>1, <1>4
  <2>2. [x EXCEPT !.done = d, !.status = s] = [[x EXCEPT !.done = d] EXCEPT !.status = s]
    OBVIOUS
  <2>3. [Row(x.status, x, x.evidence, d) EXCEPT !.status = s] = Row(s, x, x.evidence, d)
    BY <1>2
  <2> QED
    BY <2>1, <2>2, <2>3
<1>11. \A i, v : [x EXCEPT !.done[i] = v] = Row(x.status, x, x.evidence, [x.done EXCEPT ![i] = v])
  BY <1>1, <1>4, <1>5
<1> QED
  BY <1>8, <1>9, <1>10, <1>11

LEMMA RowFields ==
    ASSUME NEW s, NEW x, NEW v, NEW d
    PROVE  LET y == Row(s, x, v, d) IN
           /\ ExecutionShape(y) /\ y # Absent
           /\ y.status = s /\ y.plan = x.plan /\ y.evidence = v /\ y.done = d
<1>1. "plan" \in DOMAIN Row(s, x, v, d) /\ DOMAIN Absent = {"status"}
  BY DEF Row, Absent
<1> QED
  BY <1>1 DEF Row, ExecutionShape

LEMMA RowWritten ==
    ASSUME RowsOK, NEW e \in Executions, NEW y, exec' = [exec EXCEPT ![e] = y]
    PROVE  /\ exec' = [f \in Executions |-> exec'[f]] /\ exec'[e] = y
           /\ \A f \in Executions \ {e} : exec'[f] = exec[f]
BY DEF RowsOK

\* An execution is as it was when its row and entries are, whether or not its call went.
LEMMA ExecutionFrame ==
    ASSUME NEW f \in Executions, ExecutionAt(f), exec'[f] = exec[f], Entries(f)' = Entries(f),
           \A k \in Entries(f) : journal'[k] = journal[k], call'[f] = call[f] \/ call'[f] = Idle
    PROVE  ExecutionAt(f)'
<1>1. Count(f)' = Count(f)
  BY DEF Count
<1>2. CASE exec[f] = Absent
  BY <1>2 DEF ExecutionAt
<1>3. CASE exec[f] # Absent
  <2>1. CallAt(f)'
    BY <1>1, <1>3 DEF ExecutionAt, CallAt
  <2>2. \A k \in Entries(f)' : journal'[k][2] = Cardinality({j \in Entries(f)' : j <= k})
    BY <1>3 DEF ExecutionAt
  <2>3. DoneOf(exec'[f], Count(f)')
    BY <1>1, <1>3 DEF ExecutionAt
  <2> QED
    BY <1>3, <2>1, <2>2, <2>3 DEF ExecutionAt
<1> QED
  BY <1>2, <1>3

LEMMA UndisturbedFrame ==
    ASSUME NEW f \in Executions, ExecutionAt(f), UndisturbedAt(f), exec'[f] = exec[f], Entries(f)' = Entries(f),
           call'[f] = call[f] \/ call'[f] = Idle,
           \/ plant' = plant /\ (f \in disturbed' <=> f \in disturbed)
           \/ exec[f].status = "EXECUTING" => f \in disturbed'
    PROVE  UndisturbedAt(f)'
<1>1. Count(f)' = Count(f)
  BY DEF Count
<1>2. call[f].pc = "drifted" => exec[f].status = "EXECUTING"
  BY DEF ExecutionAt, CallAt, Idle
<1>3. call'[f].pc = "drifted" => call[f].pc = "drifted" /\ call'[f] = call[f]
  BY DEF Idle
<1>4. call'[f].pc = "applying" => call'[f] = call[f]
  BY DEF Idle
<1>5. CASE exec[f].status = "EXECUTING" => f \in disturbed'
  BY <1>2, <1>3, <1>5 DEF UndisturbedAt
<1>6. CASE plant' = plant /\ (f \in disturbed' <=> f \in disturbed)
  <2>1. Foreseen(f) => Foreseen(f)'
    BY <1>1, <1>6 DEF Foreseen
  <2> QED
    BY <1>3, <1>4, <1>6, <2>1 DEF UndisturbedAt
<1> QED
  BY <1>5, <1>6

\* An entry is of an action of the plan of an execution there is.
LEMMA EntryKnown ==
    ASSUME ExecutionInv, NEW k \in DOMAIN journal
    PROVE  LET f == journal[k][1] IN
           /\ k \in Nat /\ f \in Executions /\ k \in Entries(f)
           /\ exec[f] # Absent /\ journal[k][2] \in 1..Len(exec[f].plan) /\ exec[f].plan[journal[k][2]] \in Menu
<1> DEFINE f == journal[k][1]
<1>1. journal \in Seq(Executions \X (1..MaxActions)) /\ k \in 1..Len(journal)
  BY DEF ExecutionInv, RowsOK
<1>2. journal[k] \in Executions \X (1..MaxActions)
  BY <1>1
<1>3. f \in Executions /\ k \in Entries(f)
  BY <1>2 DEF Entries
<1> HIDE DEF f
<1>4. ExecutionAt(f)
  BY <1>3 DEF ExecutionInv
<1>5. exec[f] # Absent
  BY <1>3, <1>4 DEF ExecutionAt
<1>6. IsFiniteSet(Entries(f)) /\ Entries(f) \subseteq 1..Len(journal)
  <2>1. Entries(f) \subseteq 1..Len(journal) /\ IsFiniteSet(1..Len(journal))
    <3>1. Len(journal) \in Int /\ DOMAIN journal = 1..Len(journal) /\ 1 \in Int
      BY <1>1
    <3> QED
      BY <3>1, FS_Interval DEF Entries
  <2> QED
    BY <2>1, FS_Subset
<1> DEFINE upto == {j \in Entries(f) : j <= k}
<1>7. journal[k][2] = Cardinality(upto)
  BY <1>3, <1>4, <1>5 DEF ExecutionAt
<1>8. Cardinality(upto) \in 1..Count(f)
  <2>1. upto \subseteq Entries(f) /\ k \in upto
    BY <1>1, <1>3, <1>6
  <2>2. Cardinality(upto) \in Nat /\ Cardinality(upto) <= Cardinality(Entries(f)) /\ Cardinality(Entries(f)) \in Nat
    BY <1>6, <2>1, FS_Subset, FS_CardinalityType
  <2>3. Cardinality(upto) # 0
    BY <1>6, <2>1, FS_Subset, FS_EmptySet
  <2> QED
    BY <2>2, <2>3 DEF Count
<1>9. exec[f].plan \in Plan /\ DoneOf(exec[f], Count(f)) /\ Count(f) \in Nat
  BY <1>4, <1>5, <1>6, FS_CardinalityType DEF ExecutionAt, Count
<1>10. exec[f].plan \in Seq(Menu) /\ Len(exec[f].plan) \in Nat
  BY <1>9, PlanIsSeq
<1>11. exec[f].status \in Terminal \cup BeforeApproval \cup {"APPROVED", "EXECUTING"}
  BY <1>4, <1>5 DEF ExecutionAt
<1>12. Count(f) <= Len(exec[f].plan)
  <2> DEFINE n == Len(exec[f].plan)
             c == Count(f)
  <2>1. exec[f].status \in BeforeApproval \cup {"APPROVED", "CANCELLED", "FAILED"} => c = 0
    BY <1>9 DEF DoneOf, BeforeApproval
  <2>2. exec[f].status = "EXECUTING" => c <= n
    BY <1>9 DEF DoneOf, BeforeApproval
  <2>3. exec[f].status = "SUCCEEDED" => c = n
    BY <1>9 DEF DoneOf, BeforeApproval
  <2>4. exec[f].status = "PARTIAL_FAILED" => c \in 1..n - 1
    BY <1>9 DEF DoneOf, BeforeApproval
  <2> HIDE DEF n, c
  <2>5. n \in Nat /\ c \in Nat /\ c <= n
    BY <1>9, <1>10, <1>11, <2>1, <2>2, <2>3, <2>4 DEF Terminal, n, c
  <2> QED
    BY <2>5 DEF n, c
<1>13. journal[k][2] \in 1..Len(exec[f].plan)
  BY <1>7, <1>8, <1>9, <1>10, <1>12
<1> QED
  BY <1>1, <1>3, <1>5, <1>10, <1>13 DEF f

OvertimeOf == [k \in DOMAIN journal |->
    LET a == exec[journal[k][1]].plan[journal[k][2]] IN IF a.type = "ADD_OVERTIME_CAPACITY" THEN a.value ELSE 0]

LEMMA OvertimeFrame ==
    ASSUME ExecutionInv, UNCHANGED journal, plant'.overtime = plant.overtime,
           \A f \in Executions : exec[f] # Absent => exec'[f].plan = exec[f].plan
    PROVE  OvertimeWithinDay'
<1>1. ASSUME NEW k \in DOMAIN journal PROVE exec'[journal[k][1]].plan = exec[journal[k][1]].plan
  BY EntryKnown
<1>2. OvertimeOf' = OvertimeOf
  BY <1>1 DEF OvertimeOf
<1>3. OvertimeWithinDay <=> plant.overtime = SumFunctionOnSet(OvertimeOf, DOMAIN journal) /\ plant.overtime <= MaxClock
  BY DEF OvertimeWithinDay, OvertimeOf
<1>4. OvertimeWithinDay' <=> plant'.overtime = SumFunctionOnSet(OvertimeOf', DOMAIN journal) /\ plant'.overtime <= MaxClock
  BY DEF OvertimeWithinDay, OvertimeOf
<1> QED
  BY <1>2, <1>3, <1>4 DEF ExecutionInv

\* A step of one execution that leaves plant and journal alone has to be looked at for this execution only.
LEMMA OneMoves ==
    ASSUME ExecutionInv, NEW e \in Executions, UNCHANGED <<plant, journal, moves>>,
           \/ disturbed' = disturbed
           \/ disturbed' = disturbed \ {e},
           exec' = [f \in Executions |-> exec'[f]], call' \in [Executions -> Call],
           \A f \in Executions \ {e} : exec'[f] = exec[f] /\ call'[f] = call[f],
           exec[e] # Absent => exec'[e].plan = exec[e].plan,
           call'[e].pc = "applying" =>
               call'[e].seen = plant \/ (exec'[e] = exec[e] /\ call'[e] = call[e]),
           ExecutionAt(e)', UndisturbedAt(e)'
    PROVE  ExecutionInv'
<1>1. RowsOK'
  BY DEF ExecutionInv, RowsOK
<1>2. \A f \in Executions : Entries(f)' = Entries(f) /\ \A k \in Entries(f) : journal'[k] = journal[k]
  BY DEF Entries
<1>3. ASSUME NEW f \in Executions PROVE ExecutionAt(f)' /\ UndisturbedAt(f)'
  <2>1. CASE f = e
    BY <2>1
  <2>2. CASE f # e
    <3>1. ExecutionAt(f) /\ UndisturbedAt(f)
      BY DEF ExecutionInv
    <3>2. exec'[f] = exec[f] /\ call'[f] = call[f] /\ (f \in disturbed' <=> f \in disturbed)
      BY <2>2
    <3>3. ExecutionAt(f)'
      BY <1>2, <3>1, <3>2, ExecutionFrame
    <3>4. UndisturbedAt(f)'
      BY <1>2, <3>1, <3>2, UndisturbedFrame
    <3> QED
      BY <3>3, <3>4
  <2> QED
    BY <2>1, <2>2
<1>4. OvertimeSeen'
  <2> SUFFICES ASSUME NEW f \in Executions, call'[f].pc = "applying", AddsOvertime(exec'[f].plan[call'[f].at])
               PROVE  call'[f].seen.overtime = plant.overtime
    BY DEF OvertimeSeen, AddsOvertime
  <2>1. CASE exec'[f] = exec[f] /\ call'[f] = call[f]
    BY <2>1 DEF ExecutionInv, OvertimeSeen
  <2>2. CASE ~(exec'[f] = exec[f] /\ call'[f] = call[f])
    <3>1. f = e
      BY <2>2
    <3> QED
      BY <2>2, <3>1
  <2> QED
    BY <2>1, <2>2
<1>5. OvertimeWithinDay'
  <2>1. \A f \in Executions : exec[f] # Absent => exec'[f].plan = exec[f].plan
    OBVIOUS
  <2> QED
    BY <2>1, OvertimeFrame
<1> QED
  BY <1>1, <1>3, <1>4, <1>5 DEF ExecutionInv

LEMMA CountType == ASSUME RowsOK, NEW e \in Executions PROVE IsFiniteSet(Entries(e)) /\ Count(e) \in Nat /\ Entries(e) \subseteq 1..Len(journal)
<1>1. Len(journal) \in Int /\ DOMAIN journal = 1..Len(journal) /\ 1 \in Int
  BY DEF RowsOK
<1>2. IsFiniteSet(1..Len(journal)) /\ Entries(e) \subseteq 1..Len(journal)
  BY <1>1, FS_Interval DEF Entries
<1> QED
  BY <1>2, FS_Subset, FS_CardinalityType DEF Count

\* The row an execution gets fits what it has done.
LEMMA RowAt ==
    ASSUME ExecutionInv, NEW e \in Executions, exec[e] # Absent, UNCHANGED journal,
           NEW s \in Terminal \cup BeforeApproval \cup {"APPROVED", "EXECUTING"}, NEW v,
           NEW d \in [1..Len(exec[e].plan) -> ActionStatus],
           exec'[e] = Row(s, exec[e], v, d),
           DoneOf(Row(s, exec[e], v, d), Count(e)), CallAt(e)',
           s \in {"PREFLIGHT_PASSED", "APPROVED", "EXECUTING"} =>
               DOMAIN v = 1..Len(exec[e].plan) /\ AllReady(v)
    PROVE  ExecutionAt(e)'
<1>1. Entries(e)' = Entries(e) /\ Count(e)' = Count(e)
  BY DEF Entries, Count
<1> DEFINE y == Row(s, exec[e], v, d)
<1>2. ExecutionShape(y) /\ y # Absent /\ y.status = s /\ y.plan = exec[e].plan /\ y.evidence = v /\ y.done = d
  BY RowFields
<1> HIDE DEF y
<1>3. ExecutionAt(e)
  BY DEF ExecutionInv
<1>4. exec'[e] = y /\ DoneOf(y, Count(e))
  BY DEF y
<1> QED
  BY <1>1, <1>2, <1>3, <1>4 DEF ExecutionAt

-----------------------------------------------------------------------------
(* Before and after the work.                                              *)

LEMMA PrepareKeeps ==
    ASSUME ScenarioInv, ExecutionInv, NEW e \in Executions, NEW u \in Users, Prepare(e, u)
    PROVE  ExecutionInv'
<1> DEFINE d == [i \in DOMAIN actions |-> "PENDING"]
           y == [status |-> "PREPARED", preparer |-> u, plan |-> actions, evidence |-> <<>>, done |-> d]
<1>1. actions \in Plan /\ DOMAIN actions = 1..Len(actions)
  BY PlanIsSeq DEF ScenarioInv, ScenarioTypeOK
<1>2. exec' = [f \in Executions |-> exec'[f]] /\ exec'[e] = y /\ \A f \in Executions \ {e} : exec'[f] = exec[f]
  BY RowWritten DEF ExecutionInv, Prepare
<1>3. Entries(e) = {} /\ call[e] = Idle
  BY DEF ExecutionInv, ExecutionAt, Prepare
<1>4. Entries(e)' = {} /\ Count(e)' = 0
  BY <1>3, FS_EmptySet DEF Prepare, Entries, Count
<1>5. ExecutionShape(y) /\ y # Absent
  <2>1. "plan" \in DOMAIN y /\ DOMAIN Absent = {"status"}
    BY DEF Absent
  <2> QED
    BY <2>1 DEF ExecutionShape
<1>6. d \in [1..Len(actions) -> ActionStatus] /\ DoneOf(y, 0)
  BY <1>1 DEF ActionStatus, DoneOf, BeforeApproval
<1>7. y.status = "PREPARED" /\ y.plan = actions /\ y.done = d
  OBVIOUS
<1>8. call'[e] = Idle
  BY <1>3 DEF Prepare
<1> HIDE DEF y
<1>9. ExecutionAt(e)'
  <2>1. CallAt(e)'
    BY <1>8 DEF CallAt
  <2> QED
    BY <1>1, <1>2, <1>4, <1>5, <1>6, <1>7, <2>1 DEF ExecutionAt, BeforeApproval
<1>10. UndisturbedAt(e)'
  BY <1>2, <1>7, <1>8 DEF UndisturbedAt, Idle
<1>11. call' \in [Executions -> Call] /\ call'[e].pc # "applying"
  BY <1>8 DEF Prepare, ExecutionInv, RowsOK, Idle
<1>12. UNCHANGED <<plant, journal, call, moves, disturbed>> /\ exec[e] = Absent
  BY DEF Prepare
<1> QED
  BY <1>2, <1>9, <1>10, <1>11, <1>12, OneMoves

\* What has been done does not depend on why it is nothing.
LEMMA NothingDone ==
    ASSUME NEW x, x.status \in BeforeApproval \cup {"APPROVED", "CANCELLED"}, NEW k \in Nat, DoneOf(x, k),
           NEW s \in BeforeApproval \cup {"APPROVED", "CANCELLED", "EXECUTING"}, NEW v,
           Len(x.plan) \in Nat
    PROVE  k = 0 /\ DoneOf(Row(s, x, v, x.done), 0)
<1> DEFINE n == Len(x.plan)
           y == Row(s, x, v, x.done)
<1>1. k = 0 /\ \A i \in 1..n : x.done[i] = "PENDING"
  BY DEF DoneOf
<1>2. y.status = s /\ y.plan = x.plan /\ y.done = x.done
  BY RowFields
<1> HIDE DEF y
<1>3. ASSUME s # "EXECUTING" PROVE DoneOf(y, 0)
  BY <1>1, <1>2, <1>3 DEF DoneOf, BeforeApproval
<1>4. ASSUME s = "EXECUTING" PROVE DoneOf(y, 0)
  BY <1>1, <1>2, <1>4 DEF DoneOf, BeforeApproval, UpTo
<1> QED
  BY <1>1, <1>3, <1>4 DEF y

\* An execution that has not started has nothing at work; a step that writes its row and starts nothing is kept.
LEMMA DecisionKeeps ==
    ASSUME ExecutionInv, NEW e \in Executions, exec[e].status \in BeforeApproval \cup {"APPROVED"},
           NEW s \in BeforeApproval \cup {"APPROVED", "CANCELLED"}, NEW v,
           exec' = [exec EXCEPT ![e] = Row(s, exec[e], v, exec[e].done)],
           s \in {"PREFLIGHT_PASSED", "APPROVED"} => DOMAIN v = 1..Len(exec[e].plan) /\ AllReady(v),
           UNCHANGED <<plant, journal, call, moves, disturbed>>
    PROVE  ExecutionInv'
<1> DEFINE x == exec[e]
           y == Row(s, x, v, x.done)
<1>1. x # Absent /\ RowsOK
  BY DEF Absent, BeforeApproval, ExecutionInv
<1>2. ExecutionAt(e) /\ x.plan \in Plan /\ x.done \in [1..Len(x.plan) -> ActionStatus] /\ DoneOf(x, Count(e)) /\ CallAt(e)
  BY <1>1 DEF ExecutionInv, ExecutionAt
<1>3. call[e] = Idle
  BY <1>2 DEF CallAt, BeforeApproval
<1>4. y.status = s /\ y.plan = x.plan
  BY RowFields
<1>5. exec' = [f \in Executions |-> exec'[f]] /\ exec'[e] = y /\ \A f \in Executions \ {e} : exec'[f] = exec[f]
  BY <1>1, RowWritten
<1>6. DoneOf(y, Count(e))
  <2>1. Count(e) \in Nat /\ Len(x.plan) \in Nat
    BY <1>1, <1>2, CountType, PlanIsSeq
  <2>2. x.status \in BeforeApproval \cup {"APPROVED", "CANCELLED"} /\ s \in BeforeApproval \cup {"APPROVED", "CANCELLED", "EXECUTING"}
    OBVIOUS
  <2> HIDE DEF x, y
  <2> QED
    BY <1>2, <2>1, <2>2, NothingDone DEF y
<1>7. CallAt(e)'
  BY <1>3 DEF CallAt
<1>8. ExecutionAt(e)'
  <2>1. s \in Terminal \cup BeforeApproval \cup {"APPROVED", "EXECUTING"} /\ s # "EXECUTING"
    BY DEF Terminal, BeforeApproval
  <2> QED
    BY <1>1, <1>2, <1>5, <1>6, <1>7, <2>1, RowAt
<1> HIDE DEF y
<1>9. UndisturbedAt(e)'
  BY <1>3, <1>4, <1>5 DEF UndisturbedAt, Idle, BeforeApproval
<1> QED
  BY <1>1, <1>3, <1>4, <1>5, <1>8, <1>9, OneMoves DEF RowsOK, Idle

LEMMA RunPreflightKeeps == ASSUME ExecutionInv, NEW e \in Executions, RunPreflight(e) PROVE ExecutionInv'
<1> DEFINE found == Simulated(plant, exec[e].plan)
           s == IF AllReady(found) THEN "PREFLIGHT_PASSED" ELSE "PREFLIGHT_BLOCKED"
<1>1. exec[e] # Absent /\ exec[e].status \in BeforeApproval
  BY DEF RunPreflight, Absent, BeforeApproval
<1>2. ExecutionShape(exec[e]) /\ exec[e].plan \in Plan
  BY <1>1 DEF ExecutionInv, ExecutionAt
<1>3. DOMAIN found = 1..Len(exec[e].plan)
  BY <1>2, PlanIsSeq DEF Simulated
<1>4. exec' = [exec EXCEPT ![e] = [exec[e] EXCEPT !.evidence = found, !.status = s]]
  BY DEF RunPreflight
<1> HIDE DEF found
<1>5. s \in BeforeApproval /\ (s = "PREFLIGHT_PASSED" => AllReady(found))
  BY DEF BeforeApproval
<1>6. s # "APPROVED"
  OBVIOUS
<1> HIDE DEF s
<1>7. exec' = [exec EXCEPT ![e] = Row(s, exec[e], found, exec[e].done)]
  <2>1. [exec[e] EXCEPT !.evidence = found, !.status = s] = Row(s, exec[e], found, exec[e].done)
    BY <1>2, RowUpdates
  <2> QED
    BY <1>4, <2>1
<1> QED
  BY <1>1, <1>3, <1>5, <1>6, <1>7, DecisionKeeps DEF RunPreflight

LEMMA ApproveKeeps == ASSUME ExecutionInv, NEW e \in Executions, NEW u, Approve(e, u) PROVE ExecutionInv'
<1>1. exec[e] # Absent /\ exec[e].status = "PREFLIGHT_PASSED"
  BY DEF Approve, Absent
<1>2. ExecutionShape(exec[e]) /\ DOMAIN exec[e].evidence = 1..Len(exec[e].plan) /\ AllReady(exec[e].evidence)
  BY <1>1 DEF ExecutionInv, ExecutionAt
<1>3. exec' = [exec EXCEPT ![e] = Row("APPROVED", exec[e], exec[e].evidence, exec[e].done)]
  BY <1>2, RowUpdates DEF Approve
<1> QED
  BY <1>1, <1>2, <1>3, DecisionKeeps DEF Approve, BeforeApproval

LEMMA CancelKeeps == ASSUME ExecutionInv, NEW e \in Executions, Cancel(e) PROVE ExecutionInv'
<1>1. exec[e] # Absent /\ exec[e].status \in BeforeApproval \cup {"APPROVED"}
  BY DEF Cancel, Absent, BeforeApproval
<1>2. ExecutionShape(exec[e])
  BY <1>1 DEF ExecutionInv, ExecutionAt
<1>3. exec' = [exec EXCEPT ![e] = Row("CANCELLED", exec[e], exec[e].evidence, exec[e].done)]
  BY <1>2, RowUpdates DEF Cancel
<1> QED
  BY <1>1, <1>3, DecisionKeeps DEF Cancel

-----------------------------------------------------------------------------
(* At work.                                                                *)

LEMMA AtWork ==
    ASSUME ExecutionInv, NEW e \in Executions, exec[e].status = "EXECUTING"
    PROVE  LET x == exec[e] IN
           /\ x # Absent /\ ExecutionShape(x) /\ Count(e) \in Nat /\ Count(e) <= Len(x.plan)
           /\ x.plan \in Seq(Menu) /\ Len(x.plan) \in 0..MaxActions /\ MaxActions \in Nat
           /\ x.done \in [1..Len(x.plan) -> ActionStatus]
           /\ \A i \in 1..Len(x.plan) : x.done[i] = UpTo(Count(e), i)
           /\ DOMAIN x.evidence = 1..Len(x.plan) /\ AllReady(x.evidence)
           /\ call[e] # Idle => call[e].at = Count(e) + 1 /\ (call[e].pc # "next" => Count(e) < Len(x.plan))
<1>1. exec[e] # Absent
  BY DEF Absent
<1>2. ExecutionAt(e) /\ RowsOK
  BY DEF ExecutionInv
<1>3. MaxActions \in Nat
  BY RecoveryScenariosAssumption DEF RecoveryScenariosAssumption
<1>4. exec[e].plan \in Plan /\ DoneOf(exec[e], Count(e)) /\ CallAt(e)
  BY <1>1, <1>2 DEF ExecutionAt
<1>5. exec[e].plan \in Seq(Menu) /\ Len(exec[e].plan) \in 0..MaxActions
  BY <1>4, PlanIsSeq
<1> QED
  BY <1>1, <1>2, <1>3, <1>4, <1>5, CountType DEF ExecutionAt, DoneOf, CallAt

\* What has begun runs only while its execution is EXECUTING.
LEMMA CallRuns == ASSUME ExecutionInv, NEW e \in Executions, call[e] # Idle PROVE exec[e].status = "EXECUTING"
BY DEF ExecutionInv, ExecutionAt, CallAt

LEMMA CallMoves ==
    ASSUME ExecutionInv, NEW e \in Executions, NEW c \in Call, call' = [call EXCEPT ![e] = c],
           UNCHANGED <<exec, plant, journal, moves, disturbed>>,
           c # Idle => /\ exec[e].status = "EXECUTING" /\ c.at = Count(e) + 1
                       /\ c.pc # "next" => Count(e) < Len(exec[e].plan),
           c.pc = "applying" => c.seen = plant,
           c.pc = "drifted" => e \in disturbed
    PROVE  ExecutionInv'
<1>1. Entries(e)' = Entries(e) /\ Count(e)' = Count(e) /\ ExecutionAt(e) /\ UndisturbedAt(e)
  BY DEF Entries, Count, ExecutionInv
<1>2. call' \in [Executions -> Call] /\ call'[e] = c /\ \A f \in Executions \ {e} : call'[f] = call[f]
  BY DEF ExecutionInv, RowsOK
<1>3. exec' = [f \in Executions |-> exec'[f]]
  BY DEF ExecutionInv, RowsOK
<1>4. ExecutionAt(e)'
  <2>1. CASE c = Idle
    BY <1>1, <1>2, <2>1, ExecutionFrame
  <2>2. CASE c # Idle
    <3>1. exec[e] # Absent
      BY <2>2 DEF Absent
    <3>2. CallAt(e)'
      BY <1>1, <1>2 DEF CallAt
    <3> QED
      BY <1>1, <3>1, <3>2 DEF ExecutionAt
  <2> QED
    BY <2>1, <2>2
<1>5. UndisturbedAt(e)'
  <2>1. Foreseen(e) => Foreseen(e)'
    BY <1>1 DEF Foreseen
  <2> QED
    BY <1>1, <1>2, <2>1 DEF UndisturbedAt
<1> QED
  BY <1>2, <1>3, <1>4, <1>5, OneMoves

LEMMA InterruptKeeps == ASSUME ExecutionInv, NEW e \in Executions, Interrupt(e) PROVE ExecutionInv'
<1>1. Idle \in Call /\ Idle.pc = "idle"
  BY DEF Call, Idle
<1> QED
  BY <1>1, CallMoves DEF Interrupt

LEMMA ActionBreaksKeeps == ASSUME ExecutionInv, NEW e \in Executions, ActionBreaks(e) PROVE ExecutionInv'
<1> DEFINE c == [pc |-> "broken", at |-> call[e].at]
<1>1. call[e] # Idle
  BY DEF ActionBreaks, Idle
<1>2. exec[e].status = "EXECUTING" /\ call[e].at = Count(e) + 1 /\ Count(e) < Len(exec[e].plan)
  BY <1>1, CallRuns, AtWork DEF ActionBreaks
<1>3. Count(e) \in Nat /\ Len(exec[e].plan) \in 0..MaxActions /\ MaxActions \in Nat
  BY <1>2, AtWork
<1>4. c \in Call /\ call' = [call EXCEPT ![e] = c]
  BY <1>2, <1>3 DEF ActionBreaks, Call
<1> QED
  BY <1>2, <1>4, CallMoves DEF ActionBreaks

\* It finds drift only if somebody else made it.
LEMMA FindDriftKeeps == ASSUME ExecutionInv, NEW e \in Executions, FindDrift(e) PROVE ExecutionInv'
<1> DEFINE c == [pc |-> "drifted", at |-> call[e].at]
           k == Count(e)
           x == exec[e]
<1>1. call[e] # Idle /\ call[e].pc = "applying"
  BY DEF FindDrift, Idle
<1>2. exec[e].status = "EXECUTING" /\ call[e].at = Count(e) + 1 /\ Count(e) < Len(exec[e].plan)
  BY <1>1, CallRuns, AtWork
<1>3. Count(e) \in Nat /\ Len(exec[e].plan) \in 0..MaxActions /\ MaxActions \in Nat /\ x.plan \in Seq(Menu)
  BY <1>2, AtWork
<1>4. c \in Call /\ call' = [call EXCEPT ![e] = c]
  BY <1>2, <1>3 DEF FindDrift, Call
<1>5. e \in disturbed
  <2> SUFFICES ASSUME e \notin disturbed PROVE FALSE
    OBVIOUS
  <2>1. Foreseen(e) /\ call[e].seen = plant
    BY <1>1, <1>2 DEF ExecutionInv, UndisturbedAt
  <2>2. PICK p : x.evidence = Simulated(p, x.plan) /\ plant = AfterActions(p, x.plan)[k]
    BY <2>1 DEF Foreseen
  <2>3. k + 1 \in DOMAIN x.plan /\ (k + 1) - 1 = k
    BY <1>2, <1>3
  <2>4. Simulated(p, x.plan)[k + 1] = Preflight(AfterActions(p, x.plan)[k], x.plan[k + 1])
    BY <2>3 DEF Simulated
  <2>5. AsApproved(e)
    BY <1>2, <2>1, <2>2, <2>4 DEF AsApproved
  <2> QED
    BY <2>5 DEF FindDrift
<1> QED
  BY <1>2, <1>4, <1>5, CallMoves DEF FindDrift

LEMMA BeginActionKeeps == ASSUME ExecutionInv, NEW e \in Executions, BeginAction(e) PROVE ExecutionInv'
<1> DEFINE c == [pc |-> "applying", at |-> call[e].at, seen |-> plant]
<1>1. call[e] # Idle
  BY DEF BeginAction, Idle
<1>2. exec[e].status = "EXECUTING" /\ call[e].at = Count(e) + 1
  BY <1>1, CallRuns, AtWork
<1>3. Count(e) \in Nat /\ Len(exec[e].plan) \in 0..MaxActions /\ MaxActions \in Nat
  BY <1>2, AtWork
<1>4. Count(e) < Len(exec[e].plan)
  BY <1>2, <1>3 DEF BeginAction
<1>5. plant \in Plant /\ call[e].at \in 1..MaxActions
  BY <1>2, <1>3, <1>4 DEF ExecutionInv, RowsOK
<1>6. c \in Call
  BY <1>5 DEF Call
<1>7. call' = [call EXCEPT ![e] = c]
  BY DEF BeginAction
<1> QED
  BY <1>2, <1>4, <1>6, <1>7, CallMoves DEF BeginAction

\* The first action not done is the one after those that are.
LEMMA NextPendingIs ==
    ASSUME ExecutionInv, NEW e \in Executions, exec[e].status = "EXECUTING"
    PROVE  NextPending(e) = Count(e) + 1
<1> DEFINE n == Len(exec[e].plan)
           k == Count(e)
           done == exec[e].done
           P(i) == (i > n \/ done[i] = "PENDING") /\ \A j \in 1..i - 1 : done[j] = "SUCCEEDED"
<1>1. n \in Nat /\ k \in Nat /\ k <= n /\ \A i \in 1..n : done[i] = UpTo(k, i)
  BY AtWork
<1> HIDE DEF n, k, done
<1>2. k + 1 \in 1..n + 1 /\ P(k + 1)
  BY <1>1 DEF UpTo
<1>3. \A i \in 1..n + 1 : P(i) => i = k + 1
  <2> SUFFICES ASSUME NEW i \in 1..n + 1, P(i) PROVE i = k + 1
    OBVIOUS
  <2>1. CASE i <= k
    BY <1>1, <2>1 DEF UpTo
  <2>2. CASE i > k + 1
    <3>1. k + 1 \in 1..i - 1 /\ k + 1 \in 1..n
      BY <1>1, <2>2
    <3>2. done[k + 1] = "PENDING"
      BY <1>1, <3>1 DEF UpTo
    <3> QED
      BY <3>1, <3>2
  <2> QED
    BY <1>1, <2>1, <2>2
<1>4. (CHOOSE i \in 1..n + 1 : P(i)) = k + 1
  BY <1>2, <1>3
<1> QED
  BY <1>4 DEF NextPending, n, k, done

LEMMA ResumeKeeps == ASSUME ExecutionInv, NEW e \in Executions, ResumeExecution(e) PROVE ExecutionInv'
<1> DEFINE c == [pc |-> "next", at |-> Count(e) + 1]
<1>1. exec[e].status = "EXECUTING"
  BY DEF ResumeExecution
<1>2. NextPending(e) = Count(e) + 1
  BY <1>1, NextPendingIs
<1>3. Count(e) \in Nat /\ Len(exec[e].plan) \in 0..MaxActions /\ MaxActions \in Nat /\ Count(e) <= Len(exec[e].plan)
  BY <1>1, AtWork
<1>4. c \in Call
  BY <1>3 DEF Call
<1>5. call' = [call EXCEPT ![e] = c]
  BY <1>2 DEF ResumeExecution
<1> QED
  BY <1>1, <1>4, <1>5, CallMoves DEF ResumeExecution

LEMMA StartKeeps == ASSUME ExecutionInv, NEW e \in Executions, StartExecution(e) PROVE ExecutionInv'
<1> DEFINE x == exec[e]
           y == Row("EXECUTING", x, x.evidence, x.done)
           c == [pc |-> "next", at |-> 1]
<1>1. x # Absent /\ RowsOK /\ ExecutionAt(e) /\ x.status = "APPROVED"
  BY DEF Absent, ExecutionInv, StartExecution
<1>2. ExecutionShape(x) /\ x.plan \in Plan /\ x.done \in [1..Len(x.plan) -> ActionStatus] /\ DoneOf(x, Count(e))
      /\ DOMAIN x.evidence = 1..Len(x.plan) /\ AllReady(x.evidence)
  BY <1>1 DEF ExecutionAt
<1>3. y.status = "EXECUTING" /\ y.plan = x.plan /\ y.evidence = x.evidence
  BY RowFields
<1>4. exec' = [f \in Executions |-> exec'[f]] /\ exec'[e] = y /\ \A f \in Executions \ {e} : exec'[f] = exec[f]
  <2>1. exec' = [exec EXCEPT ![e] = y]
    BY <1>2, RowUpdates DEF StartExecution
  <2> QED
    BY <1>1, <2>1, RowWritten
<1>5. Count(e) = 0 /\ DoneOf(y, 0)
  <2>1. Count(e) \in Nat /\ Len(x.plan) \in Nat
    BY <1>1, <1>2, CountType, PlanIsSeq
  <2>2. x.status \in BeforeApproval \cup {"APPROVED", "CANCELLED"}
    BY <1>1
  <2> HIDE DEF x, y
  <2> QED
    BY <1>2, <2>1, <2>2, NothingDone DEF y
<1>6. c \in Call
  BY RecoveryScenariosAssumption DEF RecoveryScenariosAssumption, Call
<1>7. call' \in [Executions -> Call] /\ call'[e] = c /\ \A f \in Executions \ {e} : call'[f] = call[f]
  BY <1>1, <1>6 DEF StartExecution, RowsOK
<1>8. Entries(e)' = Entries(e) /\ Count(e)' = Count(e)
  BY DEF StartExecution, Entries, Count
<1> HIDE DEF y
<1>9. CallAt(e)'
  BY <1>3, <1>4, <1>5, <1>7, <1>8 DEF CallAt
<1>10. ExecutionAt(e)'
  <2>1. "EXECUTING" \in Terminal \cup BeforeApproval \cup {"APPROVED", "EXECUTING"} /\ UNCHANGED journal
    BY DEF StartExecution
  <2> QED
    BY <1>1, <1>2, <1>4, <1>5, <1>9, <2>1, RowAt DEF y
<1>11. UndisturbedAt(e)'
  <2>1. x.plan \in Seq(Menu)
    BY <1>2, PlanIsSeq
  <2>2. x.evidence = Simulated(plant, x.plan) /\ plant = AfterActions(plant, x.plan)[0]
    BY <2>1, AfterStep DEF StartExecution
  <2>3. plant' = plant
    BY DEF StartExecution
  <2>4. Foreseen(e)'
    BY <1>3, <1>4, <1>5, <1>8, <2>2, <2>3 DEF Foreseen
  <2> QED
    BY <1>7, <2>4 DEF UndisturbedAt
<1>12. UNCHANGED <<plant, journal, moves, disturbed>> /\ call'[e].pc # "applying"
  BY <1>7 DEF StartExecution
<1> QED
  BY <1>3, <1>4, <1>7, <1>10, <1>11, <1>12, OneMoves

LEMMA FinalizeKeeps == ASSUME ExecutionInv, NEW e \in Executions, FinalizeExecutionSuccess(e) PROVE ExecutionInv'
<1> DEFINE x == exec[e]
           y == Row("SUCCEEDED", x, x.evidence, x.done)
<1>1. x.status = "EXECUTING" /\ call[e] # Idle /\ RowsOK
  BY DEF FinalizeExecutionSuccess, Idle, ExecutionInv
<1>2. x # Absent /\ ExecutionShape(x) /\ Count(e) \in Nat /\ Count(e) <= Len(x.plan) /\ Len(x.plan) \in Nat
      /\ x.done \in [1..Len(x.plan) -> ActionStatus] /\ call[e].at = Count(e) + 1
      /\ \A i \in 1..Len(x.plan) : x.done[i] = UpTo(Count(e), i)
  BY <1>1, AtWork
<1>3. Count(e) = Len(x.plan)
  BY <1>2 DEF FinalizeExecutionSuccess
<1>4. y.status = "SUCCEEDED" /\ y.plan = x.plan /\ y.done = x.done
  BY RowFields
<1>5. exec' = [f \in Executions |-> exec'[f]] /\ exec'[e] = y /\ \A f \in Executions \ {e} : exec'[f] = exec[f]
  <2>1. exec' = [exec EXCEPT ![e] = y]
    BY <1>2, RowUpdates DEF FinalizeExecutionSuccess
  <2> QED
    BY <1>1, <2>1, RowWritten
<1> HIDE DEF y
<1>6. DoneOf(y, Count(e))
  BY <1>2, <1>3, <1>4 DEF DoneOf, BeforeApproval, UpTo
<1>7. call' \in [Executions -> Call] /\ call'[e] = Idle /\ \A f \in Executions \ {e} : call'[f] = call[f]
  BY <1>1 DEF FinalizeExecutionSuccess, RowsOK, Call
<1>8. ExecutionAt(e)'
  <2>1. "SUCCEEDED" \in Terminal \cup BeforeApproval \cup {"APPROVED", "EXECUTING"} /\ UNCHANGED journal
    BY DEF FinalizeExecutionSuccess, Terminal
  <2>2. CallAt(e)'
    BY <1>7 DEF CallAt
  <2> QED
    BY <1>1, <1>2, <1>5, <1>6, <2>1, <2>2, RowAt DEF y
<1>9. UndisturbedAt(e)'
  BY <1>4, <1>5, <1>7 DEF UndisturbedAt, Idle
<1>10. UNCHANGED <<plant, journal, moves>> /\ disturbed' = disturbed \ {e} /\ call'[e].pc # "applying"
  BY <1>7 DEF FinalizeExecutionSuccess, Idle
<1> QED
  BY <1>4, <1>5, <1>7, <1>8, <1>9, <1>10, OneMoves

\* After a failure nothing is pending: what was done stays, the rest is skipped.
LEMMA MarkFailureKeeps == ASSUME ExecutionInv, NEW e \in Executions, MarkExecutionFailure(e) PROVE ExecutionInv'
<1> DEFINE x == exec[e]
           k == Count(e)
           n == Len(x.plan)
           d == FailedAt(x.done, call[e].at)
           s == IF \E i \in DOMAIN d : d[i] = "SUCCEEDED" THEN "PARTIAL_FAILED" ELSE "FAILED"
           y == Row(s, x, x.evidence, d)
<1>1. call[e] # Idle /\ RowsOK
  BY DEF MarkExecutionFailure, Idle, ExecutionInv
<1>2. x # Absent /\ ExecutionShape(x) /\ k \in Nat /\ k < n /\ n \in Nat
      /\ x.done \in [1..n -> ActionStatus] /\ call[e].at = k + 1
      /\ \A i \in 1..n : x.done[i] = UpTo(k, i)
  BY <1>1, CallRuns, AtWork DEF MarkExecutionFailure
<1>3. DOMAIN d = 1..n /\ \A i \in 1..n : d[i] = UpToFailed(k, i)
  BY <1>2 DEF FailedAt, UpTo, UpToFailed
<1>4. d = [i \in 1..n |-> d[i]]
  BY <1>2 DEF FailedAt
<1> HIDE DEF d
<1>5. s = IF k > 0 THEN "PARTIAL_FAILED" ELSE "FAILED"
  <2>1. (\E i \in DOMAIN d : d[i] = "SUCCEEDED") <=> k > 0
    <3>1. ASSUME k > 0 PROVE 1 \in DOMAIN d /\ d[1] = "SUCCEEDED"
      BY <1>2, <1>3, <3>1 DEF UpToFailed
    <3>2. ASSUME NEW i \in DOMAIN d, d[i] = "SUCCEEDED" PROVE k > 0
      BY <1>2, <1>3, <3>2 DEF UpToFailed
    <3> QED
      BY <3>1, <3>2
  <2> QED
    BY <2>1
<1>6. exec' = [exec EXCEPT ![e] = y]
  <2>1. exec' = [exec EXCEPT ![e] = [x EXCEPT !.done = d, !.status = s]]
    BY DEF MarkExecutionFailure, d
  <2>2. [x EXCEPT !.done = d, !.status = s] = y
    <3>1. ExecutionShape(x)
      BY <1>2
    <3>2. \A u, v : [x EXCEPT !.done = v, !.status = u] = Row(u, x, x.evidence, v)
      BY <3>1, RowUpdates
    <3> HIDE DEF s, x
    <3>3. [x EXCEPT !.done = d, !.status = s] = Row(s, x, x.evidence, d)
      BY <3>2
    <3> QED
      BY <3>3
  <2> QED
    BY <2>1, <2>2
<1> HIDE DEF s
<1>7. y.status = s /\ y.plan = x.plan /\ y.done = d
  BY RowFields
<1>8. exec' = [f \in Executions |-> exec'[f]] /\ exec'[e] = y /\ \A f \in Executions \ {e} : exec'[f] = exec[f]
  BY <1>1, <1>6, RowWritten
<1> HIDE DEF y
<1>9. DoneOf(y, k)
  <2> HIDE DEF x, k, n
  <2> QED
    BY <1>2, <1>3, <1>5, <1>7 DEF DoneOf, BeforeApproval, UpToFailed, n
<1>10. call' \in [Executions -> Call] /\ call'[e] = Idle /\ \A f \in Executions \ {e} : call'[f] = call[f]
  BY <1>1 DEF MarkExecutionFailure, RowsOK, Call
<1>11. ExecutionAt(e)'
  <2>1. s \in Terminal \cup BeforeApproval \cup {"APPROVED", "EXECUTING"} /\ s \notin {"PREFLIGHT_PASSED", "APPROVED", "EXECUTING"}
    BY <1>5 DEF Terminal
  <2>2. CallAt(e)'
    BY <1>10 DEF CallAt
  <2>3. d \in [1..n -> ActionStatus]
    <3>1. \A i \in 1..n : d[i] \in ActionStatus
      BY <1>3 DEF UpToFailed, ActionStatus
    <3> QED
      BY <1>4, <3>1
  <2>4. UNCHANGED journal
    BY DEF MarkExecutionFailure
  <2> QED
    BY <1>2, <1>8, <1>9, <2>1, <2>2, <2>3, <2>4, RowAt DEF y
<1>12. UndisturbedAt(e)'
  BY <1>5, <1>7, <1>8, <1>10 DEF UndisturbedAt, Idle
<1>13. UNCHANGED <<plant, journal, moves>> /\ disturbed' = disturbed \ {e} /\ call'[e].pc # "applying"
  BY <1>10 DEF MarkExecutionFailure, Idle
<1> QED
  BY <1>7, <1>8, <1>10, <1>11, <1>12, <1>13, OneMoves

-----------------------------------------------------------------------------
(* An action takes effect.                                                 *)

\* The journal gets one entry, of the execution that applied the action.
LEMMA EntryWritten ==
    ASSUME RowsOK, NEW e \in Executions, NEW i, journal' = Append(journal, <<e, i>>)
    PROVE  LET last == Len(journal) + 1 IN
           /\ Entries(e)' = Entries(e) \cup {last} /\ last \notin Entries(e) /\ Count(e)' = Count(e) + 1
           /\ \A j \in Entries(e) : j < last
           /\ \A f \in Executions \ {e} : Entries(f)' = Entries(f)
           /\ DOMAIN journal' = DOMAIN journal \cup {last}
           /\ journal'[last] = <<e, i>> /\ \A k \in DOMAIN journal : journal'[k] = journal[k]
<1> DEFINE last == Len(journal) + 1
<1>1. journal \in Seq(Executions \X (1..MaxActions)) /\ Len(journal) \in Nat
  BY DEF RowsOK
<1>2. DOMAIN journal = 1..Len(journal) /\ DOMAIN journal' = DOMAIN journal \cup {last}
      /\ journal'[last] = <<e, i>> /\ \A k \in DOMAIN journal : journal'[k] = journal[k]
  BY <1>1
<1>3. last \notin DOMAIN journal /\ \A j \in DOMAIN journal : j < last
  BY <1>1, <1>2
<1> HIDE DEF last
<1>4. Entries(e)' = Entries(e) \cup {last} /\ last \notin Entries(e) /\ \A j \in Entries(e) : j < last
  BY <1>2, <1>3 DEF Entries
<1>5. \A f \in Executions \ {e} : Entries(f)' = Entries(f)
  BY <1>2, <1>3 DEF Entries
<1>6. Count(e)' = Count(e) + 1
  BY <1>4, CountType, FS_AddElement DEF Count
<1> QED
  BY <1>2, <1>4, <1>5, <1>6 DEF last

LEMMA ApplyKeeps == ASSUME ExecutionInv, NEW e \in Executions, ApplyAction(e) PROVE ExecutionInv'
<1> DEFINE x == exec[e]
           k == Count(e)
           n == Len(x.plan)
           i == call[e].at
           a == x.plan[i]
           p == call[e].seen
           d == [x.done EXCEPT ![i] = "SUCCEEDED"]
           y == Row(x.status, x, x.evidence, d)
           last == Len(journal) + 1
<1>1. call[e].pc = "applying" /\ call[e] # Idle /\ RowsOK /\ UndisturbedAt(e)
  BY DEF ApplyAction, Idle, ExecutionInv
<1>2. x.status = "EXECUTING"
  BY <1>1, CallRuns
<1>3. /\ x # Absent /\ ExecutionShape(x) /\ k \in Nat /\ k < n /\ n \in Nat /\ n <= MaxActions /\ MaxActions \in Nat
      /\ x.done \in [1..n -> ActionStatus] /\ i = k + 1 /\ x.plan \in Seq(Menu)
      /\ \A j \in 1..n : x.done[j] = UpTo(k, j)
      /\ DOMAIN x.evidence = 1..n /\ AllReady(x.evidence)
  BY <1>1, <1>2, AtWork
<1>4. i \in 1..n /\ a \in Menu
  BY <1>3
<1>5. p \in Plant /\ plant \in Plant
  <2>1. call[e] \in Call
    BY <1>1 DEF RowsOK
  <2> QED
    BY <1>1, <2>1 DEF RowsOK, Call, Idle
<1>6. Preflight(p, a).ready
  <2>1. Preflight(p, a) = x.evidence[i]
    BY DEF ApplyAction, AsApproved
  <2> QED
    BY <1>3, <1>4, <2>1 DEF AllReady
<1>7. plant' = Effect(p, plant, a) /\ journal' = Append(journal, <<e, i>>) /\ exec' = [exec EXCEPT ![e] = y]
      /\ disturbed' = disturbed \cup (Started \ {e}) /\ moves' = moves
  <2>1. [x EXCEPT !.done[i] = "SUCCEEDED"] = y
    <3>1. ExecutionShape(x)
      BY <1>3
    <3>2. \A j, v : [x EXCEPT !.done[j] = v] = Row(x.status, x, x.evidence, [x.done EXCEPT ![j] = v])
      BY <3>1, RowUpdates
    <3> HIDE DEF x, i
    <3> QED
      BY <3>2
  <2>2. exec' = [exec EXCEPT ![e] = [x EXCEPT !.done[i] = "SUCCEEDED"]]
    BY DEF ApplyAction
  <2> QED
    BY <2>1, <2>2 DEF ApplyAction
<1>8. call'[e] = [pc |-> "next", at |-> i + 1]
      /\ \A f \in Executions \ {e} : call'[f] = call[f] \/ call'[f] = Idle
  BY DEF ApplyAction
<1>9. \A f \in Executions \ {e} : call'[f].pc = "applying" =>
          call'[f] = call[f] /\ ~Conflict(a, exec[f].plan[call[f].at])
  <2> SUFFICES ASSUME NEW f \in Executions \ {e}, call'[f].pc = "applying"
               PROVE  call'[f] = call[f] /\ ~Conflict(a, exec[f].plan[call[f].at])
    OBVIOUS
  <2>1. call'[f] = IF call[f].pc = "applying" /\ Conflict(a, exec[f].plan[call[f].at]) THEN Idle ELSE call[f]
    BY DEF ApplyAction
  <2>2. call'[f] # Idle
    BY DEF Idle
  <2> QED
    BY <2>1, <2>2
<1>10. call' \in [Executions -> Call]
  <2>1. [pc |-> "next", at |-> i + 1] \in Call /\ Idle \in Call
    BY <1>3 DEF Call
  <2>2. call' = [f \in Executions |-> call'[f]]
    BY DEF ApplyAction
  <2>3. \A f \in Executions : call[f] \in Call
    BY <1>1 DEF RowsOK
  <2>4. \A f \in Executions : call'[f] \in Call
    BY <1>8, <2>1, <2>3
  <2> QED
    BY <2>2, <2>4
<1>11. d = [j \in 1..n |-> UpTo(k + 1, j)]
  <2> DEFINE done == x.done
  <2>1. done \in [1..n -> ActionStatus] /\ i \in 1..n /\ d = [done EXCEPT ![i] = "SUCCEEDED"]
    BY <1>3, <1>4
  <2>2. \A j \in 1..n : done[j] = UpTo(k, j)
    BY <1>3
  <2>3. k \in Nat /\ n \in Nat /\ i = k + 1
    BY <1>3
  <2> HIDE DEF done, d, i, k, n
  <2>4. d = [j \in 1..n |-> IF j = i THEN "SUCCEEDED" ELSE done[j]]
    BY <2>1
  <2>5. \A j \in 1..n : (IF j = i THEN "SUCCEEDED" ELSE done[j]) = UpTo(k + 1, j)
    BY <2>2, <2>3 DEF UpTo
  <2> QED
    BY <2>4, <2>5
<1>12. y.status = "EXECUTING" /\ y.plan = x.plan /\ y.evidence = x.evidence /\ y.done = d /\ ExecutionShape(y) /\ y # Absent
  BY <1>2, RowFields
<1> HIDE DEF y, d, p
<1>13. exec' = [f \in Executions |-> exec'[f]] /\ exec'[e] = y /\ \A f \in Executions \ {e} : exec'[f] = exec[f]
  BY <1>1, <1>7, RowWritten
<1>14. /\ Entries(e)' = Entries(e) \cup {last} /\ last \notin Entries(e) /\ Count(e)' = k + 1
       /\ \A j \in Entries(e) : j < last
       /\ \A f \in Executions \ {e} : Entries(f)' = Entries(f)
       /\ DOMAIN journal' = DOMAIN journal \cup {last}
       /\ journal'[last] = <<e, i>> /\ \A j \in DOMAIN journal : journal'[j] = journal[j]
  BY <1>1, <1>7, EntryWritten
<1>15. Effect(p, plant, a) \in Plant
       /\ (AddsOvertime(a) => plant'.overtime = plant.overtime + a.value /\ a.value \in Nat)
       /\ (~AddsOvertime(a) => plant'.overtime = plant.overtime)
  BY <1>4, <1>5, <1>6, <1>7, EffectType
<1>16. RowsOK'
  <2>1. journal' \in Seq(Executions \X (1..MaxActions))
    BY <1>1, <1>3, <1>4, <1>7 DEF RowsOK
  <2>2. disturbed' \subseteq Executions
    BY <1>1, <1>7 DEF RowsOK, Started
  <2> QED
    BY <1>1, <1>7, <1>10, <1>13, <1>15, <2>1, <2>2 DEF RowsOK
<1>17. ExecutionAt(e)'
  <2>1. y.plan \in Plan
    BY <1>3, <1>12, SeqIsPlan
  <2>2. y.done \in [1..n -> ActionStatus]
    BY <1>11, <1>12 DEF UpTo, ActionStatus
  <2>3. DoneOf(y, k + 1)
    BY <1>3, <1>11, <1>12 DEF DoneOf, BeforeApproval
  <2>4. CallAt(e)'
    BY <1>3, <1>8, <1>12, <1>13, <1>14 DEF CallAt
  <2>5. ASSUME NEW j \in Entries(e)' PROVE journal'[j][2] = Cardinality({h \in Entries(e)' : h <= j})
    <3>1. CASE j \in Entries(e)
      <4>1. {h \in Entries(e)' : h <= j} = {h \in Entries(e) : h <= j}
        <5>1. j < last /\ j \in Nat /\ last \in Nat
          BY <1>1, <1>14, <3>1, CountType DEF RowsOK
        <5> HIDE DEF last
        <5> QED
          BY <1>14, <5>1
      <4>2. journal[j][2] = Cardinality({h \in Entries(e) : h <= j})
        BY <1>3, <3>1 DEF ExecutionInv, ExecutionAt
      <4>3. j \in DOMAIN journal
        BY <3>1 DEF Entries
      <4> QED
        BY <1>14, <4>1, <4>2, <4>3
    <3>2. CASE j \notin Entries(e)
      <4>1. j = last
        BY <1>14, <3>2
      <4>2. {h \in Entries(e)' : h <= j} = Entries(e)'
        <5>1. Entries(e) \subseteq Nat /\ last \in Nat
          BY <1>1, CountType DEF RowsOK
        <5> HIDE DEF last
        <5> QED
          BY <1>14, <4>1, <5>1
      <4>3. Cardinality(Entries(e)') = k + 1
        BY <1>14 DEF Count
      <4>4. journal'[j][2] = i
        BY <1>14, <4>1
      <4> HIDE DEF i, last, k
      <4> QED
        BY <1>3, <4>2, <4>3, <4>4
    <3> QED
      BY <3>1, <3>2
  <2>6. DOMAIN y.evidence = 1..n /\ AllReady(y.evidence)
    BY <1>3, <1>12
  <2> HIDE DEF x, k, i, a
  <2> QED
    BY <1>12, <1>13, <1>14, <2>1, <2>2, <2>3, <2>4, <2>5, <2>6 DEF ExecutionAt
<1>18. UndisturbedAt(e)'
  <2>1. ASSUME e \notin disturbed' PROVE Foreseen(e)'
    <3>1. e \notin disturbed
      BY <1>7, <2>1
    <3>2. Foreseen(e) /\ p = plant
      BY <1>1, <1>2, <3>1 DEF UndisturbedAt, p
    <3>3. PICK q : x.evidence = Simulated(q, x.plan) /\ plant = AfterActions(q, x.plan)[k]
      BY <3>2 DEF Foreseen
    <3>4. AfterActions(q, x.plan)[k + 1] = NextPlant(AfterActions(q, x.plan)[k], a)
      <4>1. k + 1 \in 1..n /\ (k + 1) - 1 = k
        BY <1>3
      <4> QED
        BY <1>3, <4>1, AfterStep
    <3>5. plant' = AfterActions(q, x.plan)[k + 1]
      BY <1>6, <1>7, <3>2, <3>3, <3>4 DEF NextPlant
    <3> QED
      BY <1>12, <1>13, <1>14, <3>3, <3>5 DEF Foreseen
  <2> QED
    BY <1>8, <2>1 DEF UndisturbedAt
<1>19. ASSUME NEW f \in Executions \ {e} PROVE ExecutionAt(f)' /\ UndisturbedAt(f)'
  <2>1. ExecutionAt(f) /\ UndisturbedAt(f)
    BY DEF ExecutionInv
  <2>2. \A j \in Entries(f) : journal'[j] = journal[j]
    BY <1>14 DEF Entries
  <2>3. exec[f].status = "EXECUTING" => f \in disturbed'
    BY <1>7 DEF Started
  <2>4. ExecutionAt(f)'
    BY <1>8, <1>13, <1>14, <2>1, <2>2, ExecutionFrame
  <2>5. UndisturbedAt(f)'
    BY <1>8, <1>13, <1>14, <2>1, <2>3, UndisturbedFrame
  <2> QED
    BY <2>4, <2>5
<1>20. OvertimeSeen'
  <2> SUFFICES ASSUME NEW f \in Executions, call'[f].pc = "applying", AddsOvertime(exec'[f].plan[call'[f].at])
               PROVE  call'[f].seen.overtime = plant'.overtime
    BY DEF OvertimeSeen, AddsOvertime
  <2>1. f \in Executions \ {e}
    BY <1>8
  <2>2. call'[f] = call[f] /\ ~Conflict(a, exec[f].plan[call[f].at]) /\ exec'[f] = exec[f]
    BY <1>9, <1>13, <2>1
  <2>3. AddsOvertime(exec[f].plan[call[f].at]) /\ call[f].seen.overtime = plant.overtime
    BY <2>2 DEF ExecutionInv, OvertimeSeen
  <2>4. ~AddsOvertime(a)
    BY <2>2, <2>3 DEF Conflict, Isolation, Touched, AddsOvertime
  <2> QED
    BY <1>15, <2>2, <2>3, <2>4
<1>21. OvertimeWithinDay'
  <2> DEFINE g == OvertimeOf'
             v == IF AddsOvertime(a) THEN a.value ELSE 0
  <2>1. OvertimeWithinDay <=> plant.overtime = SumFunctionOnSet(OvertimeOf, DOMAIN journal) /\ plant.overtime <= MaxClock
    BY DEF OvertimeWithinDay, OvertimeOf
  <2>2. OvertimeWithinDay' <=> plant'.overtime = SumFunctionOnSet(g, DOMAIN journal') /\ plant'.overtime <= MaxClock
    BY DEF OvertimeWithinDay, OvertimeOf
  <2>3. ASSUME NEW j \in DOMAIN journal PROVE g[j] = OvertimeOf[j] /\ OvertimeOf[j] \in Int
    <3> DEFINE f == journal[j][1]
               b == exec[f].plan[journal[j][2]]
    <3>1. f \in Executions /\ b \in Menu
      BY EntryKnown
    <3>2. exec'[f].plan = exec[f].plan
      BY <1>12, <1>13, <3>1
    <3>3. g[j] = IF AddsOvertime(b) THEN b.value ELSE 0
      BY <1>14, <3>2 DEF OvertimeOf, AddsOvertime
    <3>4. OvertimeOf[j] = IF AddsOvertime(b) THEN b.value ELSE 0
      BY DEF OvertimeOf, AddsOvertime
    <3>5. AddsOvertime(b) => b.value \in 1..MinutesPerWeek
      BY <3>1, RecoveryProjectionAssumption, Zenon DEF RecoveryProjectionAssumption, ValidAction, AddsOvertime
    <3> HIDE DEF b
    <3>6. AddsOvertime(b) => b.value \in Int
      BY <3>5
    <3> QED
      BY <3>3, <3>4, <3>6
  <2>4. g[last] = v /\ v \in Int
    <3>1. g[last] = v
      BY <1>12, <1>13, <1>14 DEF OvertimeOf, AddsOvertime
    <3> QED
      BY <1>15, <3>1
  <2>5. IsFiniteSet(DOMAIN journal) /\ last \notin DOMAIN journal
    <3>1. DOMAIN journal = 1..Len(journal) /\ Len(journal) \in Nat
      BY <1>1 DEF RowsOK
    <3> QED
      BY <3>1, FS_Interval
  <2> HIDE DEF g, last, v
  <2>6. SumFunctionOnSet(g, DOMAIN journal) = SumFunctionOnSet(OvertimeOf, DOMAIN journal)
    BY <2>3, <2>5, SumSame
  <2>7. SumFunctionOnSet(g, DOMAIN journal') = SumFunctionOnSet(OvertimeOf, DOMAIN journal) + v
    BY <1>14, <2>3, <2>4, <2>5, <2>6, SumInsert
  <2>8. plant'.overtime = plant.overtime + v
    <3>1. plant.overtime \in Nat
      BY <1>5 DEF Plant
    <3> QED
      BY <1>15, <3>1 DEF v
  <2>9. plant'.overtime <= MaxClock
    <3>1. plant.overtime <= MaxClock
      BY <2>1 DEF ExecutionInv
    <3>2. CASE ~AddsOvertime(a)
      BY <1>15, <3>1, <3>2
    <3>3. CASE AddsOvertime(a)
      <4>1. p.overtime = plant.overtime
        BY <1>1, <3>3 DEF ExecutionInv, OvertimeSeen, p
      <4>2. p.overtime + a.value <= MaxClock
        BY <1>4, <1>5, <1>6, <3>3, ReadyIsKnown DEF AddsOvertime
      <4> QED
        BY <1>15, <3>3, <4>1, <4>2
    <3> QED
      BY <3>2, <3>3
  <2> QED
    BY <2>1, <2>2, <2>7, <2>8, <2>9 DEF ExecutionInv
<1> QED
  BY <1>16, <1>17, <1>18, <1>19, <1>20, <1>21 DEF ExecutionInv

-----------------------------------------------------------------------------
(* Other people, and every step.                                           *)

LEMMA MoveKeeps ==
    ASSUME ExecutionInv, NEW p \in Plant, p.overtime = plant.overtime, Move(p)
    PROVE  ExecutionInv'
<1>1. RowsOK'
  BY RecoveryExecutionAssumption DEF ExecutionInv, RowsOK, Move, Started, RecoveryExecutionAssumption
<1>2. ASSUME NEW f \in Executions PROVE ExecutionAt(f)' /\ UndisturbedAt(f)'
  <2>1. ExecutionAt(f) /\ UndisturbedAt(f)
    BY DEF ExecutionInv
  <2>2. exec'[f] = exec[f] /\ Entries(f)' = Entries(f) /\ call'[f] = call[f] /\ \A k \in Entries(f) : journal'[k] = journal[k]
    BY DEF Move, Entries
  <2>3. exec[f].status = "EXECUTING" => f \in disturbed'
    BY DEF Move, Started
  <2>4. ExecutionAt(f)'
    BY <2>1, <2>2, ExecutionFrame
  <2>5. UndisturbedAt(f)'
    BY <2>1, <2>2, <2>3, UndisturbedFrame
  <2> QED
    BY <2>4, <2>5
<1>3. OvertimeSeen'
  BY DEF ExecutionInv, OvertimeSeen, Move, AddsOvertime
<1>4. OvertimeWithinDay'
  BY OvertimeFrame DEF Move
<1> QED
  BY <1>1, <1>2, <1>3, <1>4 DEF ExecutionInv

LEMMA OthersKeep == ASSUME ExecutionInv, Others PROVE ExecutionInv'
<1>1. plant \in Plant
  BY DEF ExecutionInv, RowsOK
<1>2. ASSUME PurchaseReceived PROVE ExecutionInv'
  <2>1. [plant EXCEPT !.open = @ - 1] \in Plant /\ [plant EXCEPT !.open = @ - 1].overtime = plant.overtime
    BY <1>1, <1>2 DEF Plant, PurchaseReceived
  <2> QED
    BY <1>2, <2>1, MoveKeeps DEF PurchaseReceived
<1>3. ASSUME SupplierRevises PROVE ExecutionInv'
  <2>1. [plant EXCEPT !.date = @ + 1] \in Plant /\ [plant EXCEPT !.date = @ + 1].overtime = plant.overtime
    BY <1>1 DEF Plant
  <2> QED
    BY <1>3, <2>1, MoveKeeps DEF SupplierRevises
<1>4. ASSUME StockMoves PROVE ExecutionInv'
  <2>1. PICK d \in {-1, 1} : Move([plant EXCEPT !.available = @ + d])
    BY <1>4 DEF StockMoves
  <2>2. plant.available + d \in Int
    BY <1>1, <2>1 DEF Plant
  <2>3. [plant EXCEPT !.available = @ + d] \in Plant /\ [plant EXCEPT !.available = @ + d].overtime = plant.overtime
    BY <1>1, <2>2 DEF Plant
  <2> QED
    BY <2>1, <2>3, MoveKeeps
<1>5. ASSUME RoutingChanges PROVE ExecutionInv'
  <2>1. PICK v \in 0..2 : Move([plant EXCEPT !.routing = v])
    BY <1>5 DEF RoutingChanges
  <2>2. [plant EXCEPT !.routing = v] \in Plant /\ [plant EXCEPT !.routing = v].overtime = plant.overtime
    BY <1>1 DEF Plant
  <2> QED
    BY <2>1, <2>2, MoveKeeps
<1>6. ASSUME OperationStarts PROVE ExecutionInv'
  <2>1. [plant EXCEPT !.op.status = "IN_PROGRESS"] \in Plant /\ [plant EXCEPT !.op.status = "IN_PROGRESS"].overtime = plant.overtime
    BY <1>1 DEF Plant
  <2> QED
    BY <1>6, <2>1, MoveKeeps DEF OperationStarts
<1>7. ASSUME NEW w \in WorkOrders, OrderReleased(w) PROVE ExecutionInv'
  <2> DEFINE r == [plant EXCEPT !.wo[w].status = "RELEASED"]
             n == Need[w]
  <2>1. r \in Plant /\ r.overtime = plant.overtime
    BY <1>1 DEF Plant
  <2>2. n \in Nat
    BY RecoveryExecutionAssumption DEF RecoveryExecutionAssumption
  <2>3. [plant EXCEPT !.wo[w].status = "RELEASED", !.available = @ - n] = [r EXCEPT !.available = @ - n]
    OBVIOUS
  <2> HIDE DEF r, n
  <2>4. r.available - n \in Int
    BY <2>1, <2>2 DEF Plant
  <2>5. [r EXCEPT !.available = @ - n] \in Plant /\ [r EXCEPT !.available = @ - n].overtime = plant.overtime
    BY <2>1, <2>4 DEF Plant
  <2>6. Move([r EXCEPT !.available = @ - n])
    BY <1>7, <2>3 DEF OrderReleased, n
  <2> QED
    BY <2>5, <2>6, MoveKeeps
<1>8. ASSUME NEW w \in WorkOrders, OrderStarts(w) PROVE ExecutionInv'
  <2>1. [plant EXCEPT !.wo[w].status = "IN_PROGRESS"] \in Plant /\ [plant EXCEPT !.wo[w].status = "IN_PROGRESS"].overtime = plant.overtime
    BY <1>1 DEF Plant
  <2> QED
    BY <1>8, <2>1, MoveKeeps DEF OrderStarts
<1> QED
  BY <1>2, <1>3, <1>4, <1>5, <1>6, <1>7, <1>8 DEF Others

LEMMA ExecutionStart == ASSUME ExecutionInit PROVE ExecutionInv
<1>1. plant \in Plant /\ plant.overtime = 0
  BY RecoveryExecutionAssumption DEF RecoveryExecutionAssumption, ExecutionInit, Plant, Centers
<1>2. \A e \in Executions : exec[e] = Absent /\ call[e] = Idle /\ Entries(e) = {}
  BY DEF ExecutionInit, Entries
<1>3. RowsOK
  BY <1>1, RecoveryExecutionAssumption DEF RecoveryExecutionAssumption, ExecutionInit, RowsOK, Call
<1>4. \A e \in Executions : ExecutionAt(e) /\ UndisturbedAt(e)
  BY <1>2 DEF ExecutionAt, UndisturbedAt, Absent, Idle
<1>5. OvertimeSeen
  BY <1>2 DEF OvertimeSeen, Idle
<1>6. OvertimeWithinDay
  <2>1. DOMAIN journal = {}
    BY DEF ExecutionInit
  <2>2. SumFunctionOnSet(OvertimeOf, {}) = 0
    BY FS_EmptySet, SumFirst
  <2>3. 0 <= MaxClock
    BY RecoveryExecutionAssumption DEF RecoveryExecutionAssumption
  <2>4. plant.overtime = SumFunctionOnSet(OvertimeOf, DOMAIN journal)
    BY <1>1, <2>1, <2>2
  <2> QED
    BY <1>1, <2>3, <2>4 DEF OvertimeWithinDay, OvertimeOf
<1> QED
  BY <1>3, <1>4, <1>5, <1>6 DEF ExecutionInv

LEMMA ExecutionIdle == ASSUME ExecutionInv, UNCHANGED executionVars PROVE ExecutionInv'
<1>1. RowsOK'
  BY DEF ExecutionInv, RowsOK, executionVars
<1>2. ASSUME NEW f \in Executions PROVE ExecutionAt(f)' /\ UndisturbedAt(f)'
  <2>1. ExecutionAt(f) /\ UndisturbedAt(f)
    BY DEF ExecutionInv
  <2>2. /\ exec'[f] = exec[f] /\ Entries(f)' = Entries(f) /\ call'[f] = call[f]
        /\ \A k \in Entries(f) : journal'[k] = journal[k]
        /\ plant' = plant /\ disturbed' = disturbed
    BY DEF executionVars, Entries
  <2>3. ExecutionAt(f)'
    BY <2>1, <2>2, ExecutionFrame
  <2>4. UndisturbedAt(f)'
    BY <2>1, <2>2, UndisturbedFrame
  <2> QED
    BY <2>3, <2>4
<1>3. OvertimeSeen'
  BY DEF ExecutionInv, OvertimeSeen, executionVars, AddsOvertime
<1>4. OvertimeWithinDay'
  BY OvertimeFrame DEF executionVars
<1> QED
  BY <1>1, <1>2, <1>3, <1>4 DEF ExecutionInv

LEMMA ExecutionKept == ASSUME ScenarioInv, ExecutionInv, ExecutionNext PROVE ExecutionInv'
BY PrepareKeeps, ApproveKeeps, RunPreflightKeeps, CancelKeeps, StartKeeps, ResumeKeeps, BeginActionKeeps, ApplyKeeps,
   FindDriftKeeps, ActionBreaksKeeps, MarkFailureKeeps, FinalizeKeeps, InterruptKeeps, OthersKeep DEF ExecutionNext

-----------------------------------------------------------------------------
(* The theorems.                                                           *)

\* What the properties say follows from the invariant.
LEMMA OutcomeFollows == ASSUME ExecutionInv PROVE OutcomeMatchesEffects
<1> SUFFICES ASSUME NEW e \in Executions, exec[e] # Absent
             PROVE  LET k == Cardinality(Entries(e))
                        n == Len(exec[e].plan)
                    IN  /\ \A x \in Entries(e) : journal[x][2] = Cardinality({y \in Entries(e) : y <= x})
                        /\ {i \in 1..n : exec[e].done[i] = "SUCCEEDED"} = 1..k
                        /\ exec[e].status = "SUCCEEDED" => k = n
                        /\ exec[e].status = "PARTIAL_FAILED" => k > 0 /\ exec[e].done[k + 1] = "FAILED"
                        /\ exec[e].status \in {"FAILED", "CANCELLED"} => k = 0
  BY DEF OutcomeMatchesEffects
<1> DEFINE x == exec[e]
           k == Count(e)
           n == Len(x.plan)
           done == x.done
<1>1. ExecutionAt(e) /\ RowsOK
  BY DEF ExecutionInv
<1>2. x.plan \in Plan /\ DoneOf(x, k) /\ x.status \in Terminal \cup BeforeApproval \cup {"APPROVED", "EXECUTING"}
  BY <1>1 DEF ExecutionAt
<1>3. k \in Nat /\ n \in Nat
  BY <1>1, <1>2, CountType, PlanIsSeq
<1>4. \A j \in Entries(e) : journal[j][2] = Cardinality({y \in Entries(e) : y <= j})
  BY <1>1 DEF ExecutionAt
<1>5. x.status \in BeforeApproval \cup {"APPROVED", "CANCELLED"} => k = 0 /\ \A i \in 1..n : done[i] = "PENDING"
  BY <1>2 DEF DoneOf
<1>6. x.status = "EXECUTING" => k <= n /\ \A i \in 1..n : done[i] = UpTo(k, i)
  BY <1>2 DEF DoneOf
<1>7. x.status = "SUCCEEDED" => k = n /\ \A i \in 1..n : done[i] = "SUCCEEDED"
  BY <1>2 DEF DoneOf
<1>8. x.status = "PARTIAL_FAILED" => k \in 1..n - 1 /\ \A i \in 1..n : done[i] = UpToFailed(k, i)
  BY <1>2 DEF DoneOf
<1>9. x.status = "FAILED" => k = 0 /\ \A i \in 1..n : done[i] # "SUCCEEDED"
  BY <1>2 DEF DoneOf
<1> DEFINE st == x.status
<1>10. st \in {"SUCCEEDED", "FAILED", "PARTIAL_FAILED", "CANCELLED", "PREPARED", "PREFLIGHT_PASSED", "PREFLIGHT_BLOCKED", "APPROVED", "EXECUTING"}
  BY <1>2 DEF Terminal, BeforeApproval
<1>11. k = Cardinality(Entries(e))
  BY DEF Count
<1> HIDE DEF k, n, done, st
<1>12. /\ k <= n
       /\ \A i \in 1..n : (done[i] = "SUCCEEDED") <=> i <= k
       /\ st = "SUCCEEDED" => k = n
       /\ st = "PARTIAL_FAILED" => k > 0 /\ done[k + 1] = "FAILED"
       /\ st \in {"FAILED", "CANCELLED"} => k = 0
  BY <1>3, <1>5, <1>6, <1>7, <1>8, <1>9, <1>10 DEF BeforeApproval, UpTo, UpToFailed, st
<1>13. {i \in 1..n : done[i] = "SUCCEEDED"} = 1..k
  BY <1>3, <1>12
<1> QED
  BY <1>4, <1>11, <1>12, <1>13 DEF n, done, st

LEMMA DriftFollows == ASSUME ExecutionInv PROVE NoSelfDrift
BY DEF ExecutionInv, NoSelfDrift, UndisturbedAt

LEMMA TypesFollow == ASSUME RecoveryInv PROVE TypeOK
<1>1. ScenarioTypeOK /\ RowsOK
  BY DEF RecoveryInv, ScenarioInv, ExecutionInv
<1>2. ASSUME NEW e \in Executions, exec[e] # Absent
      PROVE  /\ exec[e].status \in Terminal \cup BeforeApproval \cup {"APPROVED", "EXECUTING"}
             /\ exec[e].plan \in Plan
             /\ exec[e].done \in [DOMAIN exec[e].plan -> ActionStatus]
  <2>1. exec[e].plan \in Plan /\ exec[e].done \in [1..Len(exec[e].plan) -> ActionStatus]
    BY <1>2 DEF RecoveryInv, ExecutionInv, ExecutionAt
  <2> QED
    BY <1>2, <2>1, PlanIsSeq DEF RecoveryInv, ExecutionInv, ExecutionAt
<1> QED
  BY <1>1, <1>2 DEF TypeOK, RowsOK

LEMMA RecoveryInvInductive == Spec => []RecoveryInv
<1>1. Init => RecoveryInv
  BY ScenarioStart, ExecutionStart DEF Init, RecoveryInv
<1>2. RecoveryInv /\ [Next]_vars => RecoveryInv'
  <2> SUFFICES ASSUME RecoveryInv, [Next]_vars PROVE RecoveryInv'
    OBVIOUS
  <2>1. ScenarioNext \/ UNCHANGED scenarioVars
    BY DEF Next, vars
  <2>2. ExecutionNext \/ UNCHANGED executionVars
    BY DEF Next, vars
  <2>3. ScenarioInv'
    BY <2>1, ScenarioKept DEF RecoveryInv
  <2>4. ExecutionInv'
    BY <2>2, ExecutionKept, ExecutionIdle DEF RecoveryInv
  <2> QED
    BY <2>3, <2>4 DEF RecoveryInv
<1> QED
  BY <1>1, <1>2, PTL DEF Spec

\* Scenario, executions, plant and the calls at work are what the tables may hold, whatever the menu, the users and
\* the orders.
THEOREM RecoveryTypesCorrect == Spec => []TypeOK
BY RecoveryInvInductive, TypesFollow, PTL

\* recovery_scenario_workflow.go compares the actions under the lock of the scenario with those the run computed:
\* evidence is of the plan that is published, whoever edits and simulates at once.
THEOREM EvidenceIsOfThePlan == Spec => []EvidenceMatchesPlan
<1>1. RecoveryInv => EvidenceMatchesPlan
  BY DEF RecoveryInv, ScenarioInv
<1> QED
  BY <1>1, RecoveryInvInductive, PTL

\* One transaction for the effect of an action, its signal and its success: wherever an execution stops, resumes or
\* fails, its plan was applied up to one place, in order and once, and rows and status say up to which.
THEOREM ExecutionTellsItsEffects == Spec => []OutcomeMatchesEffects
<1>1. RecoveryInv => OutcomeMatchesEffects
  BY OutcomeFollows DEF RecoveryInv
<1> QED
  BY <1>1, RecoveryInvInductive, PTL

\* Preflight walks through the plan with the effects of the actions before: an execution never finds drift in what it
\* did itself.
THEOREM DriftIsOfOthers == Spec => []NoSelfDrift
<1>1. RecoveryInv => NoSelfDrift
  BY DriftFollows DEF RecoveryInv
<1> QED
  BY <1>1, RecoveryInvInductive, PTL

\* SERIALIZABLE transactions that add overtime do not overlap: the clock of the day is what they added, and no more
\* than the day has.
THEOREM OvertimeStaysInTheDay == Spec => []OvertimeWithinDay
<1>1. RecoveryInv => OvertimeWithinDay
  BY DEF RecoveryInv, ExecutionInv
<1> QED
  BY <1>1, RecoveryInvInductive, PTL
=============================================================================
