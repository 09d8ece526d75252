------------------------- MODULE RecoveryExecution -------------------------
(***************************************************************************)
(* Carrying out a published recovery scenario: prepare, preflight, approval *)
(* by a second person, then one transaction per action, beside the people   *)
(* who work on the same orders.                                            *)
(*                                                                         *)
(* Execute holds a session lock per execution; call[e] is its holder.  The  *)
(* transaction of an action is SERIALIZABLE: it reads a snapshot            *)
(* (BeginAction) and commits on the present (ApplyAction).  PostgreSQL      *)
(* aborts it when a row it updates or locks was updated in between, or when *)
(* another SERIALIZABLE transaction conflicts with it; what READ COMMITTED  *)
(* transactions do to rows it only reads goes unnoticed.                    *)
(***************************************************************************)
EXTENDS RecoveryScenarios

CONSTANTS
    Executions,    \* recovery_plan_executions: a scenario and an idempotency key
    Users,
    WorkOrders,    \* of items made of one component each, the same for all
    Need,          \* Need[w]: what releasing w reserves of it
    Stock,         \* what is there of it at first
    MaxClock,      \* minutes left after the base capacity on the one day and work center
    Alternatives,  \* work centers snapshotted as alternatives of the one operation
    MaxMoves       \* bound: what other people do

ASSUME RecoveryExecutionAssumption ==
    {Stock, MaxClock, MaxMoves} \subseteq Nat /\ Need \in [WorkOrders -> Nat]

VARIABLES
    exec,       \* recovery_plan_executions with their actions
    plant,      \* the operational rows the actions are about
    journal,    \* schedule_reschedule_signals of recovery executions
    call,       \* the request that holds the session lock of an execution, and
                \* the snapshot of its transaction while it applies an action
    moves,      \* counts what other people did
    disturbed   \* history: executions whose plant others changed since they started

executionVars == <<exec, plant, journal, call, moves, disturbed>>
vars == <<scenarioVars, executionVars>>

Terminal == {"SUCCEEDED", "FAILED", "PARTIAL_FAILED", "CANCELLED"}
BeforeApproval == {"PREPARED", "PREFLIGHT_PASSED", "PREFLIGHT_BLOCKED"}
ActionStatus == {"PENDING", "SUCCEEDED", "FAILED", "SKIPPED"}
Idle == [pc |-> "idle"]
Centers == Alternatives \union {"first"}

Plant == [open : Nat, date : Int,
          wo : [WorkOrders -> [status : {"PLANNED", "RELEASED", "IN_PROGRESS"}, date : Int]],
          available : Int, routing : 0..2,
          op : [status : {"READY", "IN_PROGRESS"}, center : Centers], overtime : Nat]

Call == {Idle} \union [pc : {"next", "drifted", "broken"}, at : 1..MaxActions + 1]
               \union [pc : {"applying"}, at : 1..MaxActions, seen : Plant]

TypeOK ==
    /\ ScenarioTypeOK
    /\ plant \in Plant
    /\ \A e \in Executions : exec[e] = Absent \/
          /\ exec[e].status \in Terminal \union BeforeApproval \union {"APPROVED", "EXECUTING"}
          /\ exec[e].plan \in Plan
          /\ exec[e].done \in [DOMAIN exec[e].plan -> ActionStatus]
    /\ call \in [Executions -> Call]
    /\ moves \in 0..MaxMoves /\ disturbed \subseteq Executions

ExecutionInit ==
    /\ exec = [e \in Executions |-> Absent]
    /\ plant = [open |-> 1, date |-> 2, wo |-> [w \in WorkOrders |-> [status |-> "PLANNED", date |-> 2]],
                available |-> Stock, routing |-> 1,
                op |-> [status |-> "READY", center |-> "first"], overtime |-> 0]
    /\ journal = <<>>
    /\ call = [e \in Executions |-> Idle]
    /\ moves = 0
    /\ disturbed = {}

Init == ScenarioInit /\ ExecutionInit

-----------------------------------------------------------------------------
\* What preflight finds of an action's target in plant p.  Its hash is compared
\* later; here that is the finding itself.  Dates are days; 0 is the order date.
Found(ready, what) == [ready |-> ready, what |-> what]

Preflight(p, a) ==
    IF a.target = "*" \/ (a.type \in {"RESCHEDULE_WO", "RELEASE_WO"} /\ a.target \notin WorkOrders)
    THEN Found(FALSE, <<>>) ELSE
    CASE a.type = "EXPEDITE_PO" ->
            Found(p.open > 0 /\ p.date - a.value >= 0, <<p.open, p.date>>)
      [] a.type = "RESCHEDULE_WO" ->
            Found(p.wo[a.target].status \in {"PLANNED", "RELEASED"}, p.wo[a.target])
      [] a.type = "RELEASE_WO" ->
            Found(/\ p.wo[a.target].status = "PLANNED"
                  /\ p.routing # 0
                  /\ p.available >= Need[a.target],
                  <<p.wo[a.target], p.routing, p.available>>)
      [] a.type = "ALTERNATE_WORK_CENTER" ->
            Found(/\ p.op.status = "READY"
                  /\ a.target = p.op.center
                  /\ a.value \in Alternatives, p.op)
      [] a.type = "ADD_OVERTIME_CAPACITY" ->
            Found(p.overtime + a.value <= MaxClock, p.overtime)

\* What an action found ready in snapshot p does to the present plant q.
Effect(p, q, a) ==
    CASE a.type = "EXPEDITE_PO" -> [q EXCEPT !.date = p.date - a.value]
      [] a.type = "RESCHEDULE_WO" -> [q EXCEPT !.wo[a.target].date = p.wo[a.target].date - a.value]
      [] a.type = "RELEASE_WO" ->
            [q EXCEPT !.wo[a.target].status = "RELEASED", !.available = @ - Need[a.target]]
      [] a.type = "ALTERNATE_WORK_CENTER" -> [q EXCEPT !.op.center = a.value]
      [] a.type = "ADD_OVERTIME_CAPACITY" -> [q EXCEPT !.overtime = @ + a.value]

\* mutant: each action is looked at as if it were the only one
Alone(p, plan) == [i \in DOMAIN plan |-> Preflight(p, plan[i])]

\* The plant after the first i actions of a plan; one that is not ready has no effect.
AfterActions(p, plan) ==
    LET after[i \in 0..Len(plan)] ==
            IF i = 0 THEN p
            ELSE IF Preflight(after[i - 1], plan[i]).ready
                 THEN Effect(after[i - 1], after[i - 1], plan[i])
                 ELSE after[i - 1]
    IN  after

\* Every action is looked at after the effects of those before it, which are rolled back.
Simulated(p, plan) == [i \in DOMAIN plan |-> Preflight(AfterActions(p, plan)[i - 1], plan[i])]

AllReady(evidence) == \A i \in DOMAIN evidence : evidence[i].ready

\* The rows an action's transaction updates or locks are what they were.
RowsUnchanged(p, q, a) ==
    CASE a.type = "EXPEDITE_PO" -> p.open = q.open /\ p.date = q.date
      [] a.type \in {"RESCHEDULE_WO", "RELEASE_WO"} -> p.wo[a.target] = q.wo[a.target]
      [] a.type = "ALTERNATE_WORK_CENTER" -> p.op = q.op
      [] a.type = "ADD_OVERTIME_CAPACITY" -> TRUE

Touched(a) ==
    CASE a.type \in {"EXPEDITE_PO", "ALTERNATE_WORK_CENTER", "ADD_OVERTIME_CAPACITY"} -> {a.type}
      [] a.type = "RESCHEDULE_WO" -> {a.target}
      [] a.type = "RELEASE_WO" -> {a.target, "stock"}

\* mutant: the transaction of an action is begun with a lower isolation level
LowerIsolation == "REPEATABLE READ"

\* The isolation level executeOne begins its transaction with.
Isolation == "SERIALIZABLE"

\* Two SERIALIZABLE transactions conflict: the second to commit is aborted.
Conflict(a, b) == Isolation = "SERIALIZABLE" /\ Touched(a) \intersect Touched(b) # {}

-----------------------------------------------------------------------------
Started == {e \in Executions : exec[e].status = "EXECUTING"}

Prepare(e, u) ==
    /\ exec[e] = Absent
    /\ status = "PUBLISHED"
    /\ exec' = [exec EXCEPT ![e] =
          [status |-> "PREPARED", preparer |-> u, plan |-> actions,
           evidence |-> <<>>, done |-> [i \in DOMAIN actions |-> "PENDING"]]]
    /\ UNCHANGED <<plant, journal, call, moves, disturbed>>

RunPreflight(e) ==
    /\ exec[e].status \in BeforeApproval
    /\ LET found == Simulated(plant, exec[e].plan)
       IN  exec' = [exec EXCEPT
                       ![e].evidence = found,
                       ![e].status = IF AllReady(found) THEN "PREFLIGHT_PASSED"
                                                        ELSE "PREFLIGHT_BLOCKED"]
    /\ UNCHANGED <<plant, journal, call, moves, disturbed>>

Approve(e, u) ==
    /\ exec[e].status = "PREFLIGHT_PASSED"
    /\ u # exec[e].preparer
    /\ exec' = [exec EXCEPT ![e].status = "APPROVED"]
    /\ UNCHANGED <<plant, journal, call, moves, disturbed>>

Cancel(e) ==
    /\ exec[e].status \in BeforeApproval \union {"APPROVED"}
    /\ exec' = [exec EXCEPT ![e].status = "CANCELLED"]
    /\ UNCHANGED <<plant, journal, call, moves, disturbed>>

-----------------------------------------------------------------------------
\* Len + 1 when every action has succeeded.
NextPending(e) ==
    CHOOSE i \in 1..Len(exec[e].plan) + 1 :
        /\ i > Len(exec[e].plan) \/ exec[e].done[i] = "PENDING"
        /\ \A j \in 1..i - 1 : exec[e].done[j] = "SUCCEEDED"

\* An APPROVED execution starts when everything is found as it was approved;
\* one that was interrupted resumes.  No action of an EXECUTING execution is
\* ever found FAILED or RUNNING, though the code is prepared for it.
StartExecution(e) ==
    /\ exec[e].status = "APPROVED"
    /\ call[e] = Idle
    /\ Simulated(plant, exec[e].plan) = exec[e].evidence
    /\ exec' = [exec EXCEPT ![e].status = "EXECUTING"]
    /\ call' = [call EXCEPT ![e] = [pc |-> "next", at |-> 1]]
    /\ UNCHANGED <<plant, journal, moves, disturbed>>

ResumeExecution(e) ==
    /\ exec[e].status = "EXECUTING"
    /\ call[e] = Idle
    /\ call' = [call EXCEPT ![e] = [pc |-> "next", at |-> NextPending(e)]]
    /\ UNCHANGED <<exec, plant, journal, moves, disturbed>>

BeginAction(e) ==
    /\ call[e].pc = "next" /\ call[e].at <= Len(exec[e].plan)
    /\ call' = [call EXCEPT ![e] = [pc |-> "applying", at |-> @.at, seen |-> plant]]
    /\ UNCHANGED <<exec, plant, journal, moves, disturbed>>

AsApproved(e) ==
    LET i == call[e].at IN Preflight(call[e].seen, exec[e].plan[i]) = exec[e].evidence[i]

\* The effect, its signal and the action's success commit together.  Others
\* in a conflicting transaction are aborted and leave their execution EXECUTING.
ApplyAction(e) ==
    LET i == call[e].at
        a == exec[e].plan[i]
    IN  /\ call[e].pc = "applying"
        /\ AsApproved(e)
        /\ RowsUnchanged(call[e].seen, plant, a)
        /\ plant' = Effect(call[e].seen, plant, a)
        /\ journal' = Append(journal, <<e, i>>)
        /\ exec' = [exec EXCEPT ![e].done[i] = "SUCCEEDED"]
        /\ call' = [f \in Executions |->
              IF f = e THEN [pc |-> "next", at |-> i + 1]
              ELSE IF call[f].pc = "applying" /\ Conflict(a, exec[f].plan[call[f].at])
                   THEN Idle ELSE call[f]]
        /\ disturbed' = disturbed \union (Started \ {e})
        /\ UNCHANGED moves

FindDrift(e) ==
    /\ call[e].pc = "applying"
    /\ ~AsApproved(e)
    /\ call' = [call EXCEPT ![e] = [pc |-> "drifted", at |-> @.at]]
    /\ UNCHANGED <<exec, plant, journal, moves, disturbed>>

\* Any other error of the action, with the action read as PENDING afterwards.
ActionBreaks(e) ==
    /\ call[e].pc = "applying"
    /\ call' = [call EXCEPT ![e] = [pc |-> "broken", at |-> @.at]]
    /\ UNCHANGED <<exec, plant, journal, moves, disturbed>>

\* mutant: everything but the failed action is skipped
SkippingAll(done, i) == [j \in DOMAIN done |-> IF j = i THEN "FAILED" ELSE "SKIPPED"]

FailedAt(done, i) ==
    [j \in DOMAIN done |-> IF done[j] # "PENDING" THEN done[j]
                           ELSE IF j = i THEN "FAILED"
                           ELSE IF j > i THEN "SKIPPED" ELSE done[j]]

MarkExecutionFailure(e) ==
    /\ call[e].pc \in {"drifted", "broken"}
    /\ LET done == FailedAt(exec[e].done, call[e].at)
       IN  exec' = [exec EXCEPT
              ![e].done = done,
              ![e].status = IF \E i \in DOMAIN done : done[i] = "SUCCEEDED"
                            THEN "PARTIAL_FAILED" ELSE "FAILED"]
    /\ call' = [call EXCEPT ![e] = Idle]
    /\ disturbed' = disturbed \ {e}
    /\ UNCHANGED <<plant, journal, moves>>

FinalizeExecutionSuccess(e) ==
    /\ call[e].pc = "next" /\ call[e].at > Len(exec[e].plan)
    /\ exec[e].status = "EXECUTING"
    /\ \A i \in DOMAIN exec[e].done : exec[e].done[i] = "SUCCEEDED"
    /\ exec' = [exec EXCEPT ![e].status = "SUCCEEDED"]
    /\ call' = [call EXCEPT ![e] = Idle]
    /\ disturbed' = disturbed \ {e}
    /\ UNCHANGED <<plant, journal, moves>>

\* The server stops, the connection breaks, PostgreSQL aborts the transaction,
\* or the durable status cannot be read: the execution stays EXECUTING.
Interrupt(e) ==
    /\ call[e] # Idle
    /\ call' = [call EXCEPT ![e] = Idle]
    /\ UNCHANGED <<exec, plant, journal, moves, disturbed>>

-----------------------------------------------------------------------------
Move(p) ==
    /\ moves < MaxMoves
    /\ \E e \in Executions : exec[e] # Absent
    /\ plant' = p
    /\ moves' = moves + 1
    /\ disturbed' = Started
    /\ UNCHANGED <<exec, journal, call>>

PurchaseReceived == plant.open > 0 /\ Move([plant EXCEPT !.open = @ - 1])
SupplierRevises == Move([plant EXCEPT !.date = @ + 1])
StockMoves == \E d \in {-1, 1} : plant.available + d >= 0 /\ Move([plant EXCEPT !.available = @ + d])
RoutingChanges == \E v \in 0..2 \ {plant.routing} : Move([plant EXCEPT !.routing = v])
OperationStarts == plant.op.status = "READY" /\ Move([plant EXCEPT !.op.status = "IN_PROGRESS"])

OrderReleased(w) ==
    /\ plant.wo[w].status = "PLANNED"
    /\ plant.routing # 0
    /\ plant.available >= Need[w]
    /\ Move([plant EXCEPT !.wo[w].status = "RELEASED", !.available = @ - Need[w]])

OrderStarts(w) ==
    /\ plant.wo[w].status = "RELEASED"
    /\ Move([plant EXCEPT !.wo[w].status = "IN_PROGRESS"])

Others ==
    \/ PurchaseReceived \/ SupplierRevises \/ StockMoves \/ RoutingChanges \/ OperationStarts
    \/ \E w \in WorkOrders : OrderReleased(w) \/ OrderStarts(w)

ExecutionNext ==
    \/ \E e \in Executions :
        \/ \E u \in Users : Prepare(e, u) \/ Approve(e, u)
        \/ RunPreflight(e) \/ Cancel(e)
        \/ StartExecution(e) \/ ResumeExecution(e)
        \/ BeginAction(e) \/ ApplyAction(e) \/ FindDrift(e) \/ ActionBreaks(e)
        \/ MarkExecutionFailure(e) \/ FinalizeExecutionSuccess(e) \/ Interrupt(e)
    \/ Others

Next ==
    \/ ScenarioNext /\ UNCHANGED executionVars
    \/ ExecutionNext /\ UNCHANGED scenarioVars

Spec == Init /\ [][Next]_vars

-----------------------------------------------------------------------------
\* The places of an execution in the journal.
Entries(e) == {k \in DOMAIN journal : journal[k][1] = e}

\* Whatever stops, resumes or fails: the actions an execution applied to the
\* plant are the first k of its plan, in order and once each, they are just
\* those recorded as SUCCEEDED, and its status tells all, some or none.
OutcomeMatchesEffects ==
    \A e \in Executions : exec[e] # Absent =>
        LET k == Cardinality(Entries(e))
            n == Len(exec[e].plan)
        IN  /\ \A x \in Entries(e) : journal[x][2] = Cardinality({y \in Entries(e) : y <= x})
            /\ {i \in 1..n : exec[e].done[i] = "SUCCEEDED"} = 1..k
            /\ exec[e].status = "SUCCEEDED" => k = n
            /\ exec[e].status = "PARTIAL_FAILED" => k > 0 /\ exec[e].done[k + 1] = "FAILED"
            /\ exec[e].status \in {"FAILED", "CANCELLED"} => k = 0

\* An execution never takes its own effects for somebody else's: it finds
\* drift only if another execution or person changed the plant since it began.
NoSelfDrift == \A e \in Executions : call[e].pc = "drifted" => e \in disturbed

\* The overtime of the day is what the executions added to it, and executions
\* that run at once do not together extend the clock past the day.
OvertimeWithinDay ==
    /\ plant.overtime = SumFunctionOnSet([k \in DOMAIN journal |->
           LET a == exec[journal[k][1]].plan[journal[k][2]]
           IN  IF a.type = "ADD_OVERTIME_CAPACITY" THEN a.value ELSE 0], DOMAIN journal)
    /\ plant.overtime <= MaxClock

\* docs/WO_ATOMIC_RELEASE.md:40 "The resulting reserved quantity cannot become
\* 160 through concurrent WO releases.": all orders released, the component covers
\* them.
ReleasesAreCovered ==
    (\A w \in WorkOrders : plant.wo[w].status # "PLANNED") => plant.available >= 0
=============================================================================
