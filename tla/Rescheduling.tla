---------------------------- MODULE Rescheduling ----------------------------
(***************************************************************************)
(* The active execution schedule and what replaces it: a planner's detailed *)
(* schedule, or a reschedule that builds a candidate, compares it with the  *)
(* active one and switches the pointer if nothing frozen or begun is moved. *)
(* Signals of the shop floor and of maintenance are drained by whoever      *)
(* happens to commit next; nothing serialises those callers.               *)
(*                                                                         *)
(* A request is a sequence of transactions: it reads the pointer and the    *)
(* policy, builds the candidate, compares, and commits the outcome.  Times  *)
(* are in steps of the clock; a schedule is the planned start of each       *)
(* operation it holds (the work center moves with it).                     *)
(***************************************************************************)
EXTENDS Integers, Sequences, FiniteSets

CONSTANTS
    Ops,         \* operations of released work orders
    Events,      \* maintenance events
    Policies,    \* dispatch_policy_versions
    Freeze,      \* Freeze[p], Firm[p]: fences of a policy, Interval[p]: least time
    Firm,        \* between two automatic activations
    Interval,
    Requests,    \* requests served at once
    Runs,        \* ids of detailed schedules; a reschedule has that of its candidate
    MaxTime,     \* bound: the clock
    MaxSignals,  \* bound: signals raised
    MaxRevisions, \* bound: revisions of an event
    None

ASSUME ReschedulingAssumption ==
    /\ {MaxTime, MaxSignals, MaxRevisions} \subseteq Nat
    /\ None \notin Runs \union Policies
    /\ \A p \in Policies : /\ Freeze[p] \in Nat /\ Firm[p] \in Nat /\ Freeze[p] <= Firm[p]
                           /\ Interval[p] \in Nat

VARIABLES
    clock,
    op,         \* wo_operations.status
    revision,   \* maintenance_event_revisions: the latest of each event
    policy,     \* dispatch_policy_versions.status
    schedule,   \* detailed_schedule_runs
    active,     \* detailed_schedule_execution_state.active_run_id, or None
    history,    \* detailed_schedule_activation_history
    reschedule, \* dynamic_reschedule_runs
    signals,    \* schedule_reschedule_signals
    req         \* the requests being served

vars == <<clock, op, revision, policy, schedule, active, history, reschedule, signals, req>>
plantVars == <<clock, op, revision, policy>>
scheduleVars == <<schedule, active, history>>

Times == 0..MaxTime
Unplanned == MaxTime + 1
OpStatus == {"READY", "IN_PROGRESS", "PAUSED", "COMPLETED"}
Executed == {"IN_PROGRESS", "PAUSED", "COMPLETED"}
MaintenanceStatus == {"PLANNED", "ACTIVE", "COMPLETED", "CANCELLED"}
Revision == [no : Nat, status : MaintenanceStatus \union {"NONE"}]
Plan == UNION {[S -> Times \union {Unplanned}] : S \in SUBSET Ops}
Schedule == [start : Plan, op : [Ops -> OpStatus], revision : [Events -> Revision]]
Reschedule == [source : Runs, policy : Policies, asOf : Times, system : BOOLEAN, finished : Times,
               status : {"EVALUATING", "ACTIVATED", "BLOCKED", "NO_CHANGE", "FAILED"}]
Idle == [pc |-> "idle"]
NoRow == [status |-> "NONE"]

TypeOK ==
    /\ clock \in Times /\ op \in [Ops -> OpStatus] /\ revision \in [Events -> Revision]
    /\ policy \in [Policies -> {"DRAFT", "ACTIVE", "ARCHIVED"}]
    /\ schedule \in [Runs -> Schedule \union {NoRow}]
    /\ active \in Runs \union {None}
    /\ reschedule \in [Runs -> Reschedule \union {NoRow}]
    /\ \A k \in DOMAIN signals : signals[k].by \in Runs \union {None}

Init ==
    /\ clock = 0
    /\ op = [o \in Ops |-> "READY"]
    /\ revision = [e \in Events |-> [no |-> 0, status |-> "NONE"]]
    /\ \E p \in Policies : policy = [q \in Policies |-> IF q = p THEN "ACTIVE" ELSE "DRAFT"]
    /\ schedule = [r \in Runs |-> NoRow]
    /\ active = None /\ history = <<>>
    /\ reschedule = [r \in Runs |-> NoRow]
    /\ signals = <<>>
    /\ req = [q \in Requests |-> Idle]

-----------------------------------------------------------------------------
CurrentPolicy == CHOOSE p \in Policies : policy[p] = "ACTIVE"

\* Triggers queue a signal with the transaction, once there is a schedule.
Raise(s) ==
    IF active = None THEN UNCHANGED signals
    ELSE /\ Len(signals) < MaxSignals
         /\ signals' = Append(signals, [of |-> s, by |-> None])

Tick ==
    /\ clock < MaxTime
    /\ clock' = clock + 1
    /\ UNCHANGED <<op, revision, policy, scheduleVars, reschedule, signals, req>>

Progress(o, from, to) ==
    /\ op[o] \in from
    /\ op' = [op EXCEPT ![o] = to]
    /\ Raise([kind |-> "op", at |-> o, status |-> to])
    /\ UNCHANGED <<clock, revision, policy, scheduleVars, reschedule, req>>

Start(o) == Progress(o, {"READY", "PAUSED"}, "IN_PROGRESS")
Stop(o) == Progress(o, {"IN_PROGRESS"}, "PAUSED")
Complete(o) == Progress(o, {"IN_PROGRESS"}, "COMPLETED")

\* Create is the first revision; an event that has ended is never revised.
Revise(e, s) ==
    /\ revision[e].no < MaxRevisions
    /\ CASE revision[e].status = "NONE" -> s \in {"PLANNED", "ACTIVE"}
         [] revision[e].status = "ACTIVE" -> s # "PLANNED"
         [] OTHER -> revision[e].status = "PLANNED"
    /\ revision' = [revision EXCEPT ![e] = [no |-> @.no + 1, status |-> s]]
    /\ Raise([kind |-> "maintenance", at |-> e, no |-> revision[e].no + 1])
    /\ UNCHANGED <<clock, op, policy, scheduleVars, reschedule, req>>

ActivatePolicy(p) ==
    /\ policy[p] = "DRAFT"
    /\ policy' = [x \in Policies |-> IF x = p THEN "ACTIVE"
                                     ELSE IF policy[x] = "ACTIVE" THEN "ARCHIVED" ELSE policy[x]]
    /\ UNCHANGED <<clock, op, revision, scheduleVars, reschedule, signals, req>>

-----------------------------------------------------------------------------
\* The schedules the scheduler may build: every unfinished operation, at asOf
\* or later, or left without a time.
Candidates(asOf) ==
    {[start |-> f, op |-> op, revision |-> revision] :
        f \in [{o \in Ops : op[o] # "COMPLETED"} -> {t \in Times : t >= asOf} \union {Unplanned}]}

Unused == {r \in Runs : schedule[r] = NoRow /\ reschedule[r] = NoRow}

Previous(q) == active

Activated(q, r) ==
    /\ active' = r
    /\ history' = Append(history, [previous |-> Previous(q), active |-> r,
                                   policy |-> CurrentPolicy, rescheduled |-> req[q].kind # "direct"])

BuildSchedule(q, r) ==
    /\ req[q] = Idle
    /\ r \in Unused
    /\ \E c \in Candidates(clock) : schedule' = [schedule EXCEPT ![r] = c]
    /\ req' = [req EXCEPT ![q] = [pc |-> "build", kind |-> "direct", run |-> r, source |-> active]]
    /\ UNCHANGED <<plantVars, active, history, reschedule, signals>>

\* The row of the pointer is locked; while there is none nothing is.
FindNoSchedule(q) ==
    /\ req[q].pc = "build"
    /\ active = None
    /\ req' = [req EXCEPT ![q].pc = "first"]
    /\ UNCHANGED <<plantVars, scheduleVars, reschedule, signals>>

ActivateSchedule(q) ==
    /\ \/ req[q].pc = "build" /\ active # None /\ Activated(q, req[q].run)
       \/ /\ req[q].pc = "first"
          /\ active' = req[q].run
          /\ history' = Append(history, [previous |-> None, active |-> req[q].run,
                                         policy |-> CurrentPolicy, rescheduled |-> FALSE])
    /\ req' = [req EXCEPT ![q] = Idle]
    /\ UNCHANGED <<plantVars, schedule, reschedule, signals>>

-----------------------------------------------------------------------------
Pending == {k \in DOMAIN signals : signals[k].by = None}

LastAutomatic ==
    {reschedule[r].finished : r \in {x \in Runs : /\ reschedule[x].status = "ACTIVATED"
                                                  /\ reschedule[x].system}}

\* ProcessPendingSignals, called by the handlers after their commit and by users.
ReadSignals(q) ==
    /\ req[q] = Idle
    /\ Pending # {} /\ active # None
    /\ \A t \in LastAutomatic : clock - t >= Interval[CurrentPolicy]
    /\ req' = [req EXCEPT ![q] = [pc |-> "begin", read |-> Pending]]
    /\ UNCHANGED <<plantVars, scheduleVars, reschedule, signals>>

\* A planner may give any time; the automatic reschedule takes the present.
BeginReschedule(q, r, asOf) ==
    /\ \/ req[q] = Idle
       \/ req[q].pc = "begin" /\ asOf = clock
    /\ active # None
    /\ r \in Unused
    /\ reschedule' = [reschedule EXCEPT ![r] =
          [source |-> active, policy |-> CurrentPolicy, asOf |-> asOf, finished |-> clock,
           system |-> req[q] # Idle, status |-> "EVALUATING"]]
    /\ req' = [req EXCEPT ![q] =
          [pc |-> "evaluate", kind |-> "reschedule", run |-> r, source |-> active,
           read |-> IF req[q] = Idle THEN {} ELSE req[q].read]]
    /\ UNCHANGED <<plantVars, scheduleVars, signals>>

BuildCandidate(q) ==
    /\ req[q].pc = "evaluate"
    /\ \E c \in Candidates(reschedule[req[q].run].asOf) :
           schedule' = [schedule EXCEPT ![req[q].run] = c]
    /\ req' = [req EXCEPT ![q].pc = "compare"]
    /\ UNCHANGED <<plantVars, active, history, reschedule, signals>>

\* The plans differ on o.
Changed(old, new, o) ==
    \/ o \in DOMAIN old /\ o \notin DOMAIN new
    \/ o \in DOMAIN new /\ o \notin DOMAIN old
    \/ o \in DOMAIN old \intersect DOMAIN new /\ old[o] # new[o]

Anchor(old, new, o) ==
    IF o \in DOMAIN old /\ (old[o] # Unplanned \/ o \notin DOMAIN new) THEN old[o] ELSE new[o]

Fence(p, asOf, status, anchor) ==
    IF status \in Executed THEN "EXECUTED"
    ELSE IF anchor = Unplanned THEN "FLEXIBLE"
    ELSE IF anchor >= asOf /\ anchor < asOf + Freeze[p] THEN "FROZEN"
    ELSE IF anchor < asOf + Firm[p] THEN "FIRM" ELSE "FLEXIBLE"

\* What was planned and is frozen or begun may not change.
Conflicts(p, asOf, statuses, old, new) ==
    {o \in DOMAIN old : /\ Changed(old, new, o)
                        /\ Fence(p, asOf, statuses[o], Anchor(old, new, o)) \in {"FROZEN", "EXECUTED"}}

CompareSchedules(q) ==
    /\ req[q].pc = "compare"
    /\ LET r == reschedule[req[q].run]
           old == schedule[r.source].start
           new == schedule[req[q].run].start
       IN  req' = [req EXCEPT ![q] =
              [pc |-> "finish", kind |-> @.kind, run |-> @.run, source |-> @.source, read |-> @.read,
               outcome |-> IF \A o \in Ops : ~Changed(old, new, o) THEN "NO_CHANGE"
                           ELSE IF Conflicts(r.policy, r.asOf, op, old, new) # {} THEN "BLOCKED"
                           ELSE "ACTIVATED"]]
    /\ UNCHANGED <<plantVars, scheduleVars, reschedule, signals>>

\* mutant: the pointer is switched whatever it points to by now
AnySchedule(q) == TRUE

StillActive(q) == active = req[q].source

Ended(r, status) ==
    reschedule' = [reschedule EXCEPT ![r].status = status, ![r].finished = clock]

FinishReschedule(q) ==
    /\ req[q].pc = "finish"
    /\ \/ /\ req[q].outcome = "ACTIVATED"
          /\ StillActive(q)
          /\ Activated(q, req[q].run)
       \/ /\ req[q].outcome # "ACTIVATED"
          /\ UNCHANGED <<active, history>>
    /\ Ended(req[q].run, req[q].outcome)
    /\ req' = [req EXCEPT ![q] = IF req[q].read = {} THEN Idle
                                 ELSE [pc |-> "acknowledge", run |-> req[q].run, read |-> req[q].read]]
    /\ UNCHANGED <<plantVars, schedule, signals>>

\* The scheduler or a statement fails, or the pointer has moved.
FailReschedule(q) ==
    /\ req[q].pc \in {"evaluate", "compare", "finish"}
    /\ Ended(req[q].run, "FAILED")
    /\ req' = [req EXCEPT ![q] = Idle]
    /\ UNCHANGED <<plantVars, scheduleVars, signals>>

\* mutant: every signal pending by now is acknowledged
AllPending(q) == Pending

Read(q) == req[q].read

\* Whatever the outcome was, BLOCKED included.
AcknowledgeSignals(q) ==
    /\ req[q].pc = "acknowledge"
    /\ signals' = [k \in DOMAIN signals |->
          IF k \in Read(q) \intersect Pending THEN [signals[k] EXCEPT !.by = req[q].run] ELSE signals[k]]
    /\ req' = [req EXCEPT ![q] = Idle]
    /\ UNCHANGED <<plantVars, scheduleVars, reschedule>>

\* The server stops or the request is cancelled, and with it the statement
\* that would mark the run FAILED.
Abandon(q) ==
    /\ req[q] # Idle
    /\ req' = [req EXCEPT ![q] = Idle]
    /\ UNCHANGED <<plantVars, scheduleVars, reschedule, signals>>

PlantNext ==
    \/ Tick
    \/ \E o \in Ops : Start(o) \/ Stop(o) \/ Complete(o)
    \/ \E e \in Events, s \in MaintenanceStatus : Revise(e, s)
    \/ \E p \in Policies : ActivatePolicy(p)

RequestNext ==
    \E q \in Requests :
        \/ \E r \in Runs : BuildSchedule(q, r) \/ \E t \in Times : BeginReschedule(q, r, t)
        \/ FindNoSchedule(q) \/ ActivateSchedule(q)
        \/ ReadSignals(q) \/ BuildCandidate(q) \/ CompareSchedules(q)
        \/ FinishReschedule(q) \/ FailReschedule(q) \/ AcknowledgeSignals(q) \/ Abandon(q)

Next == PlantNext \/ RequestNext

Spec == Init /\ [][Next]_vars

-----------------------------------------------------------------------------
\* However reschedules and planners' schedules race, a reschedule that takes over
\* leaves alone every operation that the schedule it replaces, not merely the one
\* it was compared with, had planned inside its frozen time.
FrozenHorizonKept ==
    [][(active' # active /\ history'[Len(history')].rescheduled) =>
          LET r == reschedule[active']
              old == schedule[active].start
              new == schedule[active'].start
          IN  \A o \in DOMAIN old :
                 old[o] \in Times \intersect (r.asOf..(r.asOf + Freeze[r.policy] - 1)) =>
                     o \in DOMAIN new /\ new[o] = old[o]]_vars

\* A signal is acknowledged only by a run whose candidate was built with what it
\* signals known; one raised while a run is at work waits for another.
AcknowledgedWereSeen ==
    \A k \in DOMAIN signals : signals[k].by # None =>
        LET s == signals[k].of
            c == schedule[signals[k].by]
        IN  IF s.kind = "maintenance" THEN c.revision[s.at].no >= s.no
            ELSE c.op[s.at] \in Executed

\* REALTIME_DISPATCH_DYNAMIC_RESCHEDULING_SCHEDULE_ADHERENCE.md:128 "This guarantees
\* that only future unstarted commitments can become the new active execution
\* schedule.": a reschedule moves no operation that has begun.
ExecutedNeverMoved ==
    [][(active' # active /\ history'[Len(history')].rescheduled) =>
          LET old == schedule[active].start
              new == schedule[active'].start
          IN  \A o \in DOMAIN old \intersect DOMAIN new : op[o] \in Executed => new[o] = old[o]]_vars
=============================================================================
