------------------------------ MODULE MCControl ------------------------------
(* What watches and corrects the plan, in five parts that share no state:      *)
(* planners who schedule and reschedule from nothing beside the shop floor;    *)
(* signals, policies and maintenance under automatic reschedules; a control    *)
(* tower over a changing world; two planners on one of its cases; refreshes    *)
(* of the inventory policy of an item.                                        *)
EXTENDS Rescheduling, ControlTower, InventoryPolicies, TLC

CONSTANTS wide, narrow

VARIABLE half

MCVars == <<vars, towerVars, policyVars, half>>

MCFreeze == [p \in Policies |-> IF p = wide THEN 2 ELSE 1]
MCFirm == [p \in Policies |-> 2]
MCInterval == [p \in Policies |-> IF p = wide THEN 1 ELSE 0]

\* Operations and requests are alike; so are the ids of runs.
Symmetry == Permutations(Ops) \union Permutations(Requests) \union Permutations(Runs)

-----------------------------------------------------------------------------
ScheduledInit ==
    \E r \in Runs, f \in [Ops -> {MaxTime}] :
        /\ schedule = [x \in Runs |-> IF x = r THEN [start |-> f, op |-> op, revision |-> revision]
                                               ELSE NoRow]
        /\ active = r
        /\ history = <<[previous |-> None, active |-> r, policy |-> CurrentPolicy, rescheduled |-> FALSE]>>

MCSchedulingInit ==
    /\ clock = 0
    /\ op = [o \in Ops |-> "READY"]
    /\ revision = [e \in Events |-> [no |-> 0, status |-> "NONE"]]
    /\ policy = [p \in Policies |-> IF p = narrow THEN "ACTIVE" ELSE "DRAFT"]
    /\ reschedule = [r \in Runs |-> NoRow]
    /\ signals = <<>>
    /\ req = [q \in Requests |-> Idle]
    /\ IF half = "signals" THEN ScheduledInit ELSE schedule = [r \in Runs |-> NoRow] /\ active = None /\ history = <<>>

MCSchedulingNext ==
    /\ half \in {"planners", "signals"}
    /\ half = "planners" => UNCHANGED <<revision, policy>>
    /\ Next
    /\ IF half = "planners"
       THEN /\ \A o \in Ops : op'[o] \in {"READY", "IN_PROGRESS"}
            /\ \A q \in Requests : req'[q].pc # "begin"
       ELSE /\ \A r \in Runs, o \in Ops :
                   (schedule'[r] # NoRow /\ o \in DOMAIN schedule'[r].start) => schedule'[r].start[o] = MaxTime
            /\ \A q \in Requests : req'[q].pc \in {"build", "evaluate"} =>
                                      req'[q].kind = "reschedule" /\ req'[q].read # {}
    /\ UNCHANGED <<towerVars, policyVars>>

-----------------------------------------------------------------------------
MCRange == {0, 200000, 600000}
MCFound(key, type, severity, impact) == [key |-> key, type |-> type, severity |-> severity, impact |-> impact]
MCScans == {{}, {MCFound(1, "LATE_PURCHASE_ORDER", "WARNING", 3), MCFound(2, "MATERIAL_SHORTAGE", "INFO", 0)},
            {MCFound(1, "LATE_PURCHASE_ORDER", "CRITICAL", 3)}}
MCCase == [order |-> 1, key |-> 1, type |-> "LATE_PURCHASE_ORDER"]
MCOrder(v) == [priority |-> "NORMAL", rank |-> 3, value |-> v, open |-> TRUE]
MCTowerInit ==
    /\ IF half = "tower" THEN \E v \in MCRange : order = [o \in Orders |-> MCOrder(IF o = 1 THEN v ELSE 200000)]
                         ELSE order = [o \in Orders |-> MCOrder(0)]
    /\ exceptions = {} /\ snapshots = {} /\ actions = <<>> /\ tick = 0
    /\ cases = IF half = "cases" THEN {MCCase} ELSE {}
    /\ refresh = [r \in Refreshes |-> NoRefresh] /\ acting = [p \in Planners |-> NoAction]
MCTowerNext ==
    /\ \/ /\ half = "tower"
          /\ \/ \E r \in Refreshes : RequestRefresh(r, tick) \/ CurrentExceptionRows(r) \/ Store(r) \/ Rollback(r) \/ Return(r)
             \/ \E p \in {"NORMAL", "EXPEDITE"} : p # order[1].priority /\ SetOrder(1, [order[1] EXCEPT !.priority = p])
             \/ \E o \in Orders \ {1} : order[o].open /\ SetOrder(o, [order[o] EXCEPT !.open = FALSE])
             \/ \E o \in Orders, found \in MCScans : PegOrder(o, found)
             \/ \E x \in exceptions : ResolveException(x)
       \/ half = "cases" /\ \E p \in Planners : ActOnCase(p) \/ \E c \in cases, a \in DOMAIN After("OPEN") : BeginAction(p, c, a)
    /\ UNCHANGED <<vars, policyVars>>

-----------------------------------------------------------------------------
MCUnused == [days |-> 0, average |-> 0, lead |-> 1, spread |-> 0]
MCUsed == [days |-> 9, average |-> 2, lead |-> 2, spread |-> 1]
MCHistories == {MCUnused, MCUsed}
\* The first version is in use already.
MCPolicyInit ==
    /\ version = [v \in PolicyVersions |-> [item |-> CHOOSE i \in Stocked : TRUE, status |-> IF v = 1 THEN "ACTIVE" ELSE "NONE",
                                            fixed |-> -1, minMax |-> TRUE, effective |-> 0]]
    /\ statistics = [i \in Stocked |-> MCUnused] /\ policyRun = [r \in PolicyRuns |-> NoRun] /\ results = {} /\ date = 0
MCPolicyNext ==
    /\ half = "policies"
    /\ \/ \E v \in PolicyVersions : ActivateVersion(v) \/ ArchiveVersion(v) \/ \E i \in Stocked, fixed \in {-1, 2} : CreateVersion(v, i, fixed, FALSE, 1)
       \/ \E r \in PolicyRuns : LockPolicies(r) \/ Refresh(r) \/ \E asOf \in 0..LastDate : BeginRefresh(r, asOf)
       \/ \E i \in Stocked : HistoryGrows(i, MCUsed)
       \/ NextDate
    /\ UNCHANGED <<vars, towerVars>>

-----------------------------------------------------------------------------
MCInit == half \in {"planners", "signals", "tower", "cases", "policies"} /\ MCSchedulingInit /\ MCTowerInit /\ MCPolicyInit
MCNext == (MCSchedulingNext \/ MCTowerNext \/ MCPolicyNext) /\ UNCHANGED half
MCSpec == MCInit /\ [][MCNext]_MCVars
=============================================================================
