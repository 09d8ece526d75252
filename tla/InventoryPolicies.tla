-------------------------- MODULE InventoryPolicies --------------------------
(***************************************************************************)
(* Versions of the inventory policy of an item and the refresh that          *)
(* calculates the figures of the active ones.  A refresh reads one database   *)
(* snapshot, then takes shared locks on the versions it found active, and     *)
(* keeps them until its results are committed; an activation or an archival   *)
(* in between makes it fail or waits for it.                                 *)
(***************************************************************************)
EXTENDS Integers, FiniteSets, FiniteSetsExt

CONSTANTS
    Stocked,         \* items.id
    PolicyVersions,  \* inventory_policy_versions.id
    PolicyRuns,      \* calls of Refresh
    SafetyStock,     \* items.safety_stock
    MinHistory,      \* min_history_days of the versions
    OrderCycle,      \* order_cycle_days of the versions
    Histories,       \* what issues and deliveries of an item may amount to
    LastDate

ASSUME InventoryPolicyAssumption ==
    /\ LastDate \in Nat /\ MinHistory \in Nat /\ OrderCycle \in Nat /\ SafetyStock \in Nat
    /\ Histories \subseteq [days : Nat, average : Nat, lead : Nat, spread : Nat]
    /\ Stocked # {}

VARIABLES
    version,  \* inventory_policy_versions
    statistics,  \* demand and lead time statistics of an item
    policyRun,\* inventory_policy_runs, with what their snapshots show
    results,  \* inventory_policy_results of complete runs
    date      \* eco_business_date

policyVars == <<version, statistics, policyRun, results, date>>

InventoryPolicyVersion == [item : Stocked, status : {"NONE", "DRAFT", "ACTIVE", "ARCHIVED"}, fixed : {-1, 2}, minMax : BOOLEAN, effective : 0..LastDate]
\* Normalized input: a FIXED policy has a safety stock, a STATISTICAL one here has none.
CreateVersion(v, i, fixed, minMax, from) ==
    /\ version[v].status = "NONE"
    /\ version' = [version EXCEPT ![v] = [item |-> i, status |-> "DRAFT", fixed |-> fixed, minMax |-> minMax, effective |-> from]]
    /\ UNCHANGED <<statistics, policyRun, results, date>>

\* A version a refresh holds a shared lock on cannot be updated.
Shared(v) == \E r \in PolicyRuns : policyRun[r].phase = "locked" /\ v \in policyRun[r].found
ActiveOf(i) == {v \in PolicyVersions : version[v].item = i /\ version[v].status = "ACTIVE"}
ActivateVersion(v) ==
    /\ version[v].status = "DRAFT" /\ version[v].effective <= date
    /\ \A w \in ActiveOf(version[v].item) : ~Shared(w)
    /\ version' = [w \in PolicyVersions |-> IF w = v THEN [version[w] EXCEPT !.status = "ACTIVE"]
                                            ELSE IF w \in ActiveOf(version[v].item) THEN [version[w] EXCEPT !.status = "ARCHIVED"]
                                            ELSE version[w]]
    /\ UNCHANGED <<statistics, policyRun, results, date>>
ArchiveVersion(v) ==
    /\ version[v].status = "ACTIVE" /\ ~Shared(v)
    /\ version' = [version EXCEPT ![v].status = "ARCHIVED"]
    /\ UNCHANGED <<statistics, policyRun, results, date>>

-----------------------------------------------------------------------------
(* Refresh.                                                                *)
NoRun == [phase |-> "idle", asOf |-> 0, started |-> 0, found |-> {}, statistics |-> [i \in Stocked |-> [days |-> 0, average |-> 0, lead |-> 0, spread |-> 0]]]
Starts == Cardinality({r \in PolicyRuns : policyRun[r].phase # "idle"})
BeginRefresh(r, asOf) ==
    /\ policyRun[r].phase = "idle"
    /\ policyRun' = [policyRun EXCEPT ![r] = [phase |-> "reading", asOf |-> asOf, started |-> Starts + 1, statistics |-> statistics,
                        found |-> {v \in PolicyVersions : version[v].status = "ACTIVE" /\ version[v].effective <= asOf}]]
    /\ UNCHANGED <<version, statistics, results, date>>
\* mutant: the versions are read without their locks, so nothing tells that one has been archived.
Unlocked(r) == TRUE
\* Every version found is still as the snapshot shows it.
Lockable(r) == \A v \in policyRun[r].found : version[v].status = "ACTIVE"
LockPolicies(r) ==
    /\ policyRun[r].phase = "reading"
    /\ policyRun' = [policyRun EXCEPT ![r].phase = IF Lockable(r) THEN "locked" ELSE "failed"]
    /\ UNCHANGED <<version, statistics, results, date>>

\* The square root of the variance, and the quantile, are left out: what counts is that the spread raises it.
StatisticalSafetyStock(h) == h.spread * h.lead
Safety(v, h) == IF version[v].fixed >= 0 THEN version[v].fixed
                ELSE IF h.days >= MinHistory THEN StatisticalSafetyStock(h) ELSE SafetyStock
Figures(v, h) ==
    LET reorder == h.average * h.lead + Safety(v, h)
    IN [safety |-> Safety(v, h), min |-> reorder, max |-> reorder + (IF version[v].minMax THEN h.average * OrderCycle ELSE 0)]
Refresh(r) ==
    /\ policyRun[r].phase = "locked"
    /\ results' = results \cup {[run |-> r, version |-> v, figures |-> Figures(v, policyRun[r].statistics[version[v].item])] : v \in policyRun[r].found}
    /\ policyRun' = [policyRun EXCEPT ![r].phase = "complete"]
    /\ UNCHANGED <<version, statistics, date>>

\* Goods are issued and delivered.
HistoryGrows(i, h) == statistics' = [statistics EXCEPT ![i] = h] /\ UNCHANGED <<version, policyRun, results, date>>
NextDate == date < LastDate /\ date' = date + 1 /\ UNCHANGED <<version, statistics, policyRun, results>>

-----------------------------------------------------------------------------
(* What planning uses: the calculation that started last of the active        *)
(* version, else the fixed or the item's safety stock.                       *)
ResultsOf(v) == {x \in results : x.version = v}
LastStarted(S) == CHOOSE x \in S : \A y \in S : policyRun[y.run].started <= policyRun[x.run].started
Flat(q) == [safety |-> q, min |-> q, max |-> q]
Effective(i) ==
    LET current == {v \in ActiveOf(i) : version[v].effective <= date} IN
    IF current = {} THEN [status |-> "ITEM_MASTER", minMax |-> FALSE, figures |-> Flat(SafetyStock)]
    ELSE LET v == CHOOSE v \in current : TRUE IN
         IF ResultsOf(v) = {} THEN [status |-> "FALLBACK", minMax |-> FALSE, figures |-> Flat(IF version[v].fixed >= 0 THEN version[v].fixed ELSE SafetyStock)]
         ELSE [status |-> "CALCULATED", minMax |-> version[v].minMax, figures |-> LastStarted(ResultsOf(v)).figures]

PolicyTypeOK ==
    /\ version \in [PolicyVersions -> InventoryPolicyVersion] /\ statistics \in [Stocked -> Histories]
    /\ \A x \in results : x.run \in PolicyRuns /\ x.version \in PolicyVersions
PolicyInit ==
    /\ version = [v \in PolicyVersions |-> [item |-> CHOOSE i \in Stocked : TRUE, status |-> "NONE", fixed |-> -1, minMax |-> FALSE, effective |-> 0]]
    /\ statistics \in [Stocked -> Histories] /\ policyRun = [r \in PolicyRuns |-> NoRun] /\ results = {} /\ date = 0
PolicyNext ==
    \/ \E v \in PolicyVersions : ActivateVersion(v) \/ ArchiveVersion(v)
                                 \/ \E i \in Stocked, fixed \in {-1, 2}, minMax \in BOOLEAN, from \in 0..LastDate : CreateVersion(v, i, fixed, minMax, from)
    \/ \E r \in PolicyRuns : LockPolicies(r) \/ Refresh(r) \/ \E asOf \in 0..LastDate : BeginRefresh(r, asOf)
    \/ \E i \in Stocked, h \in Histories : HistoryGrows(i, h)
    \/ NextDate
PolicySpec == PolicyInit /\ [][PolicyNext]_policyVars

-----------------------------------------------------------------------------
\* A refresh never stores figures for a version that is no longer active, so that whatever refreshes, activations
\* and archivals overlap an item has one active policy, its figures are those of that policy, and a maximum is
\* never below the minimum (Refresh, ActivateVersion, guard_inventory_policy_result_insert).
FiguresForActive ==
    [][/\ \A x \in results' \ results : version[x.version].status = "ACTIVE"
       /\ \A i \in Stocked : Cardinality(ActiveOf(i)') <= 1 /\ LET f == Effective(i)'.figures IN f.safety <= f.min /\ f.min <= f.max]_policyVars
=============================================================================
