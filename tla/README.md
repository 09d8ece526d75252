# TLA+ models of cpim-mes

cpim-mes is a manufacturing planning and execution system: a Go server over
PostgreSQL (`backend/`), a Vue client (`frontend/`), and 42 schema migrations
whose triggers enforce part of the rules. This directory models what it does:
how goods are bought, kept, promised, made and shipped, how the plans for that
are computed, replaced and repaired, and how a server comes into service.

Paths below are relative to the repository; `service/` stands for
`backend/internal/service/`, `00NN` for a migration in `backend/migrations/`.

## 1. The system

All state is in PostgreSQL. A handler in `backend/internal/api` decodes a
request and calls one service; the service opens a transaction (READ COMMITTED
unless it says otherwise), locks rows with `SELECT ... FOR UPDATE`, checks,
writes, and commits; triggers run inside the same transaction, the constraint
triggers at its commit. Several server instances and any number of requests run
at once, so the interleavings to worry about are those of transactions, of the
parts of a request that falls into several, and of clients that retry.

### Components, their state and their operations

| Component | State | Operations | Hard behaviour | What makes it correct | Model |
|---|---|---|---|---|---|
| Work orders and shop floor (`service/shopfloor.go`, `final_operation*.go`, 0020, 0021, 0030) | order status, completed and reported quantity; status and quantity of each operation | start, stop, cumulative report, manual close, progress | operations overlap by transfer batch; reports are cumulative and may come late; progress is checked and written in two steps | quantities chain from step to step to the order, no order strands, nothing goes back | WorkOrderExecution |
| Inventory ledger (`service/inventory_ledger.go`, `traceability.go`, 0018) | header rows per item, movements per lot, lot quality | post a receipt, an issue, an adjustment; reserve and unreserve; draw a named lot | FIFO across lots, explicit allocations, two books (item, lot) | lots never negative, both books agree, oldest first, quarantine not used | StockLedger |
| Release and completion (`service/workflow.go`, 0015-0017) | BOM snapshot, reservations, completion records | release, complete a batch | several orders want one component; BOM changes in between; retried completions; all or nothing | nothing is promised twice; an order uses exactly its snapshot | Production, Commitments |
| Transactions of that workflow (`service/workflow.go`, `api/errors.go`) | row locks, what a transaction has read | lock, read, commit, abort, call again | lock order, foreign-key locks, deadlock and retry | reads stay true until commit, completions do not deadlock each other | StockTransactions |
| Purchase receipts (`service/workflow.go` `ReceivePurchase`, `purchase_receipt_rules.go`, 0022) | received quantity, receipts, supplier profile | receive, change the profile | partial receipts, retries by id, shared lots, a supplier blocked in between | receipts account for orders and lots | PurchaseReceipts |
| Supplier quality, inspections (`service/supplier_quality.go`, `quality.go`, 0024, 0027) | NCRs and dispositions, inspections, lot quality | file, inspect, dispose, close a rework | several NCRs per lot, two deciders, a check before a lock | one decision per NCR, a lot is released only when clear | SupplierQuality |
| Sales orders (`service/sales_orders.go`, 0031) | headers, lines, allocation events, shipments, reservations | create, confirm, allocate, release, ship, cancel | ids looked up before the line is locked; cancel against ship | header, lines, events and ledger agree; a request counts once | SalesOrders |
| Order promising (`order_promising.go`, `atp_quality.go`, `ctp.go`) | runs with their evidence, acceptances, promised dates | check, accept | the calculation is repeated outside the transaction that accepts | a date is what its newest decision says | OrderPromising |
| Backorders, allocation (`backorder.go`, `product_allocation.go`, 0033) | plans, shares, classes, priorities, backorder runs | preview, publish, activate a plan | shares of one supply taken in turns; plans go stale | a published plan fits the supply | Backorders |
| BOM and ECO (`bom.go`, `eco.go`, 0019) | BOM lines, low-level codes, changes and their lines | add, delete, recompute, create, approve, cancel, apply | two valid edits make a cycle; a change applied line by line | no cycle, codes are depths | BillOfMaterials |
| MRP (`service.go`, `mrp_core.go`, `mathutil.go`) | what a run has read, planned orders | run | reads without a transaction; netting by level, lot sizing | each requirement once, no supply twice | MaterialPlanning |
| Forecasts, S&OP, MPS (`forecasting.go`, `sop.go`, 0026) | versions, family plans, mixes, MPS entries | activate, consume, disaggregate, edit | three writers of one entry; rounding | an entry is what its source says | DemandPlanning |
| Capacity and schedules (`crp_finite.go`, `detailed_scheduling.go`, `calendar.go`, `capacity.go`) | batches with lanes and slots, loads | schedule | lanes, workers, setups, alternatives, transfer batches, downtime | a schedule that can be carried out | FiniteScheduling |
| Rescheduling, maintenance (`dispatch_rescheduling.go`, `maintenance.go`, 0039) | active schedule, runs, policies, events, signals | reschedule, drain signals, revise | compare and swap; signals read, used and marked separately | frozen work stays, no signal is lost | Rescheduling |
| Control tower (`control_tower*.go`, 0040) | cases, snapshots, actions | refresh, act, rank | two refreshes at once, snapshots by hash | the worst comes first | ControlTower |
| Inventory policy (`inventory_policy.go`, 0036) | versions, runs, figures | create, activate, archive, refresh | a refresh reads, then locks | figures only for the active one | InventoryPolicies |
| Recovery planning (`recovery_planning*.go`, `recovery_scenario_workflow.go`, `recovery_simulation.go`, 0041) | scenario, actions, runs, publication | edit, simulate, publish, archive | a simulation is three transactions with edits between them | evidence fits the plan and adds up | RecoveryScenarios, RecoveryProjection |
| Recovery execution (`recovery_execution.go`, `txretry.go`, `advisory_lock.go`, 0042) | executions, action results | prepare, preflight, approve, execute, resume, cancel | a crash or a lost commit answer between actions; snapshots | each action once, in order, as recorded | RecoveryExecution |
| Migration manager (`backend/internal/migration`) | schema, history, advisory lock | migrate | several instances and binaries, a stop anywhere, old databases | what serves is migrated | Migrations |
| Cycle counts, login limit | counts, failure buckets | record; log in | several transactions, several critical sections | - | not modelled |
| Pegging, OEE and KPI, supplier scheduling, agent, CSV, audit, configuration, observability, HTTP routing, frontend, scripts | none of their own that others depend on | queries, statistics, formatting, I/O | - | - | not modelled |

### How they interact

Everything meets in the ledger. A **release** reads the BOM into a snapshot,
locks the component items, compares what is available (on hand less reserved)
with what the order needs, reserves all of it and copies the routing into
operations. **Shop-floor reports** move quantity from step to step. A
**completion** is limited by what the last step has reported; it issues the
components by FIFO, takes the reservation back and receives the product into a
lot. **Receipts** add lots, which the supplier's profile may put on HOLD;
**inspections** and **NCR decisions** change the status of lots. **Sales
orders** reserve and ship finished lots; **promising** and **backorder
processing** read stock, open supply and capacity and write the dates of their lines. An **ECO**
changes the BOM that later releases, and the next **MRP** run, read; MRP takes its
demand from the master schedule that **forecasts** and **family plans** write.
**Schedules** place the operations of released orders; the shop floor and
maintenance raise **signals** that replace the active schedule. The **control
tower** ranks what pegging finds wrong, a **recovery scenario** simulates
actions against its cases, and a **recovery execution** carries them out on the
same orders everyone else works on.

## 2. Modules

```
Commitments  <--refines--  Production  --INSTANCE-->  WorkOrderExecution
                                       --INSTANCE-->  StockLedger
StockTransactions   the locks and reads inside Production's atomic steps

PurchaseReceipts, SupplierQuality

SalesOrders  <--  OrderPromising  <--  Backorders             (EXTENDS)
BillOfMaterials  <--  MaterialPlanning;  DemandPlanning;  FiniteScheduling
Rescheduling;  ControlTower;  InventoryPolicies
RecoveryProjection  <--  RecoveryScenarios  <--  RecoveryExecution
Migrations
```

Quantities are natural numbers in place of NUMERIC(18,x): the properties
compare, add and subtract them only. Times are days, slots or the order of the
commits. Who acts, texts and prices are left out, since no guard kept here
depends on them beyond role checks. Each module has one type invariant
(`...TypeOK`), which documents its rows; those of the modules with proofs are
proved.

**WorkOrderExecution.** `status`, `completed`, `reported`, `opStatus`, `opQty`,
`completions`, `pending` are columns of `work_orders`, `wo_operations` and
`work_order_completions`, and the progress requests that have been validated and
not written. Each service method locks the order first and is one action:
`ReleaseOrder` (the part of the release that concerns the order and its
operations), `StartOperation`, `StopOperation`, `ReportOperation` (with the
promotion of the successor), `CompleteBatch` (with its lookup by id),
`CloseOrder` (the manual status change, which SQL allows from COMPLETED only).
`updateWOProgress` reads without a lock and writes later: two actions,
`ValidateProgress` and `WriteProgress`.

**StockLedger.** `balance` and `quality` of lots, `onHand` and `issued` of items,
`reserved` and `reserveRows` by item and document. A posting locks the item row
and then its lots, so a posting is atomic: `Receive`, `Issue` and `AdjustDown`
(FIFO), `DrawLot` (explicit lot). `FifoDraw` is the allocation loop as an
operator; `ValidDraw` is `validateAndLockAllocationsTx`. `Inspect` stands for
every write of a quality status.

**Production** joins the two and adds the snapshot and the BOM.
`ReleaseWorkOrder` and `CompleteWorkOrder` are the whole handlers: the
instances' actions conjoined with the reservation check, the reservation rows,
the FIFO issue of all components, the giving back of the reservation and the
receipt of the product. `ReviseBOM` is what applying an ECO leaves behind. The
manual inventory screen, which may reserve and withdraw anything, is left to StockLedger.

**Commitments** is what Production promises: units are free, promised to an
order, or used. A promise is made once, whole, out of what is free; using it
neither adds to it nor cuts it.

**StockTransactions** opens the two handlers up. A request runs a lock
program: the order row FOR UPDATE, then item rows in UUID order. The release
first inserts its snapshot, whose foreign keys take FOR KEY SHARE on the product
and the component rows, and then locks the components FOR UPDATE; a completion
locks each component when it posts it and the product last. Balances are read
after the last lock, in a statement of their own. `AbortDeadlocked` is SQLSTATE
40P01, which `writeError` turns into 409; `CallAgain` is the client's retry. The
lock manager (`Held`, `Conflict`, `WaitsFor`, `InCycle`) is PostgreSQL's and is
marked external.

**PurchaseReceipts.** An advisory lock on the receipt id and the order row make
`ReceivePurchase` atomic. Its outcomes are its actions in the order of the code:
refused because the supplier is blocked, answered from the existing receipt,
refused for status or quantity, posted.

**SupplierQuality.** A lot, its NCRs and its stock. Dispositions lock the NCR row and
are atomic, except USE_AS_IS: its check of the other NCRs is made without a lock
on the lot, so it is two actions, `ConsiderUseAsIs` and `UseAsIs` (or `GiveUpUseAsIs`, its rollback), and `deciding` holds the
dispositions between the two. `known` is a history variable: the NCRs there were on the lot when such a disposition checked.

**SalesOrders.** `order`, `history`, `line`, `reserved`, `events` and `shipments` are the
tables of 0031 and the ledger's reservations. A request (`request`) is sent, looks its id up
(`LookUp`), and commits in one transaction that locks the order and the line (`Allocate`,
`ReleaseAllocation`, `Ship`); the unique key of the event and shipment tables is `FreshId`,
and a request that violates it rolls back. `Cancel` releases what is allocated.

**OrderPromising.** `AvailableThrough` is the cumulative supply less committed demand and
safety stock; `PromiseLine` takes ATP for a line first and CTP for the rest, with what earlier lines took;
`PromiseOf` does so for the lines one after the other, in the order a `Queue` gives them. `Check` stores a run; `Reconsider` is Accept's second
calculation, before its transaction, and `Accept` writes the dates if the evidence is
still the same. `plant` is what the calculation reads of purchasing, capacity and parts.

**Backorders.** `BackordersOf` ranks the open lines (`Queue` again, by priority, class and date), and
the product is shared out to one after the other (`AfterLines`): a line gets what its class' share of the active plan
leaves it, and CTP for the rest (`Reallocate`). `Preview` stores it,
`BeginPublish` takes the SHARE locks (`Frozen`), `Publish` recalculates and writes. Plans
move through `CreatePlan`, `ActivatePlan` (an overlap is refused) and `DeactivatePlan`.

**BillOfMaterials.** `AddComponent`, `DeleteComponent` and `Apply` change the graph behind the
topology lock; `Acyclic` is `findBOMCycle`, `LowLevelCodes` the passes of 0019. An ECO is created, gets its lines, is
approved, and applied on its day, the lines in their order (`AfterLines`).

**MaterialPlanning.** A run reads stock, purchases, work orders and, item by item, components, each
a step of its own (`Reads` is their order), and plans level by level: `NetRequirement` with the item's policy,
`ApplyLotSize` (lot for lot, FOQ, EOQ, POQ), `Exploded`. A BOM that moves under it makes
the run refuse (`LevelDone`). Receipts, completions and BOM changes happen in between. `run.position` notes, when
the run begins, what is in stock and may still arrive (`OpenSupply`: of every open order that is not blocked, those due after the horizon
included, because one of these may be delivered before the run reads the stock).

**DemandPlanning.** The three writers of `mps`: `ApplyConsumptionToMPS` (forecast against
orders), `ApplyDisaggregationToMPS` (family plan by mix and period, rounded, the last
period taking the rest) and `UpsertMPS`.

**FiniteScheduling.** One order after the other is placed, as the loops do. `RoughLoad` is CRP;
`LoadOrder` the finite forward load; `PlanOrder` the detailed schedule (a what-if for CTP, `WhatIf`, reads no
overtime: `DetailedWindow`): `PlanBatch` picks a predecessor batch (`RoutingPredecessor`), the best of the work centers (`BestCandidate`),
its lanes (`ChooseLanes`), setup by family and the first slots that fit (`PlanClock`).

**Rescheduling.** `active` points into `schedule`. A request is a program counter over its
transactions: it reads pointer and policy (`ReadSignals` for the automatic one), builds a
candidate, compares (`CompareSchedules` with `Fence` and `Conflicts`), and finishes; the
pointer moves only from the value it was compared with (`StillActive`). The shop floor
(`Start`, `Stop`, `Complete`) and `Revise` raise signals; `AcknowledgeSignals` marks those read.

**ControlTower.** A refresh fixes its time on arrival, its snapshot at its first query
(`CurrentExceptionRows`: the unresolved exceptions of orders still open) and stores cases and scored snapshots (`Store`, once per hash), in a
REPEATABLE READ transaction that may fail on a conflict. The score is the weighted
sum of tiers as in the code; `Dashboard` ranks. `ActOnCase` appends to a case what its status allows.

**InventoryPolicies.** `BeginRefresh` fixes the snapshot, `LockPolicies` takes the shared locks and
fails if a version it saw active no longer is, `Refresh` stores. `ActivateVersion` archives its predecessor.

**RecoveryProjection** is the what-if engine as operators: which actions touch a case, days and risk they
take off it, projected score, band, revenue, the shares of the actions, the totals.
**RecoveryScenarios** has the scenario, its edits, and a simulation as `StartRun`, `OpenResult` (the snapshot
its REPEATABLE READ transaction gets), `StoreResult`, `MarkRunFailed`; the publication likewise.
**RecoveryExecution** carries a published plan out. `call` holds the session lock of an execution; an
action is `BeginAction` (snapshot), then `ApplyAction`, `FindDrift` or `ActionBreaks`; `Conflict` is what
SERIALIZABLE (the `Isolation` the code asks for) detects and `RowsUnchanged` what a lock or an update does. `Preflight` looks at an action alone
and `Simulated` after the effects of those before it (`AfterActions`); `journal` is what has been carried out, by execution (`Entries`). `Interrupt` drops the
connection at any point, before or after a commit; `ResumeExecution` goes on where the records end.

**Migrations.** `schema` is what is in effect, `recorded` what `schema_migrations` says. An instance waits
for the lock, reads, adopts an old database from its fingerprints (`BootstrapLegacyDatabase`,
`Baseline`), applies what is missing, each script with its record (`Committed`), counts, and serves. `StopServer` may come
at any point. What a script needs of the schema is `Executes`.

The `MC...` modules give the constants their values and join modules that are
checked in one run; parts of a run that do not act on each other are told apart by a
variable `half` that never changes, so that the states add up and do not multiply. `*_proof` modules hold theorems and proofs.

## 3. What is checked

`tlc -config X.cfg M` for each row. Every property of a passing run has been
seen to fail on a plausible bug in the mapped code (PROJECT.json, "mutants"; the
definitions commented `mutant`).

| Run | Instance | What it shows |
|---|---|---|
| `wo_execution` | orders: 3 steps with batches of 1 and 2, quantity 3; one step, quantity 2. 3 completion ids, a client with progress figures | no step overtakes the step before it (`QuantityChain`), work starts only on what was transferred (`ActiveOnlyAfterTransfer`), no order strands (`NeverStranded`), completions add up (`CompletionsAccountForOrder`), history only grows (`ExecutionMovesForward`), whatever stale progress figure is written |
| `stock_ledger` | 1 item, 3 lots, postings up to 2, at most 3 in stock | lots stay non-negative, both books agree, FIFO is oldest first and short only when it must be |
| `production` | an order of 2 gears and one of a car made of a gear and steel; 4 lots; a BOM revision | reservations match what is left to make, usage is exactly the snapshot, and `ImplementsCommitments` |
| `stock_transactions` | in one half 3 releases (two of one order) and a completion; in the other 4 completions of 3 released orders, two of one order, one that shares its components, one that makes a component of theirs; a release and two completions may be called again | no component is promised beyond its stock (`NeverOverReserved`), a balance that was read holds until its reader commits (`ReadsStayTrue`), completions whose product is nobody's component never wait in a circle (`OrderedNeverDeadlock`) and, with fairness, while only such run each is committed or refused (`OrderedSucceed`) |
| `purchasing` | orders of 2 and 1, 3 receipt ids, one lot number, one supplier; a lot of up to 2 units with 3 NCRs | receipts account for orders, deliveries under inspection are held, stock accounts for decisions, a lot is released only when clear, an NCR is decided once |
| `customer_orders` | an order of 2 lines (4 and 2 units), 2 requests at once out of 7 with shared ids; 2 orders of customers of two classes under 2 planners, 2 plans, 3 states of plant and safety stock, 2 changes from outside, horizons of 1 and of 2 of the 2 days | `OrdersReconcile`, `RequestsApplyOnce`, `DecisionExplainsDates`, `PublishedFitsSupply` |
| `planning` | 3 items, 3 BOMs, one ECO of up to 2 lines, 4 days; 192 shops of 3 orders, 2 work centers, 3 days of 4 slots; 2 forecasts, 2 mixes, 2 disaggregations | `LevelsFollowBOM`, `PlanMeetsRequirements`, `DeliveriesCountedOnce`, `ScheduleFeasible`, `EntriesTraceToSource` |
| `control` | an operation, 2 requests, 3 runs, 2 policies, 2 signals; 2 orders, 2 refreshes, 2 planners; 2 policy versions, 2 refreshes | `FrozenHorizonKept`, `AcknowledgedWereSeen`, `WorstComesFirst`, `FiguresForActive` |
| `recovery` | scenario of up to 2 actions and 2 runs over two sets of cases; 5 published plans, 2 executions, 2 people, 2 interferences; 4 instances of 3 binaries over 5 databases | `EvidenceMatchesPlan`, `EvidenceAddsUp`, `OutcomeMatchesEffects`, `NoSelfDrift`, `OvertimeWithinDay`, `MigratedServes`, `RefusesOnlyUnknown` |

**Why these bounds.** The hazards need two of something: two orders on one component,
two lots for FIFO (three, so that an older, a partly used and an untouched lot
exist at once), two requests with one id, two NCRs on one lot (three, so that
one can be in rework and one open while a third is decided), two refreshes, two
executions, two instances of one binary beside older and edited ones. Three steps with
batches of 1 and 2 make a middle step that both waits and transfers early; three
schedule runs make a pointer that moves twice. Three items are the shortest chain whose
middle moves. A completion that makes the gear the others use is among the four: beside it the others must still not form a circle, and with it
they do (below). One horizon ends before the last line is
due: a publication with it may promise what that line waits for, which is why `PublishedFitsSupply` measures the dates up to a day
by the most that is there on it or any day before. Quantities of 2 and 3 make partial batches and a last one that exactly fills; family
plans of 5 and 9 leave remainders in every period.
`MaxStock`, `MaxDelivered`, `MaxMoves`, `changes` and the sets of ids only stop the
environment from adding more of the same.

**Deadlock checking** is off in runs whose system may stop: all orders closed,
or the ids used up, or all requests answered. A database deadlock is
a cycle of waits and is stated as `NoDeadlock` and `OrderedNeverDeadlock`.

**Fairness.** Only `StockTransactions!FairSpec` assumes any, and the run `stock_transactions` that part of it that is about completions: weak fairness of each
request's next statement and of the abort of a request in a cycle of waits.
PostgreSQL grants a lock that is free, executes a statement that is not blocked,
and looks for a cycle after `deadlock_timeout`. Nothing is assumed of clients:
they need neither begin nor call again. The other components have no progress of
their own: an interrupted execution waits for a person, signals for the next
event, a stopped instance for whoever restarts it, so no fairness is justified there.

### Where the code and its own documents disagree

Three runs expect a violation, each of one statement the repository makes.

| Run | Statement | What happens |
|---|---|---|
| `release_deadlock` | `docs/WO_ATOMIC_RELEASE.md:44` and `workflow.go:295`: sorted locks avoid deadlock | the snapshot's foreign keys hold the shared component in KEY SHARE in both releases before either asks FOR UPDATE; one is aborted with 409 |
| `recovery_oversell` | `docs/WO_ATOMIC_RELEASE.md:40`: concurrent releases cannot reserve more than there is | the SERIALIZABLE transaction of a recovery action took its snapshot before the item lock; a READ COMMITTED release in between is not in the balance it reads (`ReleasesAreCovered`) |
| `executed_moved` | `docs/REALTIME_DISPATCH_...ADHERENCE.md:128`: only unstarted commitments can be moved | the operation starts after the comparison has read its status (`ExecutedNeverMoved`) |

Met while modelling and described here without a run of their own:

* `api/wip_atp_quality.go:46` says reported progress cannot be below completed
  quantity; a completion between the check and the write makes it so.
* `docs/INVENTORY_LOT_UNIFIED_LEDGER.md:124-126` claims a deterministic lock order; a
  completion locks its product last, so two completions that makes a component of the other's can deadlock with it (`stock_transactions` includes it; `Ordered` excludes it from what is
  claimed).
* `docs/PO_PARTIAL_RECEIPTS.md:42`: a re-sent receipt returns the original; not once its
  supplier is BLOCKED (`workflow.go:568`).
* `docs/SUPPLIER_QUALITY_NCR.md:61`: a lot is OK only when no active NCR remains; an NCR that
  commits between USE_AS_IS's check and its lock stays open on it.
* `README.md:454`: Tx B of a simulation re-locks the scenario so that drift cannot become
  evidence; its REPEATABLE READ snapshot may precede an edit that did not update the locked
  row (`recovery_planning.go:531`). `overtaken` in RecoveryScenarios marks such runs.
* `backorder.go:586`: the SHARE locks freeze the planning inputs; not all tables the
  calculation reads are among them.
* `docs/ADVANCED_ORDER_PROMISING.md` (409 STALE_PROMISE): Accept's second calculation is
  before its transaction; what changes in between goes unnoticed.
* `control_tower.go:269`: a case that goes back to an earlier evaluation keeps the later
  snapshot as its latest (`ON CONFLICT DO NOTHING`).
* 0040 stamps a case action with the start of its transaction and then waits for the
  case's lock, so the order of the stamps need not be that of the actions.
* `docs/SHOP_FLOOR_STATE_MACHINE.md:24` lets a later sequence wait until every lower one is
  COMPLETED; since 0030 a transferred batch is enough, and that is what is modelled.
* `RecordCount` (`forecasting.go:566`) has no status check: a retried count posts its
  variance again.

The deadlocks cost an abort and a retry, not data: `stock_transactions` includes them, and its
properties hold.

## 4. What is proved

`tlapm M_proof.tla` checks the theorems of a module. They hold for all values of the
constants that satisfy the modules' named assumptions (`...Assumption`): quantities are
naturals, a routing has a length, a lot has an item, the sets that are summed over (orders, lines,
documents) are finite, what was released before the start is covered by the initial stock, a frozen horizon is not
longer than the firm one (`normalizeDispatchPolicyInput`), and what a deployment older than the
migration manager may look like (up to every fingerprint of `legacyChecks`, each version before it has one too or can
be replayed).

* **Sums_proof**: an induction over a finite set is a proof by a least counterexample
  (`SmallestSet`, `SmallestNumber`). From it come the laws of a sum over a set that
  the other modules use: one summand changes (`SumChange`), joins (`SumInsert`) or leaves (`SumRemove`), a set is
  divided (`SumSplit`) or taken key by key (`SumByKey`), a smaller summand gives a smaller sum (`SumLeq`). Induction without operators: over a set of
  numbers or of sets (`NumbersInduct`, `SetsInduct`); a recursion has a function (`RecursionExists`).
* **WorkOrders_proof**, of WorkOrderExecution and Commitments: `QuantityChainSafe`, `TransferSafe`,
  `StrandSafe`, `ForwardSafe`, `CompletionsSafe`. That a report keeps the chain needs to know that a step
  nobody has started has reported nothing, and that no order strands needs to know *where* it can
  be continued. `OrderInv` adds, for each order, that an operation is pending exactly while its
  predecessor has transferred nothing (`TransferAt`), that status and quantity of a step agree
  (`StepsAt`), that at or below every unfinished step there is one that can be worked on
  (`FrontierAt`; this form replaces an induction over the steps), and that the order's status follows its completed
  quantity (`StatusAt`). An action changes one order; a lemma carries the others over. `BookedInv` sums the completion
  records apart. `PromisesBacked` and `PromisesFixed` are the guarantees of the abstract Commitments.
* **StockLedger_proof**: `LotsStayPositive`, `BooksAgree`, `QuarantineSafe` (usage never takes from a lot that is not OK: a guard of every posting, so it has no run), from types and the first two
  together: every posting is validated lot by lot and moves header and lot by the same amount, so
  what FIFO allocates need not be known. `FifoSafe` is about the allocation loop itself, by what
  it has taken (`HeldBy`) and what it has left to take (`LeftAfter`) after each lot.
* **StockTransactions_proof**: `LocksSafe`, `ReadsSafe`, `ReservationsSafe`, `CompletionsSafe`. Two running requests hold no conflicting
  locks (`LocksExclude`); a request past its first lock holds its order's row, and one that has read its balances
  holds the row of every component (`PositionAt`), so what it read is true when it commits; then the
  reservations of an item are those of its released orders (`ReservedAt`). For these three nothing is assumed of the order of locks: deadlocks and
  aborts are in. `CompletionsSafe` is the theorem about the order: a completion asks for its order, then its components in ascending
  order, then its product (`CompletionIs`); the rows rise in `Rank` along such a program (`RanksRise`), and a row two `Ordered` completions want has one rank in both
  (`SameRank`). Whoever is waited for holds the row and asks for a higher one, so the one that asks for the highest waits for no other (`NoCircle`).
* **Production_proof**: `ReservationSafe`, `UsageSafe`, the refinement `CommitmentsKept`, and with it
  `NothingPromisedTwice`. The invariant says how far an order is (`ProgressAt`), that no item is short
  (`NothingShort`), that an order holds what its open units need and has used what its completed
  units needed. A step changes these figures of one order together. `OrdersExecute` is the
  second refinement: Production only takes steps of WorkOrderExecution, so what is proved of orders holds in it.
* **Trade_proof**, of SupplierQuality and PurchaseReceipts: `DecisionsFinal`, from the fact that an
  open NCR carries no decision (`OpenIsUndecided`), which is what makes a decision in preparation safe against a second one;
  `StockAccounted`, by a sum over the NCRs of a lot (`Accounts`); `ReleaseSafe`, that neither a PASS nor a
  concession releases a lot of another report: `known` notes which reports there were when a USE_AS_IS checked, each of them stays
  closed from then on (`KnownAreClosed`), and only those filed later are exempt; `ReceiptsSafe` and `DeliveriesHeld`, where an
  id that has no receipt yet adds its quantity once and every retry adds nothing (`ReceiptsInv`).
  Of SalesOrders, OrderPromising and Backorders: `OrdersSafe` and `RequestsSafe` for any number of copies of
  a request at once: a line agrees with its events and shipments (`LineAt`), the header follows from
  its lines (`HeaderAt`), and every committed request has its row (`RequestsApplyOnce`). `OrdersTrade`
  says that promising and backorder processing are stutters or steps of sales orders; `DatesExplained` is their
  own invariant, that a line's dates are those of the newest decision (`DecisionsInv`).
  `PublicationsFit` says that a publication promises no more than there is, whatever lines, plans and planners there are. A
  ranking takes every line once (`QueueIsOrder`, `RankIsOrder`), so going through it is a recursion over the
  places of a queue (`AfterLinesIs`); after each line, what has been taken up to a day and for a class is the sum over the lines so far
  (`NextLine`), each line gets at most what they left (`TakeBounds`, `ShareBounds`), and therefore a result fits the supply it was
  calculated from (`CalculatedFits`). `PublicationInv` carries this to the moment the dates are written: under the table
  locks of a publication only the day, the safety stock and maintenance change, and none of these takes away from
  what the property measures (`FitsKeeps`).
* **Planning_proof**, of what is planned:
  * `CodesFollowTheBOM`: after k passes the codes are the depths below k and at most k elsewhere, and each pass leaves fewer items open;
    as a graph without cycle has an item without open parents, as many passes as there are items suffice.
  * `ArrivalsCountOnce` and `PlansMeetRequirements` rest on `PlanInv`, which says of a run in progress, whatever has become of the tables since: what it
    counts of an item is no more than stock, purchases and orders together when it began (`DeliveriesStand`: what it still has to read can
    only have gone from an order into stock, and stock is read first); its gross
    requirements are those of the schedule, of the orders taken up and of the items planned (`GrossIs`); and items are planned level by level
    (`InOrder`), each from requirements that no later item adds to (`PlannedAre`), because `LevelDone` refuses components whose code is not larger. The plan of an item is a recursion over the days, and each
    way of sizing a lot (lot for lot, fixed, economic, periods) is shown to leave no balance below the floor.
  * `EntriesAreTraced`: an applied disaggregation never changes, and rounding a product's share by periods leaves the rest to the last.
  * `BoardShowsWorstFirst`: each tier of the score grows with what it scores; a snapshot holds a row the engine has evaluated (`TowerInv`).
* **Planning_proof**, of what is in force (Rescheduling, InventoryPolicies and Migrations), where somebody reads it,
  works without holding it, and must not act on what has been replaced since.
  * `SignalsAnswered` and `FrozenStaysPlanned` rest on `ReschedulingInv`: what a request knows at each of its steps
    (`RequestAt`; in particular, what it compared with the active schedule stays true while it is active, because a
    schedule never changes), that a run is one request's (`RunsApart`), and that signals tell of what is never taken back
    (`SignalAt`).
  * `FiguresFollowPolicy` rests on `PolicyInv`: one active version per item (`OneActive`), and the versions a refresh has
    locked stay active (`LockedAreActive`) because the shared locks hold off an archival.
  * `ServesMigrated` and `RefusalsExplained` rest on `MigrationInv`: whoever is between reading and serving holds the lock (`LockHeld`), what
    each phase has found out (`PhaseKnows`), what a database without a history looks like (`BeforeHistory`), that what is
    recorded is in effect (`HistoryInEffect`), without gaps (`NoGap`). Instances stop where they like.
* **Recovery_proof**, of RecoveryScenarios and RecoveryExecution: `EvidenceIsOfThePlan`, because a result that waits has
  seen the actions as they are unless it was overtaken (`SnapshotsCurrent`). For the execution, the invariant says at each
  step of a call what the journal, the records of the actions and the status have in common (`ExecutionAt`), also where a commit was left unanswered: `ExecutionTellsItsEffects`.
  `DriftIsOfOthers` needs in addition that an execution nobody disturbed finds the plant its preflight foresaw, action by action
  (`Foreseen`), and `OvertimeStaysInTheDay` that what an action has seen of the overtime is still so when it commits (`OvertimeSeen`), which `Conflict`
  sees to; the overtime is a sum over the journal.

The type invariants are conjuncts of the inductive invariants; those of work orders, stock, production, supplier quality,
sales orders, bills of material, material planning, the master schedule, the control tower and recovery execution are theorems of their
own. That of Backorders is part of `PublicationInv`; that of OrderPromising is proved only as far as `DecisionsInv` and
`PublicationInv` need it.

Only model-checked, and why:

* `OrderedSucceed` is liveness; `NoDeadlock`, `ReleasesAreCovered` and `ExecutedNeverMoved` are not so (see the findings above).
* `ScheduleFeasible`: the schedule of a shop is one nested fold whose steps choose lanes, slots and predecessors by operators that take operators, which
  the provers cannot expand; TLC computes it for every one of the small shops.
* `EvidenceAddsUp` bounds what rounding may do to shares, by folds with operator parameters over products and quotients of variables, which is beyond the
  arithmetic of the provers; TLC checks it on every plan and set of cases of the run.

## 5. Limits

* One transaction is one action wherever the code locks what it reads;
  StockTransactions justifies this for release and completion. Where the code reads before it
  locks, or acts in several transactions, the model has as many steps.
* StockTransactions completes whole orders and has no lot rows; lot locks are
  always taken under the item's by the ledger, which is not so when an NCR is created.
* Statistics (forecasts, demand variability) are given values; money and hours in the what-if engine are integers and are rounded where the
  code rounds, except that a benefit is cut to tenths of a percent before the score is made of it (`RecoveryProjection!Benefit`), where
  `recovery_simulation.go:562-635` keeps floats and rounds the score to three decimals. Float tolerances (`1e-9`) are not modelled.
* FiniteScheduling has slots for minutes and one product family rule per pair; time zones and
  daylight saving are left out. The calculation of a detailed schedule reads one state: the
  races around it are in Rescheduling, whose schedules are any start times. Operations have a positive run time: one without
  any load, which `planClock` (`detailed_scheduling.go:757`) places at its anchor without a slot, is not in the shops.
* The date a new order may come with already promised (`sales_orders.go:216`, `260-269`) is left out: `Create` makes lines without one, and
  `DecisionExplainsDates` speaks of the dates that promising and publications write.
* Scrap factors, alternatives in routings of a release and units of measure are folded into quantities.
* CANCELLED NCRs and CLOSED purchase orders are states no service reaches.
* Behaviour seen and left out: two concurrent Publishes of backorder plans can deadlock on their
  SHARE locks, and an application of a disaggregation with an activation of a mix; a finite CRP run is
  shown with the parameters of the day it is read; `legacyChecks` has no fingerprint for
  migration 0042; during a rolling upgrade an old binary keeps serving a schema that is
  newer than it.

### Not modelled

Cycle counts (three unguarded transactions: nothing to check that the code tries to ensure), login limits and
user administration, supplier scheduling, production performance and KPIs, pegging's
trace (its exceptions enter ControlTower as an input), the planning agent, exports,
configuration and observability, HTTP decoding and the clients. They are read-only, or keep
state nothing else depends on.

## 6. What could come next

1. Proofs: that a control tower refresh stores what one snapshot shows; the types of OrderPromising.
2. StockTransactions with lot rows and the NCR's lock order.
3. Receipts of sales lots through StockLedger in place of the two pools of SalesOrders.
4. *CycleCounts* and *LoginRateLimit*, once there are guarantees to state.
