-------------------------- MODULE FiniteScheduling --------------------------
(***************************************************************************)
(* Capacity planning of the orders of a shop: the rough load of CRP (Run),  *)
(* the finite forward schedule of CRP (FiniteSchedule) and the detailed      *)
(* schedule with machine lanes, workers, sequence-dependent setups,          *)
(* alternative work centers, transfer batches and maintenance                *)
(* (DetailedSchedule; SimulateCTPOrder runs the same loop over the same tasks *)
(* with one more of priority 50, without overtime, and stores nothing).      *)
(*                                                                         *)
(* Time is in slots, PerDay to a day, of which a work center works those of  *)
(* its shift; a time in the code is the slot that begins then.  Minutes of a *)
(* setup or a run are slots, efficiency and utilization included.            *)
(***************************************************************************)
EXTENDS Integers, Sequences, FiniteSets, SequencesExt

CONSTANTS
    WorkCenters,
    Machines, Workers, \* by work center: machine_count, worker_count
    Days, PerDay,      \* days of the horizon; slots of a day
    Shift,             \* slot of a day its shift starts with
    SetupTime,         \* work_center_setup_matrix: slots by <<from, to>>, "*" for any
    Shops              \* what the planner reads: see below

Slots == 0..(Days * PerDay - 1)
Operation == [wc : WorkCenters, setup : Nat, run : Nat \ {0}, family : STRING, machines : Nat \ {0}, workers : Nat,
              transfer : Nat,     \* transfer_batch_qty, 0 if the operation does not overlap
              quantity : Nat \ {0}, done : Nat, started : BOOLEAN,
              others : Seq([wc : WorkCenters, priority : Nat, run : Nat \ {0}, setup : Nat])]
Task == [ref : Nat, priority : {10, 20, 50, 100}, earliest : Slots, due : Nat, ops : Seq(Operation)]

ASSUME FiniteSchedulingAssumption ==
    /\ {Days, PerDay} \subseteq Nat \ {0} /\ Shift \in [WorkCenters -> 0..(PerDay - 1)]
    /\ Machines \in [WorkCenters -> Nat \ {0}] /\ Workers \in [WorkCenters -> Nat]
    /\ \A s \in Shops :
          /\ \A k \in DOMAIN s.tasks : s.tasks[k] \in Task
          /\ \A d \in 1..Days : s.week[d] \in 0..PerDay
          /\ s.exceptions \in [DOMAIN s.exceptions -> 0..PerDay]
          /\ s.overtime \in [WorkCenters \X (1..Days) -> Nat]
          /\ \A e \in s.maintenance : e.wc \in WorkCenters /\ e.from <= e.to

VARIABLES
    shop,    \* calendar, overtime, maintenance and tasks, as read
    queue,   \* tasks still to schedule, in order
    batches, \* detailed_schedule_batches with their lanes and slots
    loaded,  \* crp_schedule_orders with their segments
    rough    \* load rows of CRP

shopVars == <<shop, queue, batches, loaded, rough>>

-----------------------------------------------------------------------------
DayOf(t) == t \div PerDay + 1
\* The exception of a day goes before its weekday.
MinutesAvailable(d) == IF d \in DOMAIN shop.exceptions THEN shop.exceptions[d] ELSE shop.week[d]
\* The shift ends with the day, overtime or not.
WindowWith(w, overtime) ==
    {t \in Slots : LET n == (t % PerDay) - Shift[w] IN
                   n >= 0 /\ n < MinutesAvailable(DayOf(t)) + overtime[w, DayOf(t)]}
WorkingWindow(w) == WindowWith(w, shop.overtime)
\* SimulateCTPOrder reads no overtime.
WhatIf == \E k \in DOMAIN shop.tasks : shop.tasks[k].priority = 50
DetailedWindow(w) == IF WhatIf THEN WindowWith(w, [x \in WorkCenters \X (1..Days) |-> 0]) ELSE WorkingWindow(w)
FirstOf(S, n) == {t \in S : Cardinality({u \in S : u <= t}) <= n}
SumOver(f(_), S) == MapThenSumSet(f, S)
Greater(m, n) == IF m > n THEN m ELSE n

Used(b) == b.setup \union b.run
Scheduled(b) == Used(b) # {}
Start(b) == Min(Used(b))
End(b) == Max(Used(b)) + 1
Busy(bs, w, t) == {b \in bs : b.wc = w /\ t \in Used(b)}
MachinesBusy(bs, w, t) == SumOver(LAMBDA b : Cardinality(b.lanes), Busy(bs, w, t))
WorkersBusy(bs, w, t) == SumOver(LAMBDA b : b.workers, Busy(bs, w, t))
Down(w, t) == {e \in shop.maintenance : e.wc = w /\ e.from <= t /\ t < e.to}

-----------------------------------------------------------------------------
(* Detailed schedule.                                                       *)

Free(bs, w, op, t) ==
    /\ op.workers = 0 \/ WorkersBusy(bs, w, t) + SumOver(LAMBDA e : e.workers, Down(w, t)) + op.workers <= Workers[w]
    /\ MachinesBusy(bs, w, t) + SumOver(LAMBDA e : e.machines, Down(w, t)) + op.machines <= Machines[w]

\* n minutes of work, in one piece or several, as early as they fit.
PlanClock(bs, w, op, from, n) ==
    FirstOf({t \in DetailedWindow(w) : t >= from /\ Free(bs, w, op, t)}, n)

OnLane(bs, w, n) == {b \in bs : b.wc = w /\ n \in b.lanes}
AvailableAt(bs, w, n) == Max({0} \union {End(b) : b \in OnLane(bs, w, n)})
LastFamily(bs, w, n) ==
    IF OnLane(bs, w, n) = {} THEN ""
    ELSE (CHOOSE b \in OnLane(bs, w, n) : End(b) = AvailableAt(bs, w, n)).family

SequenceSetup(from, to, base) ==
    LET keys == <<<<from, to>>, <<"*", to>>, <<from, "*">>, <<"*", "*">>>>
        known == {k \in 1..4 : keys[k] \in DOMAIN SetupTime}
    IN IF to # "" /\ from = to THEN 0
       ELSE IF known = {} THEN base ELSE SetupTime[keys[Min(known)]]

\* The lanes that could start the run first, and the setup the worst of them needs.
Foremost(score, n) ==
    LET sooner(m, k) == score[m] < score[k] \/ (score[m] = score[k] /\ m < k)
    IN {k \in DOMAIN score : Cardinality({m \in DOMAIN score : sooner(m, k)}) < n}
LaneSetups(bs, op, alt) == [n \in 1..Machines[alt.wc] |-> alt.setup * SequenceSetup(LastFamily(bs, alt.wc, n), op.family, op.setup)]
ReadyOn(bs, from, w, n) == Greater(from, AvailableAt(bs, w, n))
OnLanes(bs, from, alt, setups, lanes) ==
    [lanes |-> lanes, setup |-> Max({setups[n] : n \in lanes}), anchor |-> Max({ReadyOn(bs, from, alt.wc, n) : n \in lanes} \union {from})]
ChooseLanes(bs, from, alt, setups, n) ==
    OnLanes(bs, from, alt, setups, Foremost([l \in DOMAIN setups |-> ReadyOn(bs, from, alt.wc, l) + setups[l]], n))

\* The plan of qty units on an alternative; its slots are empty if they do not fit.
Fitting(op, qty, alt, c, setup, run) ==
    LET fits == /\ op.machines <= Machines[alt.wc] /\ op.workers <= Workers[alt.wc]
                /\ Cardinality(setup) = c.setup /\ Cardinality(run) = alt.run * qty
    IN [wc |-> alt.wc, lanes |-> c.lanes,
        setup |-> IF fits THEN setup ELSE {}, run |-> IF fits THEN run ELSE {}]
AfterSetup(bs, op, qty, alt, c, setup) ==
    Fitting(op, qty, alt, c, setup, PlanClock(bs, alt.wc, op, Max({c.anchor} \union {t + 1 : t \in setup}), alt.run * qty))
AfterChoice(bs, op, qty, alt, c) == AfterSetup(bs, op, qty, alt, c, PlanClock(bs, alt.wc, op, c.anchor, c.setup))
PlanOn(bs, op, qty, from, alt) ==
    AfterChoice(bs, op, qty, alt, ChooseLanes(bs, from, alt, LaneSetups(bs, op, alt), op.machines))

Primary(op) == [wc |-> op.wc, priority |-> 0, run |-> op.run, setup |-> 1]
\* A started operation stays where it is, and batches of one operation together.
Alternatives(op, chosen) ==
    LET all == <<Primary(op)>> \o op.others IN
    IF chosen # {} THEN SelectSeq(all, LAMBDA a : a.wc \in chosen)
    ELSE IF op.started THEN <<Primary(op)>> ELSE all

\* The alternative that ends first, of two the preferred one.
Unplaced(op) == [wc |-> op.wc, lanes |-> {}, setup |-> {}, run |-> {}]
BestOf(op, alts, plans) ==
    LET fit == {k \in DOMAIN alts : Scheduled(plans[k])}
        better(j, k) == \/ End(plans[j]) < End(plans[k])
                        \/ /\ End(plans[j]) = End(plans[k])
                           /\ alts[j].priority < alts[k].priority \/ (alts[j].priority = alts[k].priority /\ j < k)
    IN IF fit = {} THEN Unplaced(op) ELSE plans[CHOOSE k \in fit : \A j \in fit \ {k} : better(k, j)]
BestCandidate(bs, op, qty, from, alts) == BestOf(op, alts, [k \in DOMAIN alts |-> PlanOn(bs, op, qty, from, alts[k])])

SplitTransferBatches(op) ==
    IF op.transfer = 0 \/ op.transfer >= op.quantity THEN <<op.quantity>>
    ELSE [n \in 1..((op.quantity + op.transfer - 1) \div op.transfer) |->
            IF n * op.transfer <= op.quantity THEN op.transfer ELSE op.quantity % op.transfer]

\* mutant: the batch before the one that makes the unit
EarlierPredecessor(prev, cumulative) ==
    prev[Max({1} \union {k \in DOMAIN prev : prev[k].cumulative < cumulative})]
\* The batch of the operation before that makes the last unit of this batch.
RoutingPredecessor(prev, cumulative) ==
    prev[Min({Len(prev)} \union {k \in DOMAIN prev : prev[k].cumulative >= cumulative})]

\* state: the schedule so far, whether the order is still schedulable, the batches
\* of this operation and of the one before, its ref and its place in the order.
WithBatch(state, batch) ==
    [state EXCEPT !.made = batch.cumulative, !.ok = Scheduled(batch), !.curr = Append(@, batch), !.batches = @ \union {batch}]
PlacedAfter(state, op, qty, waits) ==
    LET from == Max({state.task.earliest} \union {End(b) : b \in waits})
        chosen == {b.wc : b \in Range(state.curr)}
    IN WithBatch(state, (IF state.ok /\ \A b \in waits : Scheduled(b)
                         THEN BestCandidate(state.batches, op, qty, from, Alternatives(op, chosen)) ELSE Unplaced(op))
                        @@ [task |-> state.task.ref, op |-> state.op, no |-> Len(state.curr) + 1, qty |-> qty,
                            cumulative |-> state.made + qty, workers |-> op.workers, family |-> op.family])
PlanBatch(state, qty) ==
    LET before == IF state.op = 1 THEN 0 ELSE state.task.ops[state.op - 1].done
    IN PlacedAfter(state, state.task.ops[state.op], qty,
                   (IF state.curr = <<>> THEN {} ELSE {Last(state.curr)})
                   \union (IF state.op > 1 /\ state.made + qty > before THEN {RoutingPredecessor(state.prev, state.made + qty)} ELSE {}))

PlanOperation(state, k) ==
    LET op == state.task.ops[k] IN
    FoldLeft(PlanBatch, [state EXCEPT !.op = k, !.prev = state.curr, !.curr = <<>>, !.made = op.done],
             SplitTransferBatches(op))

PlanOrder(bs, task) ==
    FoldLeft(PlanOperation,
             [task |-> task, batches |-> bs, ok |-> TRUE, op |-> 0, prev |-> <<>>, curr |-> <<>>, made |-> 0],
             [k \in DOMAIN task.ops |-> k]).batches

-----------------------------------------------------------------------------
(* Finite schedule of CRP: a work center is one resource.                   *)

Load(op) == (IF op.started THEN 0 ELSE op.setup) + op.run * op.quantity
TakenIn(orders, w) == UNION {s.slots : s \in {x \in UNION {o.segments : o \in orders} : x.wc = w}}

AllocateForward(state, op) ==
    LET free == {t \in WorkingWindow(op.wc) : t >= state.cursor /\ t \notin TakenIn(state.orders, op.wc)
                                              /\ \A s \in state.segments : s.wc = op.wc => t \notin s.slots}
        got == FirstOf(free, Load(op))
        left == Load(op) - Cardinality(got)
    IN IF Load(op) = 0 THEN state
       ELSE [state EXCEPT !.cursor = IF got = {} THEN @ ELSE Max(got) + 1,
                          !.segments = IF got = {} THEN @ ELSE @ \union {[wc |-> op.wc, op |-> state.next, slots |-> got]},
                          !.stuck = left > 0, !.missing = @ + left]

\* No operation follows one that is not complete.
SkipLater(state, op) == [state EXCEPT !.missing = @ + Load(op), !.next = @ + 1]

LoadOrder(orders, task) ==
    LET step(state, op) == IF state.stuck THEN SkipLater(state, op)
                           ELSE [AllocateForward(state, op) EXCEPT !.next = @ + 1]
        done == FoldLeft(step, [orders |-> orders, cursor |-> task.earliest, segments |-> {}, stuck |-> FALSE,
                                missing |-> 0, next |-> 1], task.ops)
    IN orders \union {[task |-> task.ref, segments |-> done.segments, missing |-> done.missing]}

-----------------------------------------------------------------------------
(* Rough load of CRP: each operation whole on a working day, the last on the *)
(* due day, each before on a day before, none before the first day.         *)

\* Days before the horizon count as 0 and are moved to its first day.
PreviousWorkDay(d) ==
    LET days == {e \in 1..d : MinutesAvailable(e) > 0} IN IF days = {} THEN 0 ELSE Max(days)
RoughLoad(rows, task) ==
    LET step(state, k) == LET op == task.ops[k]
                              day == Greater(PreviousWorkDay(state.due), 1) IN
            [due |-> day - 1, rows |-> Append(state.rows, [wc |-> op.wc, day |-> day, load |-> op.setup + op.run * op.quantity])]
    IN FoldRight(LAMBDA k, s : step(s, k), [k \in DOMAIN task.ops |-> k],
                 [due |-> DayOf(task.due), rows |-> rows]).rows

-----------------------------------------------------------------------------
Sooner(x, y) ==
    \/ x.priority < y.priority
    \/ x.priority = y.priority /\ x.due < y.due
    \/ x.priority = y.priority /\ x.due = y.due /\ x.ref < y.ref

Unscheduled ==
    /\ queue = SetToSortSeq(Range(shop.tasks), Sooner)
    /\ batches = {} /\ loaded = {} /\ rough = <<>>
ShopInit == shop \in Shops /\ Unscheduled

\* One turn of the loop over the tasks of each of the plans: CRP knows no what-if
\* orders, and its rough load planned ones only.
ScheduleOrder ==
    /\ queue # <<>>
    /\ queue' = Tail(queue)
    /\ batches' = PlanOrder(batches, Head(queue))
    /\ loaded' = IF Head(queue).priority = 50 THEN loaded ELSE LoadOrder(loaded, Head(queue))
    /\ rough' = IF Head(queue).priority = 100 THEN RoughLoad(rough, Head(queue)) ELSE rough
    /\ UNCHANGED shop

ShopSpec == ShopInit /\ [][ScheduleOrder]_shopVars

-----------------------------------------------------------------------------
TaskOf(ref) == CHOOSE x \in Range(shop.tasks) : x.ref = ref

CapacityRespected ==
    \A b \in batches : \A t \in Used(b) :
        /\ t \in DetailedWindow(b.wc)
        /\ b.workers > 0 =>
              WorkersBusy(batches, b.wc, t) + SumOver(LAMBDA e : e.workers, Down(b.wc, t)) <= Workers[b.wc]
        /\ MachinesBusy(batches, b.wc, t) + SumOver(LAMBDA e : e.machines, Down(b.wc, t)) <= Machines[b.wc]
        /\ \A c \in Busy(batches, b.wc, t) \ {b} : c.lanes \cap b.lanes = {}

UnitsFlow ==
    \A b \in batches : Scheduled(b) =>
        /\ b.setup = {} \/ Max(b.setup) < Min(b.run)
        /\ b.op > 1 =>
              LET made == {c \in batches : c.task = b.task /\ c.op = b.op - 1 /\ Scheduled(c) /\ End(c) <= Start(b)}
              IN TaskOf(b.task).ops[b.op - 1].done + SumOver(LAMBDA c : c.qty, made) >= b.cumulative

LoadAccounted ==
    /\ \A o \in loaded :
          /\ SumOver(LAMBDA s : Cardinality(s.slots), o.segments) + o.missing
                 = SumOver(LAMBDA k : Load(TaskOf(o.task).ops[k]), DOMAIN TaskOf(o.task).ops)
          /\ \A s, x \in o.segments : s.op < x.op => Max(s.slots) < Min(x.slots)
    /\ \A o, p \in loaded : \A s \in o.segments, x \in p.segments :
          s.wc = x.wc /\ <<o.task, s>> # <<p.task, x>> => s.slots \cap x.slots = {}
    /\ SumOver(LAMBDA k : rough[k].load, DOMAIN rough) =
          SumOver(LAMBDA x : SumOver(LAMBDA k : x.ops[k].setup + x.ops[k].run * x.ops[k].quantity, DOMAIN x.ops),
                  {x \in Range(shop.tasks) \ Range(queue) : x.priority = 100})

\* In whatever pieces and lanes the batches come, a plan can be carried out: at no
\* time does a work center use more workers or machines than its maintenance leaves,
\* a lane serve two batches or anyone work outside the shift, and a batch starts when
\* its setup is done and the operation before has made all its units, counting what
\* was made before the plan (planClock, chooseDetailedLanes, routingPredecessor).
\* What CRP cannot place it reports: the segments of an order and what is missing
\* make up its load, in the order of its operations (FiniteSchedule).
ScheduleFeasible == CapacityRespected /\ UnitsFlow /\ LoadAccounted
=============================================================================
