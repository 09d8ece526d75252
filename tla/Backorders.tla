----------------------------- MODULE Backorders -----------------------------
(***************************************************************************)
(* Backorder processing: all open demand ranked and promised anew, the      *)
(* scarce part of the supply shared out by an allocation plan.  Preview     *)
(* stores the evidence; Publish locks the tables it knows of in SHARE mode,  *)
(* recalculates on another connection, and writes the dates.                *)
(***************************************************************************)
EXTENDS OrderPromising

CONSTANTS
    Classes,     \* customer service classes
    ClassRank,   \* ClassRank[c]: priority_rank of a class
    Plans,       \* product allocation plans
    From, To,    \* From[a], To[a]: days a plan is effective
    Share        \* Share[a]: allocation_pct by class, for the classes it has

ASSUME BackordersAssumption ==
    /\ ClassRank \in [Classes -> Nat]
    /\ \A a \in Plans : /\ From[a] \in Days /\ To[a] \in From[a]..MaxDay
                        /\ DOMAIN Share[a] \subseteq Classes /\ Share[a] \in [DOMAIN Share[a] -> 1..100]
                        /\ SumFunction(Share[a]) = 100

VARIABLES
    class,      \* customers.service_class_code
    priority,   \* sales_orders.priority
    allocation  \* product_allocation_plans.status

policyVars == <<class, priority, allocation>>
customerVars == <<salesVars, planVars, policyVars>>

Priorities == <<"EXPEDITE", "HIGH", "NORMAL">>
PlanStatus == {"NONE", "DRAFT", "ACTIVE", "INACTIVE"}

BackordersTypeOK ==
    /\ class \in [Customers -> Classes] /\ allocation \in [Plans -> PlanStatus]
    /\ \A o \in Orders : \E k \in DOMAIN Priorities : priority[o] = Priorities[k]
BackordersInit ==
    /\ class \in [Customers -> Classes]
    /\ priority = [o \in Orders |-> "NORMAL"]
    /\ allocation = [a \in Plans |-> "NONE"]

-----------------------------------------------------------------------------
\* A publication holds its tables until it commits: who writes to them waits.
Frozen == \E p \in Planners : planner[p].doing = "PUBLISH"

SetCustomerServiceClass(c, k) ==
    /\ ~Frozen /\ class[c] # k
    /\ class' = [class EXCEPT ![c] = k]
    /\ UNCHANGED <<salesVars, planVars, priority, allocation>>

SetSalesOrderPriority(o, p) ==
    /\ ~Frozen /\ priority[o] # p
    /\ order[o] \notin {"NONE", "SHIPPED", "CANCELLED"}
    /\ priority' = [priority EXCEPT ![o] = p]
    /\ UNCHANGED <<salesVars, planVars, class, allocation>>

MovePlan(a, from, to) ==
    /\ ~Frozen /\ allocation[a] = from
    /\ allocation' = [allocation EXCEPT ![a] = to]
    /\ UNCHANGED <<salesVars, planVars, class, priority>>

CreatePlan(a) == MovePlan(a, "NONE", "DRAFT")
Overlaps(a, b) == From[a] <= To[b] /\ From[b] <= To[a]
\* The guard trigger locks the item, so activations are one at a time.
ActivatePlan(a) ==
    /\ \A b \in Plans : allocation[b] = "ACTIVE" => ~Overlaps(a, b)
    /\ MovePlan(a, "DRAFT", "ACTIVE")
DeactivatePlan(a) == MovePlan(a, "ACTIVE", "INACTIVE")

ActivePolicy ==
    LET now == {a \in Plans : allocation[a] = "ACTIVE" /\ From[a] <= today /\ today <= To[a]}
    IN IF now = {} THEN None ELSE CHOOSE a \in now : \A b \in now : From[b] <= From[a]

-----------------------------------------------------------------------------
Candidates(h) ==
    {l \in Lines : /\ order[OrderOf[l]] \in OpenStatus
                   /\ OpenQty(l) > 0
                   /\ \/ RequestedOn[l] <= HorizonEnd(h)
                      \/ promised[l] # None /\ promised[l] <= HorizonEnd(h)}

Rank(l) == LET o == OrderOf[l] IN
    <<CHOOSE n \in 1..3 : Priorities[n] = priority[o], ClassRank[class[CustomerOf[o]]], RequestedOn[l], Place[l]>>
Before(l, m) ==
    LET r == Rank(l)  s == Rank(m) IN \E n \in 1..4 : r[n] < s[n] /\ \A k \in 1..(n - 1) : r[k] = s[k]
Ranked(lines) == Queue(lines, {x \in lines \X lines : Before(x[1], x[2])})

\* What the plan leaves line l of free quantity: its class' share of the pool,
\* less what the class has been given; nothing for a class the plan leaves out.
WithinShare(state, c, free) ==
    IF state.plan = None THEN free
    ELSE IF c \notin DOMAIN Share[state.plan] THEN 0
    ELSE Lesser(free, Positive((state.pool * Share[state.plan][c]) \div 100 - state.given[c]))

Reallocate(state, l) ==
    LET c == class[CustomerOf[OrderOf[l]]]
        requested == IF RequestedOn[l] < today THEN today ELSE RequestedOn[l]
        fixed == Lesser(line[l].allocated, OpenQty(l))
        free == TakeATP(state, OpenQty(l) - fixed, AvailableThrough(requested, state.lines, 0))
        atp == WithinShare(state, c, free)
    IN PromiseWith([state EXCEPT !.given[c] = @ + atp], l,
               [open |-> OpenQty(l), fixed |-> fixed, atp |-> atp, ctp |-> 0, atpDate |-> requested,
                date |-> requested, constraint |-> IF atp < free THEN "PRODUCT_ALLOCATION" ELSE "NONE",
                current |-> promised[l], class |-> c, rank |-> Cardinality(DOMAIN state.result) + 1])

BeforeFirst(h) ==
    [atp |-> 0, parts |-> 0, from |-> today, end |-> HorizonEnd(h), lines |-> Candidates(h),
     plan |-> ActivePolicy, pool |-> AvailableThrough(HorizonEnd(h), Candidates(h), 0),
     given |-> [c \in Classes |-> 0], result |-> <<>>]
\* The first n lines have been promised.
AfterLines(h) ==
    LET ranked == Ranked(Candidates(h))
        after[n \in 0..Len(ranked)] == IF n = 0 THEN BeforeFirst(h) ELSE Reallocate(after[n - 1], ranked[n])
    IN after
BackordersOf(h) == AfterLines(h)[Cardinality(Candidates(h))].result

-----------------------------------------------------------------------------
Preview(r, h) ==
    /\ run[r] = NoRun
    /\ LET result == BackordersOf(h) IN
          /\ result # <<>>
          /\ run' = [run EXCEPT ![r] = [kind |-> "BACKORDER", horizon |-> h, plan |-> ActivePolicy,
                                        orders |-> {OrderOf[l] : l \in DOMAIN result}, result |-> result]]
    /\ UNCHANGED <<salesVars, today, plant, promised, decisions, planner, policyVars>>

\* The hash covers ranks, classes, plan and former dates as well as the outcome.
StillTheResult(r) == BackordersOf(run[r].horizon) = run[r].result /\ ActivePolicy = run[r].plan

\* Publish up to the recalculation under the locks.
BeginPublish(p, r) ==
    /\ planner[p] = Resting
    /\ run[r].kind = "BACKORDER" /\ ~Decided(r)
    /\ StillTheResult(r)
    /\ planner' = [planner EXCEPT ![p] = [doing |-> "PUBLISH", run |-> r]]
    /\ UNCHANGED <<salesVars, today, plant, promised, run, decisions, policyVars>>

\* mutant: a line that is not fully confirmed keeps its date
KeepUnconfirmed(r, l) == IF run[r].result[l].date = None THEN promised[l] ELSE run[r].result[l].date
ProposedDate(r, l) == run[r].result[l].date

\* The dates are written once no other publication holds the tables: of two that
\* do, the server aborts one.
Publish(p) == LET r == planner[p].run IN
    /\ planner[p].doing = "PUBLISH"
    /\ \A q \in Planners \ {p} : planner[q].doing # "PUBLISH"
    /\ ~Decided(r)
    /\ decisions' = Append(decisions, [kind |-> "PUBLICATION", run |-> r])
    /\ promised' = [l \in Lines |-> IF l \in DOMAIN run[r].result THEN ProposedDate(r, l) ELSE promised[l]]
    /\ planner' = [planner EXCEPT ![p] = Resting]
    /\ UNCHANGED <<salesVars, today, plant, run, policyVars>>

\* Supply and capacity change; under a publication only what no table lock
\* covers: the inventory policy and maintenance.
Replan(x) ==
    /\ x # plant
    /\ Frozen => \A f \in DOMAIN plant \ {"safety", "free"} : x[f] = plant[f]
    /\ plant' = x
    /\ UNCHANGED <<salesVars, today, promised, run, decisions, planner, policyVars>>

NextDay ==
    /\ today < MaxDay
    /\ today' = today + 1
    /\ UNCHANGED <<salesVars, plant, promised, run, decisions, planner, policyVars>>

CustomerInit == SalesInit /\ PromisingInit /\ BackordersInit

SalesStep == ~Frozen /\ SalesNext /\ UNCHANGED <<planVars, policyVars>>
PromisingStep ==
    /\ UNCHANGED policyVars
    /\ \/ \E r \in Runs, o \in Orders, h \in Horizons : Check(r, o, h)
       \/ \E p \in Planners, r \in Runs : Reconsider(p, r)
       \/ \E p \in Planners : (~Frozen /\ Accept(p)) \/ GiveUp(p)
BackorderStep ==
    \/ \E r \in Runs, h \in Horizons : Preview(r, h)
    \/ \E p \in Planners, r \in Runs : BeginPublish(p, r)
    \/ \E p \in Planners : Publish(p)
PolicyStep ==
    \/ \E c \in Customers, k \in Classes : SetCustomerServiceClass(c, k)
    \/ \E o \in Orders, k \in 1..3 : SetSalesOrderPriority(o, Priorities[k])
    \/ \E a \in Plans : CreatePlan(a) \/ ActivatePlan(a) \/ DeactivatePlan(a)
PlantStep == NextDay \/ \E x \in Plants : Replan(x)

CustomerNext == SalesStep \/ PromisingStep \/ BackorderStep \/ PolicyStep \/ PlantStep
CustomerSpec == CustomerInit /\ [][CustomerNext]_customerVars

-----------------------------------------------------------------------------
ATP(result) == [l \in DOMAIN result |-> result[l].atp]
ATPBy(result, d) == SumFunctionOnSet(ATP(result), {l \in DOMAIN result : result[l].atpDate <= d})
ATPOfClass(result, c) == SumFunctionOnSet(ATP(result), {l \in DOMAIN result : class[CustomerOf[OrderOf[l]]] = c})

\* The most there is of the product on any day up to d, the demand of these lines aside.
MostBy(d, lines) == Max({0} \union {BeforeSafety(e, lines, 0) : e \in 1..d})

FitsSupply(r) == LET lines == DOMAIN r.result IN
    /\ \A d \in Days : ATPBy(r.result, d) <= MostBy(d, lines)
    /\ r.plan # None =>
          \E t \in 1..today : \A c \in Classes :
              ATPOfClass(r.result, c) * 100 <=
                  Positive(BeforeSafety(t + r.horizon - 1, lines, 0))
                      * (IF c \in DOMAIN Share[r.plan] THEN Share[r.plan][c] ELSE 0)

\* What a publication promises from stock and supply, day by day, is there once for all its lines when it is
\* published; and no class gets more than its share of what there was for the horizon, whatever the day the run
\* was calculated.  The lines' own demand is not counted against them, nor that of lines due later: a horizon that
\* leaves them out may promise what they are waiting for (Publish, calculate, AvailableThrough).
PublishedFitsSupply ==
    [][\A p \in Planners : Publish(p) => FitsSupply(run[planner[p].run])]_customerVars

LatestFor(o) == {k \in DOMAIN decisions :
                    /\ o \in run[decisions[k].run].orders
                    /\ \A n \in (k + 1)..Len(decisions) : o \notin run[decisions[n].run].orders}

\* The dates of an order are those of the newest decision about it, acceptance or
\* publication, for every line that decision covers (Accept, Publish).
DecisionExplainsDates ==
    \A o \in Orders : \A k \in LatestFor(o) :
        LET result == run[decisions[k].run].result IN
        \A l \in LinesOf(o) \cap DOMAIN result : promised[l] = result[l].date
=============================================================================
