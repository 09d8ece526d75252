---------------------------- MODULE SalesOrders ----------------------------
(***************************************************************************)
(* Sales orders of one product: their life cycle, and the stock that lines  *)
(* reserve, ship and give back.  Allocations, releases and shipments carry  *)
(* an id chosen by the client.  A request looks its id up before it locks   *)
(* anything and does the rest in one transaction, so that two copies of a   *)
(* request may both miss each other.                                        *)
(*                                                                         *)
(* The lots of the product (StockLedger) are folded into what is OK and     *)
(* what is not.                                                            *)
(***************************************************************************)
EXTENDS Integers, Sequences, FiniteSets, SequencesExt

CONSTANTS
    Customers, Orders, Lines,
    CustomerOf,  \* CustomerOf[o], OrderOf[l]: owner of an order, of a line
    OrderOf,
    Quantity,    \* Quantity[l]: ordered quantity of a line
    Tasks,       \* what clients ask for: [kind, id, line, qty]
    Requests,    \* requests served at once
    Others,      \* stands for the work orders that reserve the product
    Batch,       \* units a receipt or an inspection moves
    MaxStock     \* bound: units of the product on hand

TaskKinds == {"ALLOCATE", "RELEASE", "SHIP"}

ASSUME SalesOrdersAssumption ==
    /\ CustomerOf \in [Orders -> Customers] /\ OrderOf \in [Lines -> Orders]
    /\ Quantity \in [Lines -> Nat \ {0}]
    /\ \A t \in Tasks : t.kind \in TaskKinds /\ t.line \in Lines /\ t.qty \in Nat \ {0}
    /\ IsFiniteSet(Lines)
    /\ Others \notin Lines /\ MaxStock \in Nat /\ Batch \in Nat \ {0}

VARIABLES
    blocked,    \* customers whose status is BLOCKED
    order,      \* sales_orders.status
    history,    \* sales_order_status_history: the statuses an order has had
    line,       \* sales_order_lines
    sellable,   \* units in OK lots
    held,       \* units in other lots
    reserved,   \* RESERVE less UNRESERVE transactions by ref_doc
    events,     \* sales_order_allocation_events
    shipments,  \* sales_order_shipments
    request,    \* requests between their look-up and their transaction
    answered    \* tasks answered with success

salesVars == <<blocked, order, history, line, sellable, held, reserved, events, shipments, request, answered>>
stockVars == <<sellable, held>>

OrderStatus == {"DRAFT", "CONFIRMED", "PARTIALLY_SHIPPED", "SHIPPED", "CANCELLED"}
OpenStatus == {"CONFIRMED", "PARTIALLY_SHIPPED"}
SalesOrderLine == [allocated : Nat, shipped : Nat, cancelled : Nat]
SalesOrderEvent == [id : {t.id : t \in Tasks} \union {"generated"}, line : Lines, qty : Nat \ {0},
                    kind : {"ALLOCATE", "RELEASE", "SHIP_RELEASE", "CANCEL_RELEASE"}]
SalesOrderShipment == [id : {t.id : t \in Tasks}, line : Lines, qty : Nat \ {0}, kind : {"SHIP"}]
Idle == [kind |-> "NONE"]

SalesTypeOK ==
    /\ blocked \subseteq Customers
    /\ order \in [Orders -> OrderStatus \union {"NONE"}]
    /\ line \in [Lines -> SalesOrderLine]
    /\ sellable \in Nat /\ held \in Nat
    /\ reserved \in [Lines \union {Others} -> Nat]
    /\ history \in [Orders -> Seq(OrderStatus)]
    /\ events \in Seq(SalesOrderEvent) /\ shipments \in Seq(SalesOrderShipment)
    /\ request \in [Requests -> Tasks \union {Idle}]
    /\ answered \subseteq Tasks

SalesInit ==
    /\ blocked = {}
    /\ order = [o \in Orders |-> "NONE"] /\ history = [o \in Orders |-> <<>>]
    /\ line = [l \in Lines |-> [allocated |-> 0, shipped |-> 0, cancelled |-> 0]]
    /\ sellable = 0 /\ held = 0
    /\ reserved = [r \in Lines \union {Others} |-> 0]
    /\ events = <<>> /\ shipments = <<>>
    /\ request = [q \in Requests |-> Idle] /\ answered = {}

-----------------------------------------------------------------------------
LinesOf(o) == {l \in Lines : OrderOf[l] = o}
Positive(n) == IF n > 0 THEN n ELSE 0
OpenQty(l) == Positive(Quantity[l] - line[l].shipped - line[l].cancelled)
Unallocated(l) == Positive(OpenQty(l) - line[l].allocated)
Reserved == SumFunction(reserved)
\* v_stock_balance counts every lot, whatever its quality.
Available == sellable + held - Reserved

-----------------------------------------------------------------------------
(* The product's stock, as the ledger and the work orders move it.          *)

Receive ==
    /\ sellable + held + Batch <= MaxStock
    /\ \/ sellable' = sellable + Batch /\ UNCHANGED held
       \/ held' = held + Batch /\ UNCHANGED sellable
    /\ UNCHANGED <<blocked, order, history, line, reserved, events, shipments, request, answered>>

Requalify ==
    /\ \/ sellable >= Batch /\ sellable' = sellable - Batch /\ held' = held + Batch
       \/ held >= Batch /\ sellable' = sellable + Batch /\ held' = held - Batch
    /\ UNCHANGED <<blocked, order, history, line, reserved, events, shipments, request, answered>>

ReserveForOthers ==
    /\ \/ Available >= Batch /\ reserved' = [reserved EXCEPT ![Others] = @ + Batch]
       \/ reserved[Others] >= Batch /\ reserved' = [reserved EXCEPT ![Others] = @ - Batch]
    /\ UNCHANGED <<blocked, order, history, line, stockVars, events, shipments, request, answered>>

-----------------------------------------------------------------------------
UpdateCustomer(c) ==
    /\ blocked' = IF c \in blocked THEN blocked \ {c} ELSE blocked \union {c}
    /\ UNCHANGED <<order, history, line, stockVars, reserved, events, shipments, request, answered>>

Enter(o, s) ==
    /\ order' = [order EXCEPT ![o] = s]
    /\ history' = IF s \in {order[o], "DRAFT"} THEN history ELSE [history EXCEPT ![o] = Append(@, s)]

Create(o) ==
    /\ order[o] = "NONE"
    /\ CustomerOf[o] \notin blocked
    /\ LinesOf(o) # {}
    /\ Enter(o, "DRAFT")
    /\ UNCHANGED <<blocked, line, stockVars, reserved, events, shipments, request, answered>>

Confirm(o) ==
    /\ order[o] = "DRAFT"
    /\ CustomerOf[o] \notin blocked
    /\ Enter(o, "CONFIRMED")
    /\ UNCHANGED <<blocked, line, stockVars, reserved, events, shipments, request, answered>>

-----------------------------------------------------------------------------
(* A request: the look-up of its id, then its transaction.                  *)

RowsWithId(t) ==
    IF t.kind = "SHIP" THEN {shipments[k] : k \in {i \in DOMAIN shipments : shipments[i].id = t.id}}
                       ELSE {events[k] : k \in {i \in DOMAIN events : events[i].id = t.id}}
SameRequest(row, t) == row.line = t.line /\ row.qty = t.qty /\ row.kind = t.kind

\* A known id answers with the order as it is, or 409 if it meant something else.
LookUp(q, t) ==
    /\ request[q] = Idle
    /\ IF RowsWithId(t) = {}
       THEN request' = [request EXCEPT ![q] = t] /\ UNCHANGED answered
       ELSE /\ \A row \in RowsWithId(t) : SameRequest(row, t)
            /\ answered' = answered \union {t} /\ UNCHANGED request
    /\ UNCHANGED <<blocked, order, history, line, stockVars, reserved, events, shipments>>

\* mutant: the id is no primary key
AnyId(t) == TRUE
\* The id is the primary key of its table: the second of two copies fails.
FreshId(t) == RowsWithId(t) = {}

Answer(q, t) == request' = [request EXCEPT ![q] = Idle] /\ answered' = answered \union {t}
Row(t) == [id |-> t.id, line |-> t.line, qty |-> t.qty, kind |-> t.kind]

Allocate(q) == LET t == request[q]  l == t.line IN
    /\ t.kind = "ALLOCATE"
    /\ order[OrderOf[l]] \in OpenStatus
    /\ t.qty <= Unallocated(l)
    /\ t.qty <= Available
    /\ FreshId(t)
    /\ reserved' = [reserved EXCEPT ![l] = @ + t.qty]
    /\ events' = Append(events, Row(t))
    /\ line' = [line EXCEPT ![l].allocated = @ + t.qty]
    /\ Answer(q, t)
    /\ UNCHANGED <<blocked, order, history, stockVars, shipments>>

ReleaseAllocation(q) == LET t == request[q]  l == t.line IN
    /\ t.kind = "RELEASE"
    /\ order[OrderOf[l]] \in OpenStatus
    /\ t.qty <= line[l].allocated
    /\ FreshId(t)
    /\ reserved' = [reserved EXCEPT ![l] = @ - t.qty]
    /\ events' = Append(events, Row(t))
    /\ line' = [line EXCEPT ![l].allocated = @ - t.qty]
    /\ Answer(q, t)
    /\ UNCHANGED <<blocked, order, history, stockVars, shipments>>

OpenUnits(o) == SumFunction([l \in LinesOf(o) |-> OpenQty(l)])
\* Status of order o once n more units of line l have left.
ShippedStatus(o, l, n) ==
    IF OpenUnits(o) = n THEN "SHIPPED" ELSE "PARTIALLY_SHIPPED"

Ship(q) == LET t == request[q]  l == t.line IN
    /\ t.kind = "SHIP"
    /\ order[OrderOf[l]] \in OpenStatus
    /\ t.qty <= line[l].allocated
    /\ t.qty <= OpenQty(l)
    /\ t.qty <= sellable
    /\ FreshId(t)
    /\ sellable' = sellable - t.qty
    /\ reserved' = [reserved EXCEPT ![l] = @ - t.qty]
    /\ events' = Append(events, [id |-> "generated", line |-> l, qty |-> t.qty, kind |-> "SHIP_RELEASE"])
    /\ shipments' = Append(shipments, Row(t))
    /\ line' = [line EXCEPT ![l].allocated = @ - t.qty, ![l].shipped = @ + t.qty]
    /\ Enter(OrderOf[l], ShippedStatus(OrderOf[l], l, t.qty))
    /\ Answer(q, t)
    /\ UNCHANGED <<blocked, held>>

\* Refused, timed out or cut off: the transaction is rolled back.
RollBack(q) ==
    /\ request[q] # Idle
    /\ request' = [request EXCEPT ![q] = Idle]
    /\ UNCHANGED <<blocked, order, history, line, stockVars, reserved, events, shipments, answered>>

\* mutant: a small allocation is forgotten and stays reserved
ForgottenRelease(l) == line[l].allocated > 2
HasToRelease(l) == line[l].allocated > 0

Cancel(o) ==
    LET released == {l \in LinesOf(o) : HasToRelease(l)} IN
    /\ order[o] \notin {"NONE", "SHIPPED", "CANCELLED"}
    /\ reserved' = [r \in DOMAIN reserved |-> IF r \in released THEN reserved[r] - line[r].allocated ELSE reserved[r]]
    /\ events' = events \o [i \in 1..Cardinality(released) |-> LET l == SetToSeq(released)[i] IN
                  [id |-> "generated", line |-> l, qty |-> line[l].allocated, kind |-> "CANCEL_RELEASE"]]
    /\ line' = [l \in Lines |-> IF l \in LinesOf(o)
                                THEN [line[l] EXCEPT !.allocated = 0, !.cancelled = Positive(Quantity[l] - line[l].shipped)]
                                ELSE line[l]]
    /\ Enter(o, "CANCELLED")
    /\ UNCHANGED <<blocked, stockVars, shipments, request, answered>>

-----------------------------------------------------------------------------
SalesNext ==
    \/ Receive \/ Requalify \/ ReserveForOthers
    \/ \E c \in Customers : UpdateCustomer(c)
    \/ \E o \in Orders : Create(o) \/ Confirm(o) \/ Cancel(o)
    \/ \E q \in Requests, t \in Tasks : LookUp(q, t)
    \/ \E q \in Requests : Allocate(q) \/ ReleaseAllocation(q) \/ Ship(q) \/ RollBack(q)

SalesSpec == SalesInit /\ [][SalesNext]_salesVars

-----------------------------------------------------------------------------
Total(rows, l, kinds) ==
    SumFunction([k \in {i \in DOMAIN rows : rows[i].line = l /\ rows[i].kind \in kinds} |-> rows[k].qty])

LinesReconcile ==
    \A l \in Lines :
        /\ line[l].allocated = Total(events, l, {"ALLOCATE"})
                               - Total(events, l, {"RELEASE", "SHIP_RELEASE", "CANCEL_RELEASE"})
        /\ line[l].allocated = reserved[l]
        /\ line[l].shipped = Total(shipments, l, {"SHIP"})
        /\ line[l].allocated + line[l].shipped + line[l].cancelled <= Quantity[l]

HeaderReconciles ==
    \A o \in Orders :
        LET open == OpenUnits(o)
            shipped == SumFunction([l \in LinesOf(o) |-> line[l].shipped])
            allocated == SumFunction([l \in LinesOf(o) |-> reserved[l]])
        IN /\ order[o] \in {"NONE", "DRAFT"} => shipped = 0 /\ allocated = 0
           /\ order[o] = "CONFIRMED" => shipped = 0
           /\ order[o] = "PARTIALLY_SHIPPED" => shipped > 0 /\ open > 0
           /\ order[o] = "SHIPPED" => shipped > 0 /\ open = 0 /\ allocated = 0
           /\ order[o] = "CANCELLED" => open = 0 /\ allocated = 0
           /\ history[o] # <<>> => history[o][Len(history[o])] = order[o]

\* Whatever the order of allocations, releases, shipments and cancellation: what a
\* line has allocated is what its events add up to and what it has reserved in the
\* ledger, and its shipments are what it has shipped, never more than was ordered;
\* and the header tells the state of its lines, SHIPPED once nothing is open,
\* terminal only without stock (Allocate, Ship, Cancel).
OrdersReconcile == LinesReconcile /\ HeaderReconciles

\* A request answered with success has been carried out, as it was asked, and
\* no more than once, however often it was sent and however its copies met.
RequestsApplyOnce ==
    /\ \A t \in answered :
          LET rows == IF t.kind = "SHIP" THEN shipments ELSE events IN
          \E k \in DOMAIN rows : rows[k] = Row(t)
    /\ \A i, j \in DOMAIN events :
          i # j /\ events[i].id = events[j].id => events[i].id = "generated"
    /\ \A i, j \in DOMAIN shipments : i # j => shipments[i].id # shipments[j].id
=============================================================================
