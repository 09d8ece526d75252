-------------------------- MODULE StockTransactions --------------------------
(***************************************************************************)
(* The transactions behind a release and a completion, statement by        *)
(* statement: which row locks each takes, in which order, what it reads    *)
(* under them and what it commits.  It is the ground Production stands on, *)
(* where each is one step.                                                 *)
(*                                                                         *)
(* PostgreSQL gives two strengths of row lock here.  SELECT ... FOR UPDATE *)
(* excludes everything; the check of a foreign key takes FOR KEY SHARE on  *)
(* the referenced row, which excludes FOR UPDATE but not another key       *)
(* share.  A transaction that waits in a cycle is aborted with SQLSTATE    *)
(* 40P01, gives up its locks and answers 409; the client may call again.   *)
(***************************************************************************)
EXTENDS Integers, SequencesExt

CONSTANTS
    Txns,          \* requests: one transaction at a time each
    Orders,        \* work orders
    NumItems,      \* items are numbered in UUID order
    Kind,          \* "release" or "complete", by request
    OrderOf,       \* the work order of a request
    ProductOf,     \* the item an order makes
    Need,          \* by order and item: what its whole quantity needs
    Yield,         \* by order: that quantity
    InitialStock,  \* on hand at the start, by item
    AlreadyReleased, \* the orders released before the start
    MaxAttempts    \* bound: how often each request is called, again after a 409

Items == 1..NumItems

\* What was released before the start had been covered then.
ASSUME TransactionAssumption ==
    /\ NumItems \in Nat /\ IsFiniteSet(Orders)
    /\ Kind \in [Txns -> {"release", "complete"}]
    /\ OrderOf \in [Txns -> Orders]
    /\ ProductOf \in [Orders -> Items]
    /\ Need \in [Orders -> [Items -> Nat]]
    /\ Yield \in [Orders -> Nat]
    /\ InitialStock \in [Items -> Nat]
    /\ AlreadyReleased \subseteq Orders
    /\ \A i \in Items :
         SumFunctionOnSet([w \in Orders |-> Need[w][i]], AlreadyReleased) <= InitialStock[i]
    /\ MaxAttempts \in [Txns -> Nat \ {0}]

VARIABLES
    state,      \* of a request
    position,   \* the next lock of its program
    attempts,   \* how often it was called
    onHand,     \* committed stock, by item
    reserved,   \* committed reservations, by order and item
    orderStatus,
    seen        \* the available quantity a request has read

vars == <<state, position, attempts, onHand, reserved, orderStatus, seen>>

-----------------------------------------------------------------------------
(* Lock programs *)

Components(w) == {i \in Items : Need[w][i] > 0}

\* SortedUniqueRequirementIDs, and the order the snapshot lines are read in.
Ascending(S) ==
    CHOOSE s \in SetToSeqs(S) : \A m, n \in 1..Cardinality(S) : m < n => s[m] < s[n]

OrderRow(w) == <<"order", w>>
ItemRow(i) == <<"item", i>>
Update(row) == [row |-> row, mode |-> "UPDATE"]
KeyShare(row) == [row |-> row, mode |-> "KEY SHARE"]

ItemLocks(S, mode) ==
    [n \in DOMAIN Ascending(S) |-> [row |-> ItemRow(Ascending(S)[n]), mode |-> mode]]

\* mutant: the balances are read before the component rows are locked
ReleaseProgramUnlocked == [w \in Orders |-> <<Update(OrderRow(w))>>]

\* The order row, the foreign keys of the snapshot header and of its lines, and
\* then the component rows the balances are computed under.
ReleaseProgram ==
    [w \in Orders |->
        <<Update(OrderRow(w)), KeyShare(ItemRow(ProductOf[w]))>>
            \o ItemLocks(Components(w), "KEY SHARE") \o ItemLocks(Components(w), "UPDATE")]

\* mutant: the BOM's lines are captured in the order of each BOM
CompleteProgramUnsorted ==
    [w \in Orders |->
        <<Update(OrderRow(w))>>
            \o (LET locks == ItemLocks(Components(w), "UPDATE")
                IN  IF ProductOf[w] % 2 = 0 THEN Reverse(locks) ELSE locks)
            \o <<Update(ItemRow(ProductOf[w]))>>]

\* Every component posting locks its item; the finished goods are posted last.
CompleteProgram ==
    [w \in Orders |->
        <<Update(OrderRow(w))>>
            \o ItemLocks(Components(w), "UPDATE") \o <<Update(ItemRow(ProductOf[w]))>>]

Program(t) == IF Kind[t] = "release" THEN ReleaseProgram[OrderOf[t]]
                                     ELSE CompleteProgram[OrderOf[t]]

-----------------------------------------------------------------------------
(* Locking *)

Held(t) ==
    IF state[t] = "running"
    THEN {Program(t)[n] : n \in {k \in DOMAIN Program(t) : k < position[t]}}
    ELSE {}

Conflict(a, b) == a.row = b.row /\ "UPDATE" \in {a.mode, b.mode}

Acquiring(t) == state[t] = "running" /\ position[t] <= Len(Program(t))

\* t cannot go on before u gives up a lock.
WaitsFor(t, u) ==
    /\ t # u
    /\ Acquiring(t)
    /\ \E lock \in Held(u) : Conflict(Program(t)[position[t]], lock)

Blocked(t) == \E u \in Txns : WaitsFor(t, u)

\* t waits for itself, through others.
InCycle(t) ==
    LET waitsOn[u \in Txns] == {v \in Txns : WaitsFor(u, v)}
        reach[n \in Nat] == IF n = 0 THEN waitsOn[t]
                            ELSE waitsOn[t] \union UNION {waitsOn[u] : u \in reach[n - 1]}
    IN  Blocked(t) /\ t \in reach[Cardinality(Txns)]

-----------------------------------------------------------------------------
NothingSeen == [i \in Items |-> 0]

StatusWhen(released) == IF released THEN "RELEASED" ELSE "PLANNED"

Init ==
    /\ state = [t \in Txns |-> "idle"]
    /\ position = [t \in Txns |-> 1]
    /\ attempts = [t \in Txns |-> 0]
    /\ onHand = InitialStock
    /\ reserved = [w \in Orders |->
            IF w \in AlreadyReleased THEN Need[w] ELSE NothingSeen]
    /\ orderStatus = [w \in Orders |-> StatusWhen(w \in AlreadyReleased)]
    /\ seen = [t \in Txns |-> NothingSeen]

Begin(t) ==
    /\ state[t] = "idle"
    /\ state' = [state EXCEPT ![t] = "running"]
    /\ position' = [position EXCEPT ![t] = 1]
    /\ attempts' = [attempts EXCEPT ![t] = @ + 1]
    /\ UNCHANGED <<onHand, reserved, orderStatus, seen>>

\* The order row is read by the statement that locks it.
StatusAllows(t) ==
    orderStatus[OrderOf[t]] = IF Kind[t] = "release" THEN "PLANNED" ELSE "RELEASED"

LockOrder(t) ==
    /\ Acquiring(t) /\ position[t] = 1 /\ ~Blocked(t)
    /\ IF StatusAllows(t)
       THEN /\ position' = [position EXCEPT ![t] = 2]
            /\ UNCHANGED state
       ELSE /\ state' = [state EXCEPT ![t] = "refused"]
            /\ UNCHANGED position
    /\ UNCHANGED <<attempts, onHand, reserved, orderStatus, seen>>

LockNext(t) ==
    /\ Acquiring(t) /\ position[t] > 1 /\ ~Blocked(t)
    /\ position' = [position EXCEPT ![t] = @ + 1]
    /\ UNCHANGED <<state, attempts, onHand, reserved, orderStatus, seen>>

\* Each statement of a READ COMMITTED transaction sees what is committed then.
Reserved(i) == SumFunctionOnSet([w \in Orders |-> reserved[w][i]], Orders)
Available(i) == onHand[i] - Reserved(i)

ReadBalances(t) ==
    /\ state[t] = "running" /\ position[t] = Len(Program(t)) + 1
    /\ position' = [position EXCEPT ![t] = @ + 1]
    /\ seen' = [seen EXCEPT ![t] = IF Kind[t] = "release"
                                   THEN [i \in Items |-> Available(i)] ELSE onHand]
    /\ UNCHANGED <<state, attempts, onHand, reserved, orderStatus>>

Covered(t) == \A i \in Components(OrderOf[t]) : seen[t][i] >= Need[OrderOf[t]][i]

CommitRelease(t) ==
    LET w == OrderOf[t] IN
    /\ Kind[t] = "release"
    /\ reserved' = [reserved EXCEPT ![w] = Need[w]]
    /\ orderStatus' = [orderStatus EXCEPT ![w] = "RELEASED"]
    /\ UNCHANGED onHand

CommitCompletion(t) ==
    LET w == OrderOf[t] IN
    /\ Kind[t] = "complete"
    /\ onHand' = [i \in Items |->
            onHand[i] - Need[w][i] + (IF i = ProductOf[w] THEN Yield[w] ELSE 0)]
    /\ reserved' = [reserved EXCEPT ![w] = NothingSeen]
    /\ orderStatus' = [orderStatus EXCEPT ![w] = "COMPLETED"]

Commit(t) ==
    /\ state[t] = "running" /\ position[t] = Len(Program(t)) + 2
    /\ Covered(t)
    /\ CommitRelease(t) \/ CommitCompletion(t)
    /\ state' = [state EXCEPT ![t] = "committed"]
    /\ UNCHANGED <<position, attempts, seen>>

\* A component is short: everything is rolled back.
Refuse(t) ==
    /\ state[t] = "running" /\ position[t] = Len(Program(t)) + 2
    /\ ~Covered(t)
    /\ state' = [state EXCEPT ![t] = "refused"]
    /\ UNCHANGED <<position, attempts, onHand, reserved, orderStatus, seen>>

\* The deadlock detector picks a transaction of the cycle.
AbortDeadlocked(t) ==
    /\ InCycle(t)
    /\ state' = [state EXCEPT ![t] = "aborted"]
    /\ UNCHANGED <<position, attempts, onHand, reserved, orderStatus, seen>>

CallAgain(t) ==
    /\ state[t] = "aborted"
    /\ attempts[t] < MaxAttempts[t]
    /\ state' = [state EXCEPT ![t] = "idle"]
    /\ UNCHANGED <<position, attempts, onHand, reserved, orderStatus, seen>>

\* What the database does on its own once a request is running.
Proceed(t) == LockOrder(t) \/ LockNext(t) \/ ReadBalances(t) \/ Commit(t) \/ Refuse(t)

Next == \E t \in Txns : Begin(t) \/ Proceed(t) \/ AbortDeadlocked(t) \/ CallAgain(t)

Spec == Init /\ [][Next]_vars

\* PostgreSQL executes a statement that is not blocked, grants a lock that is
\* free, and looks for a deadlock after deadlock_timeout of waiting.
FairSpec ==
    Spec /\ \A t \in Txns : WF_vars(Proceed(t)) /\ WF_vars(AbortDeadlocked(t))

-----------------------------------------------------------------------------
RequestState == {"idle", "running", "committed", "refused", "aborted"}

TypeOK ==
    /\ state \in [Txns -> RequestState]
    /\ position \in [Txns -> Nat]
    /\ attempts \in [Txns -> Nat] /\ \A t \in Txns : attempts[t] <= MaxAttempts[t]
    /\ onHand \in [Items -> Nat]
    /\ reserved \in [Orders -> [Items -> Nat]]
    /\ orderStatus \in [Orders -> {"PLANNED", "RELEASED", "COMPLETED"}]
    /\ seen \in [Txns -> [Items -> Int]]

\* docs/WO_ATOMIC_RELEASE.md: concurrent releases never reserve more than there
\* is, and a completion in between never uses what another order was promised.
NeverOverReserved == \A i \in Items : Available(i) >= 0

\* What a release read is still true when it commits: nothing it saw as
\* available was taken between its balance query and its own reservation.
ReadsStayTrue ==
    \A t \in Txns :
        Kind[t] = "release" /\ state[t] = "running"
            /\ position[t] = Len(Program(t)) + 2
        => \A i \in Components(OrderOf[t]) : seen[t][i] = Available(i)

\* A completion whose product is no component of what a completion makes: the
\* lock of its finished goods, taken last, is out of the order of no other.
Ordered(t) ==
    /\ Kind[t] = "complete"
    /\ \A u \in Txns : Kind[u] = "complete" => ProductOf[OrderOf[t]] \notin Components(OrderOf[u])

Deadlocked(S) == S # {} /\ \A t \in S : \E u \in S : WaitsFor(t, u)

\* workflow.go:249 and :842: the components are captured and posted in UUID
\* order, so however many completions run, those that are Ordered never wait for
\* each other in a circle.  Any deadlock has a release in it, which asks twice
\* for a row, or a completion whose product is another's component.
OrderedNeverDeadlock == \A S \in SUBSET {t \in Txns : Ordered(t)} : ~Deadlocked(S)

\* While only such completions run, none is sacrificed to a deadlock and none
\* waits for ever: each is committed, or refused for its order or its components.
OrderedSucceed ==
    [](\A u \in Txns : state[u] = "running" => Ordered(u))
    => \A t \in Txns : state[t] = "running" ~> state[t] \in {"committed", "refused"}

\* The deterministic lock order leaves no room for a deadlock.
NoDeadlock == \A t \in Txns : ~InCycle(t)
=============================================================================
