----------------------- MODULE StockTransactions_proof -----------------------
(***************************************************************************)
(* Why concurrent releases and completions cannot promise a unit twice, for *)
(* any number of requests, orders and items.  The locks of two running      *)
(* requests never conflict; a request past its first lock holds its order   *)
(* row, one that has read its balances holds the row of every component, so *)
(* what it has read is still true when it commits.  Deadlocks and their     *)
(* aborts do not enter: an aborted request holds nothing and wrote nothing. *)
(* CompletionsSafe is about deadlocks themselves: the rows a completion asks *)
(* for rise in rank, so the one that waits highest waits for nobody.        *)
(***************************************************************************)
EXTENDS StockTransactions, Sums_proof, SequenceTheorems, TLAPS

-----------------------------------------------------------------------------
(* The lock programs *)

LEMMA SetToSeqsCovers ==
    ASSUME NEW S, IsFiniteSet(S), NEW s \in SetToSeqs(S)
    PROVE  /\ Cardinality(S) \in Nat /\ s \in [1..Cardinality(S) -> S]
           /\ \A x \in S : \E n \in 1..Cardinality(S) : s[n] = x
<1> DEFINE N == Cardinality(S)
<1>1. N \in Nat
    BY FS_CardinalityType
<1>2. s \in [1..N -> S] /\ \A i, j \in 1..N : i # j => s[i] # s[j]
    BY DEF SetToSeqs
<1>3. s \in Injection(1..N, S)
    BY <1>2 DEF Injection, IsInjective
<1>4. Cardinality(1..N) = N
    BY <1>1, FS_Interval
<1>5. s \in Surjection(1..N, S)
    BY <1>3, <1>4, FS_Injection
<1> QED
    BY <1>1, <1>2, <1>5 DEF Surjection

\* Every finite set of item numbers can be listed in ascending order.
Lists(S, s) ==
    s \in SetToSeqs(S) /\ \A m, n \in 1..Cardinality(S) : m < n => s[m] < s[n]

LEMMA AscendingExists ==
    ASSUME NEW S, IsFiniteSet(S), \A x \in S : x \in Nat
    PROVE  \E s : Lists(S, s)
<1> DEFINE C == {T \in SUBSET S : ~ \E s : Lists(T, s)}
<1> SUFFICES ASSUME C # {} PROVE FALSE
    OBVIOUS
<1>1. PICK T \in C : \A U \in C : U \subseteq T => U = T
  <2>1. C \subseteq SUBSET S
      OBVIOUS
  <2> HIDE DEF C
  <2> QED
      BY <2>1, SmallestSet
<1>2. IsFiniteSet(T) /\ (\A x \in T : x \in Nat) /\ ~ \E s : Lists(T, s)
    BY <1>1, FS_Subset
<1>3. T # {}
  <2> SUFFICES ASSUME T = {} PROVE FALSE
      OBVIOUS
  <2>1. Cardinality(T) = 0
      BY FS_EmptySet
  <2>2. 1..Cardinality(T) = {}
      BY <2>1
  <2> DEFINE s == [n \in {} |-> n]
  <2>3. s \in [1..Cardinality(T) -> T]
      BY <2>2
  <2>4. Lists(T, s)
      BY <2>2, <2>3 DEF Lists, SetToSeqs
  <2> QED
      BY <1>2, <2>4
<1>4. PICK x \in T : \A y \in T : x <= y
  <2>1. T \subseteq Nat
      BY <1>2
  <2> QED
      BY <1>3, <2>1, SmallestNumber
<1> DEFINE R == T \ {x}
           N == Cardinality(T)
<1>5. R \notin C /\ R \in SUBSET S
    BY <1>1, <1>4
<1>6. PICK r : Lists(R, r)
    BY <1>5
<1>7. N \in Nat /\ Cardinality(R) = N - 1
    BY <1>2, <1>4, FS_CardinalityType, FS_RemoveElement
<1>8. /\ r \in [1..(N - 1) -> R]
      /\ \A i, j \in 1..(N - 1) : i # j => r[i] # r[j]
      /\ \A i, j \in 1..(N - 1) : i < j => r[i] < r[j]
    BY <1>6, <1>7 DEF Lists, SetToSeqs
<1> DEFINE t == [n \in 1..N |-> IF n = 1 THEN x ELSE r[n - 1]]
<1> HIDE DEF C, N
<1>9. ASSUME NEW n \in 1..N, n # 1
      PROVE  n - 1 \in 1..(N - 1) /\ t[n] = r[n - 1] /\ t[n] \in T /\ t[n] > x
  <2>1. n - 1 \in 1..(N - 1)
      BY <1>7, <1>9
  <2>2. r[n - 1] \in R
      BY <1>8, <2>1
  <2>3. r[n - 1] \in Nat /\ x \in Nat /\ x <= r[n - 1] /\ r[n - 1] # x
      BY <1>2, <1>4, <2>2
  <2> QED
      BY <1>9, <2>1, <2>2, <2>3
<1>10. t \in [1..N -> T]
    BY <1>4, <1>9
<1>11. ASSUME NEW m \in 1..N, NEW n \in 1..N, m < n PROVE t[m] < t[n]
  <2>1. n # 1
      BY <1>7, <1>11
  <2>2. CASE m = 1
    <3>1. t[m] = x /\ x \in Nat /\ t[n] \in Nat
        BY <1>2, <1>9, <2>1, <2>2
    <3>2. t[n] > x
        BY <1>9, <2>1
    <3> QED
        BY <3>1, <3>2
  <2>3. CASE m # 1
    <3>1. m - 1 \in 1..(N - 1) /\ n - 1 \in 1..(N - 1) /\ m - 1 < n - 1
        BY <1>7, <1>9, <1>11, <2>1, <2>3
    <3> QED
        BY <1>8, <1>9, <2>1, <2>3, <3>1
  <2> QED
      BY <2>2, <2>3
<1>12. ASSUME NEW m \in 1..N, NEW n \in 1..N, m # n PROVE t[m] # t[n]
  <2>1. m \in Int /\ n \in Int /\ (m < n \/ n < m)
      BY <1>7, <1>12
  <2>2. t[m] < t[n] \/ t[n] < t[m]
      BY <1>11, <2>1
  <2>3. t[m] \in Nat /\ t[n] \in Nat
      BY <1>2, <1>10
  <2> HIDE DEF t
  <2> QED
      BY <2>2, <2>3
<1>13. Lists(T, t)
  <2> HIDE DEF t
  <2> QED
      BY <1>10, <1>11, <1>12 DEF Lists, SetToSeqs, N
<1> QED
    BY <1>2, <1>13

LEMMA AscendingIs ==
    ASSUME NEW S, S \subseteq Items
    PROVE  /\ Cardinality(S) \in Nat
           /\ Ascending(S) \in [1..Cardinality(S) -> S]
           /\ \A i \in S : \E n \in 1..Cardinality(S) : Ascending(S)[n] = i
           /\ \A m, n \in 1..Cardinality(S) : m < n => Ascending(S)[m] < Ascending(S)[n]
<1>1. IsFiniteSet(S) /\ \A i \in S : i \in Nat
  <2>1. NumItems \in Nat
      BY TransactionAssumption
  <2>2. IsFiniteSet(Items) /\ \A i \in Items : i \in Nat
      BY <2>1, FS_Interval DEF Items
  <2> QED
      BY <2>2, FS_Subset
<1>2. \E s : Lists(S, s)
    BY <1>1, AscendingExists
<1>3. Lists(S, Ascending(S))
    BY <1>2 DEF Ascending, Lists
<1> QED
    BY <1>1, <1>3, SetToSeqsCovers DEF Lists

\* What may be locked.
Lock == [row : {OrderRow(w) : w \in Orders} \union {ItemRow(i) : i \in Items},
         mode : {"UPDATE", "KEY SHARE"}]

LEMMA SameInterval ==
    ASSUME NEW a \in Nat, NEW b \in Nat, 1..a = 1..b
    PROVE  a = b
<1>1. a > 0 => a \in 1..b
    OBVIOUS
<1>2. b > 0 => b \in 1..a
    OBVIOUS
<1> QED
    BY <1>1, <1>2

LEMMA ItemLocksAre ==
    ASSUME NEW S, S \subseteq Items, NEW mode \in {"UPDATE", "KEY SHARE"}
    PROVE  /\ ItemLocks(S, mode) \in Seq(Lock)
           /\ \A i \in S : \E n \in 1..Len(ItemLocks(S, mode)) :
                  ItemLocks(S, mode)[n] = [row |-> ItemRow(i), mode |-> mode]
<1> DEFINE N == Cardinality(S)
           s == Ascending(S)
<1>1. N \in Nat /\ s \in [1..N -> S] /\ \A i \in S : \E n \in 1..N : s[n] = i
    BY AscendingIs
<1>2. ItemLocks(S, mode) = [n \in 1..N |-> [row |-> ItemRow(s[n]), mode |-> mode]]
    BY <1>1 DEF ItemLocks
<1> HIDE DEF N, s
<1> DEFINE f == ItemLocks(S, mode)
<1>3. \A n \in 1..N : f[n] = [row |-> ItemRow(s[n]), mode |-> mode] /\ f[n] \in Lock
  <2> SUFFICES ASSUME NEW n \in 1..N
               PROVE  f[n] = [row |-> ItemRow(s[n]), mode |-> mode] /\ f[n] \in Lock
      OBVIOUS
  <2>1. s[n] \in Items
      BY <1>1
  <2>2. f[n] = [row |-> ItemRow(s[n]), mode |-> mode]
      BY <1>2
  <2>3. ItemRow(s[n]) \in {OrderRow(w) : w \in Orders} \union {ItemRow(i) : i \in Items}
      BY <2>1
  <2>4. [row |-> ItemRow(s[n]), mode |-> mode] \in Lock
      BY <2>3 DEF Lock
  <2> QED
      BY <2>2, <2>4
<1>4. f \in [1..N -> Lock]
    BY <1>2, <1>3
<1> HIDE DEF f
<1>5. f \in Seq(Lock)
    BY <1>1, <1>4, SeqDef
<1>6. Len(f) = N
  <2>1. Len(f) \in Nat /\ 1..Len(f) = 1..N
      BY <1>4, <1>5, LenProperties
  <2> QED
      BY <1>1, <2>1, SameInterval
<1>7. \A i \in S : \E n \in 1..N : f[n] = [row |-> ItemRow(i), mode |-> mode]
    BY <1>1, <1>3
<1> QED
    BY <1>5, <1>6, <1>7 DEF f

\* Two programs one after the other: every lock of either is in the whole.
LEMMA ConcatLocks ==
    ASSUME NEW a \in Seq(Lock), NEW b \in Seq(Lock)
    PROVE  /\ a \o b \in Seq(Lock)
           /\ Len(a \o b) = Len(a) + Len(b) /\ Len(a) \in Nat /\ Len(b) \in Nat
           /\ \A n \in 1..Len(a) : (a \o b)[n] = a[n] /\ n \in 1..Len(a \o b)
           /\ \A n \in 1..Len(b) : (a \o b)[Len(a) + n] = b[n] /\ Len(a) + n \in 1..Len(a \o b)
<1>1. /\ a \o b \in Seq(Lock)
      /\ Len(a \o b) = Len(a) + Len(b) /\ Len(a) \in Nat /\ Len(b) \in Nat
      /\ \A i \in 1..Len(a) + Len(b) : (a \o b)[i] = IF i <= Len(a) THEN a[i] ELSE b[i - Len(a)]
    BY ConcatProperties
<1>2. \A n \in 1..Len(b) : /\ Len(a) + n \in 1..Len(a) + Len(b) /\ ~(Len(a) + n <= Len(a))
                           /\ Len(a) + n - Len(a) = n
    BY <1>1
<1>3. \A n \in 1..Len(a) : n \in 1..Len(a) + Len(b) /\ n <= Len(a)
    BY <1>1
<1> QED
    BY <1>1, <1>2, <1>3

Takes(program, lock) == \E n \in 1..Len(program) : program[n] = lock

LEMMA TakesConcat ==
    ASSUME NEW a \in Seq(Lock), NEW b \in Seq(Lock), NEW lock, Takes(a, lock) \/ Takes(b, lock)
    PROVE  Takes(a \o b, lock)
<1> DEFINE c == a \o b
<1>1. /\ \A n \in 1..Len(a) : c[n] = a[n] /\ n \in 1..Len(c)
      /\ \A n \in 1..Len(b) : c[Len(a) + n] = b[n] /\ Len(a) + n \in 1..Len(c)
    BY ConcatLocks
<1> HIDE DEF c
<1>2. Takes(c, lock)
  <2>1. CASE Takes(a, lock)
      BY <1>1, <2>1 DEF Takes
  <2>2. CASE Takes(b, lock)
      BY <1>1, <2>2 DEF Takes
  <2> QED
      BY <2>1, <2>2
<1> QED
    BY <1>2 DEF c

\* Every program starts with the order row and comes to lock the row of every
\* component, a completion the row of the product too.
LEMMA ProgramIs ==
    ASSUME NEW t \in Txns
    PROVE  /\ Program(t) \in Seq(Lock)
           /\ Len(Program(t)) \in Nat \ {0}
           /\ Program(t)[1] = Update(OrderRow(OrderOf[t]))
           /\ \A i \in Components(OrderOf[t]) : Takes(Program(t), Update(ItemRow(i)))
           /\ Kind[t] = "complete" => Takes(Program(t), Update(ItemRow(ProductOf[OrderOf[t]])))
<1> DEFINE w == OrderOf[t]
           shares == ItemLocks(Components(w), "KEY SHARE")
           updates == ItemLocks(Components(w), "UPDATE")
<1>1. w \in Orders /\ ProductOf[w] \in Items /\ Components(w) \subseteq Items
    BY TransactionAssumption DEF Components
<1>2. shares \in Seq(Lock) /\ updates \in Seq(Lock)
    BY <1>1, ItemLocksAre
<1>3. \A i \in Components(w) : Takes(updates, Update(ItemRow(i)))
    BY <1>1, ItemLocksAre DEF Takes, Update
<1>4. /\ Update(OrderRow(w)) \in Lock /\ KeyShare(ItemRow(ProductOf[w])) \in Lock
      /\ Update(ItemRow(ProductOf[w])) \in Lock
    BY <1>1 DEF Lock, Update, KeyShare
<1> HIDE DEF shares, updates
<1>5. CASE Kind[t] = "release"
  <2> DEFINE head == <<Update(OrderRow(w)), KeyShare(ItemRow(ProductOf[w]))>>
             front == head \o shares
  <2>1. Program(t) = front \o updates
      BY <1>1, <1>5 DEF Program, ReleaseProgram, shares, updates
  <2>2. head \in Seq(Lock) /\ Len(head) = 2 /\ head[1] = Update(OrderRow(w))
      BY <1>4
  <2> HIDE DEF head
  <2>3. front \in Seq(Lock) /\ front[1] = Update(OrderRow(w)) /\ 1 \in 1..Len(front)
    <3>1. 1 \in 1..Len(head)
        BY <2>2
    <3> QED
        BY <1>2, <2>2, <3>1, ConcatLocks
  <2> HIDE DEF front
  <2>4. /\ Program(t) \in Seq(Lock) /\ Program(t)[1] = Update(OrderRow(w))
        /\ Len(Program(t)) \in Nat \ {0}
    <3>1. /\ front \o updates \in Seq(Lock) /\ Len(front \o updates) = Len(front) + Len(updates)
          /\ Len(front) \in Nat /\ Len(updates) \in Nat
          /\ (front \o updates)[1] = front[1]
        BY <1>2, <2>3, ConcatLocks
    <3>2. Len(front) + Len(updates) \in Nat \ {0}
        BY <2>3, <3>1
    <3> QED
        BY <2>1, <2>3, <3>1, <3>2
  <2>5. \A i \in Components(w) : Takes(Program(t), Update(ItemRow(i)))
      BY <1>2, <1>3, <2>1, <2>3, TakesConcat
  <2> QED
      BY <1>5, <2>4, <2>5
<1>6. CASE Kind[t] = "complete"
  <2> DEFINE head == <<Update(OrderRow(w))>>
             last == <<Update(ItemRow(ProductOf[w]))>>
             front == head \o updates
  <2>1. Program(t) = front \o last
      BY <1>1, <1>6 DEF Program, CompleteProgram, updates
  <2>2. /\ head \in Seq(Lock) /\ Len(head) = 1 /\ head[1] = Update(OrderRow(w))
        /\ last \in Seq(Lock) /\ Len(last) = 1 /\ last[1] = Update(ItemRow(ProductOf[w]))
      BY <1>4
  <2> HIDE DEF head, last
  <2>3. front \in Seq(Lock) /\ front[1] = Update(OrderRow(w)) /\ 1 \in 1..Len(front)
    <3>1. 1 \in 1..Len(head)
        BY <2>2
    <3> QED
        BY <1>2, <2>2, <3>1, ConcatLocks, ZenonT(60)
  <2>4. \A i \in Components(w) : Takes(front, Update(ItemRow(i)))
      BY <1>2, <1>3, <2>2, TakesConcat
  <2>5. Takes(last, Update(ItemRow(ProductOf[w])))
    <3>1. 1 \in 1..Len(last)
        BY <2>2
    <3> QED
        BY <2>2, <3>1 DEF Takes
  <2> HIDE DEF front
  <2>6. /\ Program(t) \in Seq(Lock) /\ Program(t)[1] = Update(OrderRow(w))
        /\ Len(Program(t)) \in Nat \ {0}
    <3>1. /\ front \o last \in Seq(Lock) /\ Len(front \o last) = Len(front) + Len(last)
          /\ Len(front) \in Nat /\ Len(last) \in Nat
          /\ (front \o last)[1] = front[1]
        BY <2>2, <2>3, ConcatLocks, ZenonT(60)
    <3>2. Len(front) + Len(last) \in Nat \ {0}
        BY <2>3, <3>1
    <3> QED
        BY <2>1, <2>3, <3>1, <3>2
  <2>7. /\ \A i \in Components(w) : Takes(Program(t), Update(ItemRow(i)))
        /\ Takes(Program(t), Update(ItemRow(ProductOf[w])))
      BY <2>1, <2>2, <2>3, <2>4, <2>5, TakesConcat
  <2> QED
      BY <2>6, <2>7
<1> QED
    BY <1>5, <1>6, TransactionAssumption

-----------------------------------------------------------------------------
(* The invariant *)

PositionAt(t) ==
    /\ position[t] \in 1..(Len(Program(t)) + 2)
    /\ state[t] = "idle" => attempts[t] < MaxAttempts[t]

\* Past its first lock, a request works on an order in the status it needs.
StatusAt(t) == state[t] = "running" /\ position[t] > 1 => StatusAllows(t)

LocksExclude ==
    \A t, u \in Txns : t # u =>
        \A a \in Held(t), b \in Held(u) : ~Conflict(a, b)

\* An order is promised all it needs while it is released, and nothing else.
ReservedAt(w) == reserved[w] = IF orderStatus[w] = "RELEASED" THEN Need[w] ELSE NothingSeen

IInv ==
    /\ TypeOK
    /\ \A t \in Txns : PositionAt(t) /\ StatusAt(t)
    /\ LocksExclude
    /\ \A w \in Orders : ReservedAt(w)
    /\ NeverOverReserved
    /\ ReadsStayTrue

LEMMA ReservedIs ==
    ASSUME TypeOK, NEW i \in Items
    PROVE  /\ Reserved(i) \in Nat
           /\ \A w \in Orders : reserved[w][i] <= Reserved(i)
           /\ Available(i) = onHand[i] - Reserved(i) /\ Available(i) \in Int /\ onHand[i] \in Nat
<1> DEFINE f == [w \in Orders |-> reserved[w][i]]
<1>1. \A w \in Orders : f[w] = reserved[w][i] /\ f[w] \in Nat
    BY DEF TypeOK
<1>2. Reserved(i) = SumFunctionOnSet(f, Orders) /\ IsFiniteSet(Orders)
    BY TransactionAssumption DEF Reserved
<1> HIDE DEF f
<1>3. Reserved(i) \in Nat /\ \A w \in Orders : f[w] <= Reserved(i)
    BY <1>1, <1>2, SumNat
<1>4. onHand[i] \in Nat
    BY DEF TypeOK
<1> QED
    BY <1>1, <1>3, <1>4 DEF Available

\* One order's reservations change.
LEMMA ReservedChanges ==
    ASSUME TypeOK, NEW w \in Orders, NEW r \in [Items -> Nat], NEW i \in Items,
           reserved' = [reserved EXCEPT ![w] = r]
    PROVE  Reserved(i)' = Reserved(i) - reserved[w][i] + r[i]
<1> DEFINE f == [v \in Orders |-> reserved[v][i]]
           g == [v \in Orders |-> reserved'[v][i]]
<1>1. \A v \in Orders : f[v] \in Int /\ g[v] \in Int /\ (v # w => g[v] = f[v])
    BY DEF TypeOK
<1>2. f[w] = reserved[w][i] /\ g[w] = r[i]
    BY DEF TypeOK
<1>3. /\ IsFiniteSet(Orders)
      /\ Reserved(i) = SumFunctionOnSet(f, Orders)
      /\ Reserved(i)' = SumFunctionOnSet(g, Orders)
    BY TransactionAssumption DEF Reserved
<1> HIDE DEF f, g
<1>4. SumFunctionOnSet(g, Orders) = SumFunctionOnSet(f, Orders) - f[w] + g[w]
    BY <1>1, <1>3, SumChange
<1> QED
    BY <1>2, <1>3, <1>4

LEMMA FirstState == Init => IInv
<1> SUFFICES ASSUME Init PROVE IInv
    OBVIOUS
<1>1. ASSUME NEW w \in Orders
      PROVE  reserved[w] = (IF w \in AlreadyReleased THEN Need[w] ELSE NothingSeen) /\ ReservedAt(w)
    BY <1>1 DEF Init, ReservedAt, StatusWhen
<1>2. TypeOK
  <2>1. NothingSeen \in [Items -> Nat] /\ NothingSeen \in [Items -> Int]
      BY DEF NothingSeen
  <2>2. reserved \in [Orders -> [Items -> Nat]]
      BY <2>1, TransactionAssumption DEF Init
  <2>3. attempts \in [Txns -> Nat] /\ \A t \in Txns : attempts[t] <= MaxAttempts[t]
      BY TransactionAssumption DEF Init
  <2> QED
      BY <2>1, <2>2, <2>3, TransactionAssumption DEF Init, TypeOK, RequestState, StatusWhen
<1>3. ASSUME NEW t \in Txns PROVE PositionAt(t) /\ StatusAt(t) /\ Held(t) = {}
  <2>1. Len(Program(t)) \in Nat \ {0}
      BY ProgramIs
  <2> QED
      BY <2>1, TransactionAssumption DEF Init, PositionAt, StatusAt, Held
<1>4. LocksExclude
    BY <1>3 DEF LocksExclude
<1>5. ASSUME NEW i \in Items PROVE Available(i) >= 0
  <2> DEFINE f == [w \in Orders |-> reserved[w][i]]
             g == [w \in Orders |-> Need[w][i]]
             R == AlreadyReleased
  <2>1. /\ R \subseteq Orders /\ IsFiniteSet(Orders) /\ IsFiniteSet(R) /\ IsFiniteSet(Orders \ R)
        /\ SumFunctionOnSet(g, R) <= InitialStock[i] /\ InitialStock[i] \in Nat
    <3>1. R \subseteq Orders /\ IsFiniteSet(Orders)
        BY TransactionAssumption
    <3> QED
        BY <3>1, TransactionAssumption, FS_Subset, FS_Difference
  <2>2. /\ \A w \in Orders : f[w] \in Int /\ g[w] \in Int
        /\ \A w \in R : f[w] = g[w]
        /\ \A w \in Orders \ R : f[w] = 0
    <3>1. \A w \in Orders : reserved[w][i] \in Nat /\ Need[w][i] \in Nat
        BY <1>2, TransactionAssumption DEF TypeOK
    <3> QED
        BY <1>1, <2>1, <3>1 DEF NothingSeen
  <2>3. Reserved(i) = SumFunctionOnSet(f, Orders) /\ onHand[i] = InitialStock[i]
      BY DEF Reserved, Init
  <2> HIDE DEF f, g, R
  <2>4. SumFunctionOnSet(f, Orders) = SumFunctionOnSet(f, R) + SumFunctionOnSet(f, Orders \ R)
      BY <2>1, <2>2, SumSplit
  <2>5. SumFunctionOnSet(f, R) = SumFunctionOnSet(g, R) /\ SumFunctionOnSet(g, R) \in Int
    <3>1. \A w \in R : g[w] \in Int /\ f[w] = g[w]
        BY <2>1, <2>2
    <3> QED
        BY <2>1, <3>1, SumSame, SumType
  <2>6. SumFunctionOnSet(f, Orders \ R) = 0
      BY <2>1, <2>2, SumZero
  <2> QED
      BY <2>1, <2>3, <2>4, <2>5, <2>6 DEF Available
<1>6. ReadsStayTrue
    BY DEF ReadsStayTrue, Init
<1> QED
    BY <1>1, <1>2, <1>3, <1>4, <1>5 , <1>6 DEF IInv, NeverOverReserved

-----------------------------------------------------------------------------
(* Locks *)

\* A lock that is free conflicts with nothing, and giving locks up is harmless.
LEMMA LocksStep ==
    ASSUME IInv, NEW t \in Txns, NEW new,
           Held(t)' \subseteq Held(t) \union new,
           \A u \in Txns \ {t} : Held(u)' \subseteq Held(u),
           \A u \in Txns \ {t} : \A a \in new, b \in Held(u) : ~Conflict(a, b)
    PROVE  LocksExclude'
<1>1. \A a, b : Conflict(a, b) <=> Conflict(b, a)
    BY DEF Conflict
<1>2. LocksExclude' <=> \A v, u \in Txns : v # u =>
                          \A a \in Held(v)', b \in Held(u)' : ~Conflict(a, b)
    BY DEF LocksExclude, Conflict
<1>3. \A v, u \in Txns : v # u => \A a \in Held(v), b \in Held(u) : ~Conflict(a, b)
    BY DEF IInv, LocksExclude
<1> QED
    BY <1>1, <1>2, <1>3

\* A request that is not blocked may have the next lock of its program.
LEMMA FreeLock ==
    ASSUME NEW t \in Txns, Acquiring(t), ~Blocked(t)
    PROVE  \A u \in Txns \ {t} : \A b \in Held(u) : ~Conflict(Program(t)[position[t]], b)
BY DEF Blocked, WaitsFor

\* What a request that moves on holds: one lock more.
LEMMA HeldNext ==
    ASSUME TypeOK, NEW t \in Txns, PositionAt(t), state[t] = "running",
           state' = state, position' = [position EXCEPT ![t] = @ + 1]
    PROVE  /\ Held(t)' \subseteq Held(t) \union
                 (IF Acquiring(t) THEN {Program(t)[position[t]]} ELSE {})
           /\ \A u \in Txns \ {t} : Held(u)' = Held(u)
<1>1. DOMAIN Program(t) = 1..Len(Program(t)) /\ Len(Program(t)) \in Nat
    BY ProgramIs, LenProperties
<1>2. position'[t] = position[t] + 1 /\ position[t] \in Nat
    BY DEF TypeOK
<1>3. \A u \in Txns : Program(u)' = Program(u)
    BY DEF Program, ReleaseProgram, CompleteProgram, ItemLocks, Ascending, Components
<1>4. Held(t)' = {Program(t)[n] : n \in {k \in DOMAIN Program(t) : k < position[t] + 1}}
    BY <1>2, <1>3 DEF Held
<1>5. Held(t) = {Program(t)[n] : n \in {k \in DOMAIN Program(t) : k < position[t]}}
    BY DEF Held
<1>6. \A k \in DOMAIN Program(t) : k < position[t] + 1 =>
          k < position[t] \/ (k = position[t] /\ Acquiring(t))
    BY <1>1, <1>2 DEF Acquiring
<1>7. \A u \in Txns \ {t} : Held(u)' = Held(u)
    BY <1>3 DEF Held, TypeOK
<1> QED
    BY <1>4, <1>5, <1>6, <1>7

\* What a request holds once it has all its locks.
LEMMA HoldsAll ==
    ASSUME TypeOK, NEW t \in Txns, state[t] = "running", position[t] > Len(Program(t)),
           NEW lock, Takes(Program(t), lock)
    PROVE  lock \in Held(t)
<1>1. DOMAIN Program(t) = 1..Len(Program(t)) /\ Len(Program(t)) \in Nat /\ position[t] \in Nat
    BY ProgramIs, LenProperties DEF TypeOK
<1>2. PICK n \in 1..Len(Program(t)) : Program(t)[n] = lock
    BY DEF Takes
<1>3. n \in DOMAIN Program(t) /\ n < position[t]
    BY <1>1
<1> QED
    BY <1>2, <1>3 DEF Held

\* Two requests past their first lock work on different orders.
LEMMA OrdersDiffer ==
    ASSUME IInv, NEW t \in Txns, NEW u \in Txns, t # u,
           state[t] = "running", position[t] > 1, state[u] = "running", position[u] > 1
    PROVE  OrderOf[t] # OrderOf[u]
<1>1. ASSUME NEW v \in Txns, state[v] = "running", position[v] > 1
      PROVE  Update(OrderRow(OrderOf[v])) \in Held(v)
  <2>1. 1 \in DOMAIN Program(v) /\ Program(v)[1] = Update(OrderRow(OrderOf[v]))
      BY ProgramIs, LenProperties
  <2> QED
      BY <1>1, <2>1 DEF Held
<1>2. \A a \in Held(t), b \in Held(u) : ~Conflict(a, b)
    BY DEF IInv, LocksExclude
<1>3. OrderOf[t] = OrderOf[u] =>
          Conflict(Update(OrderRow(OrderOf[t])), Update(OrderRow(OrderOf[u])))
    BY DEF Conflict, Update
<1> QED
    BY <1>1, <1>2, <1>3

\* The components one request has locked are not touched by another's commit.
LEMMA RowsDiffer ==
    ASSUME IInv, NEW t \in Txns, NEW u \in Txns, t # u,
           state[t] = "running", position[t] > Len(Program(t)),
           state[u] = "running", position[u] > Len(Program(u)),
           NEW i \in Components(OrderOf[t])
    PROVE  /\ i \notin Components(OrderOf[u])
           /\ Kind[u] = "complete" => i # ProductOf[OrderOf[u]]
<1>1. Update(ItemRow(i)) \in Held(t)
    BY ProgramIs, HoldsAll DEF IInv
<1>2. \A b \in Held(u) : ~Conflict(Update(ItemRow(i)), b)
    BY <1>1 DEF IInv, LocksExclude
<1>3. Conflict(Update(ItemRow(i)), Update(ItemRow(i)))
    BY DEF Conflict, Update
<1>4. Update(ItemRow(i)) \notin Held(u)
    BY <1>2, <1>3
<1> QED
    BY <1>4, ProgramIs, HoldsAll DEF IInv

-----------------------------------------------------------------------------
(* Steps that write nothing *)

LEMMA ProgramFixed == \A t \in Txns : Program(t)' = Program(t)
BY DEF Program, ReleaseProgram, CompleteProgram, ItemLocks, Ascending, Components

\* Only request t moves, nothing is committed, and what t has read is true.
LEMMA MoveKeeps ==
    ASSUME IInv, NEW t \in Txns, UNCHANGED <<onHand, reserved, orderStatus>>,
           TypeOK', LocksExclude', PositionAt(t)', StatusAt(t)',
           \A u \in Txns \ {t} : /\ state'[u] = state[u] /\ position'[u] = position[u]
                                 /\ attempts'[u] = attempts[u] /\ seen'[u] = seen[u],
           Kind[t] = "release" /\ state'[t] = "running" /\ position'[t] = Len(Program(t)) + 2
               => \A i \in Components(OrderOf[t]) : seen'[t][i] = Available(i)
    PROVE  IInv'
<1>1. \A i : Available(i)' = Available(i)
    BY DEF Available, Reserved
<1>2. \A w \in Orders : ReservedAt(w)'
    BY DEF IInv, ReservedAt, NothingSeen
<1>3. NeverOverReserved'
    BY <1>1 DEF IInv, NeverOverReserved
<1>4. \A u \in Txns : PositionAt(u)' /\ StatusAt(u)'
  <2> SUFFICES ASSUME NEW u \in Txns \ {t} PROVE PositionAt(u)' /\ StatusAt(u)'
      OBVIOUS
  <2>1. PositionAt(u) /\ StatusAt(u)
      BY DEF IInv
  <2> QED
      BY <2>1, ProgramFixed DEF PositionAt, StatusAt, StatusAllows
<1>5. ReadsStayTrue'
  <2> SUFFICES ASSUME NEW u \in Txns, Kind[u] = "release", state'[u] = "running",
                      position'[u] = Len(Program(u)) + 2, NEW i \in Components(OrderOf[u])
               PROVE  seen'[u][i] = Available(i)
      BY <1>1, ProgramFixed DEF ReadsStayTrue, Components
  <2>1. CASE u = t
      BY <2>1
  <2>2. CASE u # t
    <3>1. state[u] = "running" /\ position[u] = Len(Program(u)) + 2 /\ seen'[u] = seen[u]
        BY <2>2
    <3> QED
        BY <3>1 DEF IInv, ReadsStayTrue
  <2> QED
      BY <2>1, <2>2
<1> QED
    BY <1>2, <1>3, <1>4, <1>5 DEF IInv

\* A request that stops running, or starts, holds nothing.
LEMMA DropKeeps ==
    ASSUME IInv, NEW t \in Txns, NEW s \in RequestState,
           state' = [state EXCEPT ![t] = s],
           UNCHANGED <<position, attempts, onHand, reserved, orderStatus, seen>>,
           s # "running", s = "idle" => attempts[t] < MaxAttempts[t]
    PROVE  IInv'
<1>1. TypeOK'
    BY DEF IInv, TypeOK
<1>2. state'[t] = s /\ \A u \in Txns \ {t} : state'[u] = state[u]
    BY DEF IInv, TypeOK
<1>3. LocksExclude'
  <2>1. Held(t)' = {}
      BY <1>2 DEF Held
  <2>2. \A u \in Txns \ {t} : Held(u)' = Held(u)
      BY <1>2, ProgramFixed DEF Held
  <2> QED
      BY <2>1, <2>2, LocksStep
<1>4. PositionAt(t)' /\ StatusAt(t)'
    BY <1>2, ProgramFixed DEF PositionAt, StatusAt, IInv
<1> QED
    BY <1>1, <1>2, <1>3, <1>4, MoveKeeps

LEMMA BeginKeeps ==
    ASSUME IInv, NEW t \in Txns, Begin(t)
    PROVE  IInv'
<1>1. attempts[t] < MaxAttempts[t] /\ attempts[t] \in Nat /\ MaxAttempts[t] \in Nat
    BY TransactionAssumption DEF IInv, PositionAt, Begin, TypeOK
<1>2. /\ state'[t] = "running" /\ position'[t] = 1
      /\ \A u \in Txns \ {t} : /\ state'[u] = state[u] /\ position'[u] = position[u]
                               /\ attempts'[u] = attempts[u] /\ seen'[u] = seen[u]
    BY DEF Begin, IInv, TypeOK
<1>3. TypeOK'
  <2>1. attempts' \in [Txns -> Nat] /\ attempts'[t] = attempts[t] + 1
      BY DEF Begin, IInv, TypeOK
  <2>2. \A u \in Txns : attempts'[u] <= MaxAttempts[u]
    <3>1. attempts'[t] <= MaxAttempts[t]
        BY <1>1, <2>1
    <3> QED
        BY <1>2, <3>1 DEF IInv, TypeOK
  <2>3. /\ state' \in [Txns -> RequestState] /\ position' \in [Txns -> Nat]
        /\ UNCHANGED <<onHand, reserved, orderStatus, seen>>
      BY DEF Begin, IInv, TypeOK, RequestState
  <2> QED
      BY <2>1, <2>2, <2>3 DEF IInv, TypeOK
<1>4. LocksExclude'
  <2>1. Held(t)' = {}
    <3>1. \A k \in DOMAIN Program(t) : ~(k < 1)
        BY ProgramIs, LenProperties
    <3>2. Held(t)' = {Program(t)[n] : n \in {k \in DOMAIN Program(t) : k < 1}}
        BY <1>2, ProgramFixed DEF Held
    <3> QED
        BY <3>1, <3>2
  <2>2. \A u \in Txns \ {t} : Held(u)' = Held(u)
      BY <1>2, ProgramFixed DEF Held
  <2> QED
      BY <2>1, <2>2, LocksStep
<1>5. PositionAt(t)' /\ StatusAt(t)' /\ position'[t] # Len(Program(t)) + 2
  <2>1. Len(Program(t)) \in Nat
      BY ProgramIs
  <2> QED
      BY <1>2, <2>1, ProgramFixed DEF PositionAt, StatusAt
<1> QED
    BY <1>2, <1>3, <1>4, <1>5, MoveKeeps DEF Begin

\* A request that goes on: it takes a lock that is free, or reads.
LEMMA AdvanceKeeps ==
    ASSUME IInv, NEW t \in Txns, state[t] = "running", state' = state,
           position' = [position EXCEPT ![t] = @ + 1],
           UNCHANGED <<attempts, onHand, reserved, orderStatus>>,
           Acquiring(t) => ~Blocked(t),
           position[t] < Len(Program(t)) + 2, StatusAllows(t),
           seen' \in [Txns -> [Items -> Int]],
           \A u \in Txns \ {t} : seen'[u] = seen[u],
           Kind[t] = "release" /\ position[t] = Len(Program(t)) + 1
               => \A i \in Components(OrderOf[t]) : seen'[t][i] = Available(i)
    PROVE  IInv'
<1>1. /\ position'[t] = position[t] + 1 /\ position[t] \in Nat
      /\ \A u \in Txns \ {t} : position'[u] = position[u]
    BY DEF IInv, TypeOK
<1>2. TypeOK'
  <2>1. position' \in [Txns -> Nat] /\ state' \in [Txns -> RequestState]
      BY DEF IInv, TypeOK
  <2> QED
      BY <2>1 DEF IInv, TypeOK
<1>3. LocksExclude'
  <2> DEFINE new == IF Acquiring(t) THEN {Program(t)[position[t]]} ELSE {}
  <2>1. Held(t)' \subseteq Held(t) \union new /\ \A u \in Txns \ {t} : Held(u)' = Held(u)
      BY HeldNext DEF IInv
  <2>2. \A u \in Txns \ {t} : \A a \in new, b \in Held(u) : ~Conflict(a, b)
      BY FreeLock
  <2>3. \A u \in Txns \ {t} : Held(u)' \subseteq Held(u)
      BY <2>1
  <2>4. LocksExclude
      BY DEF IInv
  <2> HIDE DEF new
  <2> QED
      BY <2>1, <2>2, <2>3, <2>4, LocksStep
<1>4. Len(Program(t)) \in Nat /\ position[t] \in 1..(Len(Program(t)) + 2)
    BY ProgramIs DEF IInv, PositionAt
<1>5. PositionAt(t)'
    BY <1>1, <1>4, ProgramFixed DEF PositionAt, IInv
<1>6. StatusAt(t)'
    BY DEF StatusAt, StatusAllows
<1>7. position'[t] = Len(Program(t)) + 2 => position[t] = Len(Program(t)) + 1
    BY <1>1, <1>4
<1> QED
    BY <1>1, <1>2, <1>3, <1>5, <1>6, <1>7, MoveKeeps

LEMMA LockKeeps ==
    ASSUME IInv, NEW t \in Txns, LockOrder(t) \/ LockNext(t)
    PROVE  IInv'
<1>1. /\ state[t] = "running" /\ position[t] <= Len(Program(t)) /\ ~Blocked(t)
      /\ position[t] \in Nat /\ Len(Program(t)) \in Nat
    BY ProgramIs DEF LockOrder, LockNext, Acquiring, IInv, TypeOK
<1>2. /\ position[t] < Len(Program(t)) + 2
      /\ position[t] # Len(Program(t)) + 1
    BY <1>1
<1>3. CASE LockOrder(t) /\ StatusAllows(t)
  <2>1. position' = [position EXCEPT ![t] = @ + 1]
      BY <1>3 DEF LockOrder
  <2> QED
      BY <1>1, <1>2, <1>3, <2>1, AdvanceKeeps DEF LockOrder, IInv, TypeOK
<1>4. CASE LockOrder(t) /\ ~StatusAllows(t)
    BY <1>4, DropKeeps DEF LockOrder, RequestState
<1>5. CASE LockNext(t)
  <2>1. StatusAllows(t)
      BY <1>1, <1>5 DEF LockNext, IInv, StatusAt
  <2> QED
      BY <1>1, <1>2, <1>5, <2>1, AdvanceKeeps DEF LockNext, IInv, TypeOK
<1> QED
    BY <1>3, <1>4, <1>5

LEMMA ReadKeeps ==
    ASSUME IInv, NEW t \in Txns, ReadBalances(t)
    PROVE  IInv'
<1>1. /\ state[t] = "running" /\ position[t] = Len(Program(t)) + 1
      /\ Len(Program(t)) \in Nat \ {0}
    BY ProgramIs DEF ReadBalances
<1>2. StatusAllows(t) /\ ~Acquiring(t) /\ position[t] < Len(Program(t)) + 2
    BY <1>1 DEF IInv, StatusAt, Acquiring
<1>3. seen' \in [Txns -> [Items -> Int]] /\ \A u \in Txns \ {t} : seen'[u] = seen[u]
  <2>1. onHand \in [Items -> Int] /\ [i \in Items |-> Available(i)] \in [Items -> Int]
      BY ReservedIs DEF IInv, TypeOK
  <2> QED
      BY <2>1 DEF ReadBalances, IInv, TypeOK
<1>4. Kind[t] = "release" => \A i \in Components(OrderOf[t]) : seen'[t][i] = Available(i)
    BY DEF ReadBalances, Components, IInv, TypeOK
<1> QED
    BY <1>1, <1>2, <1>3, <1>4, AdvanceKeeps DEF ReadBalances

-----------------------------------------------------------------------------
(* The commit *)

LEMMA OrderFacts ==
    ASSUME NEW w \in Orders
    PROVE  /\ Need[w] \in [Items -> Nat] /\ NothingSeen \in [Items -> Nat]
           /\ Yield[w] \in Nat /\ ProductOf[w] \in Items
           /\ \A i \in Items : Need[w][i] \in Nat /\ (i \notin Components(w) => Need[w][i] = 0)
BY TransactionAssumption DEF NothingSeen, Components

\* A commit takes no more than is available, and changes only its own rows.
LEMMA CommitEffect ==
    ASSUME IInv, NEW u \in Txns, Commit(u), NEW i \in Items
    PROVE  /\ Available(i)' >= 0 /\ onHand'[i] \in Nat
           /\ i \notin Components(OrderOf[u]) /\ (Kind[u] = "complete" => i # ProductOf[OrderOf[u]])
                => Available(i)' = Available(i)
<1> DEFINE w == OrderOf[u]
<1>1. w \in Orders /\ state[u] = "running" /\ position[u] = Len(Program(u)) + 2 /\ position[u] > 1
    BY TransactionAssumption, ProgramIs DEF Commit
<1>2. StatusAllows(u) /\ ReservedAt(w)
    BY <1>1 DEF IInv, StatusAt
<1>3. /\ Reserved(i) \in Nat /\ onHand[i] \in Nat /\ reserved[w][i] <= Reserved(i)
      /\ Available(i) = onHand[i] - Reserved(i) /\ Available(i) >= 0
    BY <1>1, ReservedIs DEF IInv, NeverOverReserved
<1>4. Need[w][i] \in Nat /\ Yield[w] \in Nat /\ (i \notin Components(w) => Need[w][i] = 0)
    BY <1>1, OrderFacts
<1>5. Available(i)' = onHand'[i] - Reserved(i)'
    BY DEF Available
<1> HIDE DEF w
<1>6. CASE CommitRelease(u)
  <2>1. /\ reserved' = [reserved EXCEPT ![w] = Need[w]] /\ onHand' = onHand
        /\ reserved[w][i] = 0 /\ Kind[u] = "release"
      BY <1>2, <1>6 DEF CommitRelease, StatusAllows, ReservedAt, NothingSeen, w
  <2>2. Reserved(i)' = Reserved(i) - reserved[w][i] + Need[w][i]
      BY <1>1, <2>1, OrderFacts, ReservedChanges DEF IInv
  <2>3. i \in Components(w) => Available(i) >= Need[w][i]
      BY <1>1, <2>1 DEF Commit, Covered, IInv, ReadsStayTrue, w
  <2> QED
      BY <1>3, <1>4, <1>5, <2>1, <2>2, <2>3 DEF w
<1>7. CASE CommitCompletion(u)
  <2>1. /\ reserved' = [reserved EXCEPT ![w] = NothingSeen]
        /\ onHand'[i] = onHand[i] - Need[w][i] + (IF i = ProductOf[w] THEN Yield[w] ELSE 0)
        /\ reserved[w][i] = Need[w][i] /\ Kind[u] = "complete" /\ NothingSeen[i] = 0
      BY <1>2, <1>7 DEF CommitCompletion, StatusAllows, ReservedAt, NothingSeen, w
  <2>2. Reserved(i)' = Reserved(i) - reserved[w][i] + NothingSeen[i]
      BY <1>1, <2>1, OrderFacts, ReservedChanges DEF IInv
  <2> QED
      BY <1>3, <1>4, <1>5, <2>1, <2>2 DEF w
<1> QED
    BY <1>6, <1>7 DEF Commit

LEMMA CommitKeeps ==
    ASSUME IInv, NEW u \in Txns, Commit(u)
    PROVE  IInv'
<1> DEFINE w == OrderOf[u]
<1>1. /\ w \in Orders /\ state[u] = "running" /\ position[u] = Len(Program(u)) + 2
      /\ position[u] > 1 /\ position[u] > Len(Program(u))
      /\ Need[w] \in [Items -> Nat] /\ NothingSeen \in [Items -> Nat]
  <2>1. Len(Program(u)) \in Nat \ {0} /\ OrderOf[u] \in Orders
      BY TransactionAssumption, ProgramIs
  <2>2. state[u] = "running" /\ position[u] = Len(Program(u)) + 2
      BY DEF Commit
  <2> QED
      BY <2>1, <2>2, OrderFacts
<1>2. /\ state'[u] = "committed" /\ position' = position /\ attempts' = attempts /\ seen' = seen
      /\ \A t \in Txns \ {u} : state'[t] = state[t]
      /\ state' \in [Txns -> RequestState]
    BY DEF Commit, IInv, TypeOK, RequestState
<1>3. /\ \A v \in Orders \ {w} : reserved'[v] = reserved[v] /\ orderStatus'[v] = orderStatus[v]
      /\ ReservedAt(w)'
      /\ reserved' \in [Orders -> [Items -> Nat]]
      /\ orderStatus' \in [Orders -> {"PLANNED", "RELEASED", "COMPLETED"}]
  <2>1. CASE CommitRelease(u)
      BY <1>1, <2>1 DEF CommitRelease, ReservedAt, IInv, TypeOK
  <2>2. CASE CommitCompletion(u)
      BY <1>1, <2>2 DEF CommitCompletion, ReservedAt, IInv, TypeOK, NothingSeen
  <2> QED
      BY <2>1, <2>2 DEF Commit
<1>4. NeverOverReserved'
    BY CommitEffect DEF NeverOverReserved
<1>5. onHand' \in [Items -> Nat]
  <2>1. \A i \in Items : onHand'[i] \in Nat
      BY CommitEffect
  <2>2. onHand' = [i \in Items |-> onHand'[i]]
      BY DEF Commit, CommitRelease, CommitCompletion, IInv, TypeOK
  <2> QED
      BY <2>1, <2>2
<1>6. TypeOK'
    BY <1>2, <1>3, <1>5 DEF IInv, TypeOK
<1>7. LocksExclude'
  <2>1. Held(u)' = {}
      BY <1>2 DEF Held
  <2>2. \A t \in Txns \ {u} : Held(t)' = Held(t)
      BY <1>2, ProgramFixed DEF Held
  <2> QED
      BY <2>1, <2>2, LocksStep
<1>8. \A t \in Txns : PositionAt(t)' /\ StatusAt(t)'
  <2> SUFFICES ASSUME NEW t \in Txns PROVE PositionAt(t)' /\ StatusAt(t)'
      OBVIOUS
  <2>1. PositionAt(t)'
      BY <1>2, ProgramFixed DEF PositionAt, IInv
  <2>2. CASE t = u
      BY <1>2, <2>1, <2>2 DEF StatusAt
  <2>3. CASE t # u
    <3> SUFFICES ASSUME state'[t] = "running", position'[t] > 1 PROVE StatusAllows(t)'
        BY <2>1 DEF StatusAt
    <3>1. state[t] = "running" /\ position[t] > 1
        BY <1>2, <2>3
    <3>2. StatusAllows(t) /\ OrderOf[t] # w /\ OrderOf[t] \in Orders
        BY <1>1, <2>3, <3>1, OrdersDiffer, TransactionAssumption DEF IInv, StatusAt
    <3> QED
        BY <1>3, <3>2 DEF StatusAllows
  <2> QED
      BY <2>2, <2>3
<1>9. ReadsStayTrue'
  <2> SUFFICES ASSUME NEW t \in Txns, Kind[t] = "release", state'[t] = "running",
                      position'[t] = Len(Program(t)) + 2, NEW i \in Components(OrderOf[t])
               PROVE  seen'[t][i] = Available(i)'
      BY ProgramFixed DEF ReadsStayTrue, Components
  <2>1. /\ t # u /\ state[t] = "running" /\ position[t] = Len(Program(t)) + 2
        /\ position[t] > Len(Program(t)) /\ i \in Items
    <3>1. Len(Program(t)) \in Nat
        BY ProgramIs
    <3> QED
        BY <1>2, <3>1 DEF Components
  <2>2. i \notin Components(w) /\ (Kind[u] = "complete" => i # ProductOf[w])
      BY <1>1, <2>1, RowsDiffer
  <2>3. Available(i)' = Available(i)
      BY <2>1, <2>2, CommitEffect
  <2> QED
      BY <1>2, <2>1, <2>3 DEF IInv, ReadsStayTrue
<1>10. \A v \in Orders : ReservedAt(v)'
    BY <1>3 DEF IInv, ReservedAt, NothingSeen
<1> QED
    BY <1>4, <1>6, <1>7, <1>8, <1>9, <1>10 DEF IInv

LEMMA Step == IInv /\ [Next]_vars => IInv'
<1> SUFFICES ASSUME IInv, [Next]_vars PROVE IInv'
    OBVIOUS
<1>1. ASSUME NEW t \in Txns, Begin(t) \/ Proceed(t) PROVE IInv'
  <2>1. ASSUME Refuse(t) PROVE IInv'
      BY <2>1, DropKeeps DEF Refuse, RequestState
  <2> QED
      BY <1>1, <2>1, BeginKeeps, LockKeeps, ReadKeeps, CommitKeeps DEF Proceed
<1>2. ASSUME NEW t \in Txns, AbortDeadlocked(t) PROVE IInv'
    BY <1>2, DropKeeps DEF AbortDeadlocked, RequestState
<1>3. ASSUME NEW t \in Txns, CallAgain(t) PROVE IInv'
    BY <1>3, DropKeeps DEF CallAgain, RequestState
<1>4. CASE UNCHANGED vars
  <2>1. /\ \A t \in Txns : (PositionAt(t)' <=> PositionAt(t)) /\ (StatusAt(t)' <=> StatusAt(t))
        /\ \A t \in Txns : Held(t)' = Held(t)
      BY <1>4, ProgramFixed DEF vars, PositionAt, StatusAt, StatusAllows, Held
  <2>2. \A i : Available(i)' = Available(i)
      BY <1>4 DEF vars, Available, Reserved
  <2>3. LocksExclude' /\ NeverOverReserved'
      BY <2>1, <2>2 DEF IInv, LocksExclude, NeverOverReserved, Conflict
  <2>4. ReadsStayTrue'
      BY <1>4, <2>2, ProgramFixed DEF vars, IInv, ReadsStayTrue, Components
  <2>5. TypeOK' /\ \A w \in Orders : ReservedAt(w)'
      BY <1>4 DEF vars, IInv, TypeOK, ReservedAt, NothingSeen
  <2> QED
      BY <2>1, <2>3, <2>4, <2>5 DEF IInv
<1> QED
    BY <1>1, <1>2, <1>3, <1>4 DEF Next

-----------------------------------------------------------------------------
(* No deadlock among ordered completions.  The rows a completion locks rise: *)
(* its order's row, its components by their numbers, its product above all.  *)
(* Of those that wait, take the one that waits for the highest row.  Who     *)
(* holds that row waits for a higher one still.                              *)

IsConcat(c, a, b) ==
    /\ c \in Seq(Lock) /\ Len(c) = Len(a) + Len(b)
    /\ \A n \in 1..Len(a) : c[n] = a[n]
    /\ \A n \in 1..Len(b) : c[Len(a) + n] = b[n]

LEMMA ConcatIs ==
    ASSUME NEW a \in Seq(Lock), NEW b \in Seq(Lock)
    PROVE  IsConcat(a \o b, a, b)
<1>1. /\ a \o b \in Seq(Lock) /\ Len(a \o b) = Len(a) + Len(b)
      /\ \A n \in 1..Len(a) : (a \o b)[n] = a[n] /\ n \in 1..Len(a \o b)
      /\ \A n \in 1..Len(b) : (a \o b)[Len(a) + n] = b[n] /\ Len(a) + n \in 1..Len(a \o b)
    BY ConcatLocks
<1> QED
    BY <1>1 DEF IsConcat

LEMMA CompletionIs ==
    ASSUME NEW t \in Txns, Kind[t] = "complete",
           NEW N, N = Cardinality(Components(OrderOf[t])),
           NEW s, s = Ascending(Components(OrderOf[t]))
    PROVE  /\ N \in Nat /\ s \in [1..N -> Components(OrderOf[t])]
           /\ \A m, n \in 1..N : m < n => s[m] < s[n]
           /\ Len(Program(t)) = N + 2
           /\ Program(t)[1].row = OrderRow(OrderOf[t])
           /\ \A n \in 1..N : Program(t)[n + 1].row = ItemRow(s[n])
           /\ Program(t)[N + 2].row = ItemRow(ProductOf[OrderOf[t]])
<1> DEFINE w == OrderOf[t]
           updates == ItemLocks(Components(w), "UPDATE")
           head == <<Update(OrderRow(w))>>
           last == <<Update(ItemRow(ProductOf[w]))>>
<1>1. w \in Orders /\ ProductOf[w] \in Items /\ Components(w) \subseteq Items
    BY TransactionAssumption DEF Components
<1>2. /\ N \in Nat /\ s \in [1..N -> Components(w)]
      /\ \A m, n \in 1..N : m < n => s[m] < s[n]
    BY <1>1, AscendingIs
<1>3. /\ updates \in Seq(Lock) /\ updates = [n \in 1..N |-> [row |-> ItemRow(s[n]), mode |-> "UPDATE"]]
  <2>1. DOMAIN s = 1..N
      BY <1>2
  <2> QED
      BY <1>1, <2>1, ItemLocksAre DEF ItemLocks
<1>4. Len(updates) = N /\ \A n \in 1..N : updates[n].row = ItemRow(s[n])
  <2>1. Len(updates) \in Nat /\ DOMAIN updates = 1..Len(updates)
      BY <1>3, LenProperties
  <2> HIDE DEF updates
  <2>2. DOMAIN updates = 1..N /\ \A n \in 1..N : updates[n].row = ItemRow(s[n])
      BY <1>3
  <2> QED
      BY <1>2, <2>1, <2>2, SameInterval
<1>5. /\ head \in Seq(Lock) /\ Len(head) = 1 /\ head[1].row = OrderRow(w)
      /\ last \in Seq(Lock) /\ Len(last) = 1 /\ last[1].row = ItemRow(ProductOf[w])
    BY <1>1 DEF Lock, Update
<1>6. Program(t) = (head \o updates) \o last
    BY <1>1 DEF Program, CompleteProgram
<1> HIDE DEF updates, head, last
<1> DEFINE front == head \o updates
<1>7. /\ front \in Seq(Lock) /\ Len(front) = N + 1 /\ front[1].row = OrderRow(w)
      /\ \A n \in 1..N : front[n + 1].row = ItemRow(s[n])
  <2>0. IsConcat(front, head, updates)
      BY <1>3, <1>5, ConcatIs
  <2> HIDE DEF front
  <2>1. /\ front \in Seq(Lock) /\ Len(front) = Len(head) + Len(updates)
        /\ \A n \in 1..Len(head) : front[n] = head[n]
        /\ \A n \in 1..Len(updates) : front[Len(head) + n] = updates[n]
      BY <2>0 DEF IsConcat
  <2>2. 1 \in 1..Len(head) /\ \A n \in 1..N : Len(head) + n = n + 1
      BY <1>2, <1>5
  <2> QED
      BY <1>2, <1>4, <1>5, <2>1, <2>2
<1>8. /\ Len(Program(t)) = Len(front) + Len(last)
      /\ \A n \in 1..Len(front) : Program(t)[n] = front[n]
      /\ \A n \in 1..Len(last) : Program(t)[Len(front) + n] = last[n]
  <2>1. last \in Seq(Lock) /\ front \in Seq(Lock) /\ Program(t) = front \o last
      BY <1>5, <1>6, <1>7
  <2> HIDE DEF front
  <2>2. IsConcat(front \o last, front, last)
      BY <2>1, ConcatIs
  <2> QED
      BY <2>1, <2>2 DEF IsConcat
<1> HIDE DEF front
<1>9. /\ 1 \in 1..Len(front) /\ 1 \in 1..Len(last) /\ Len(front) + 1 = N + 2
      /\ Len(front) + Len(last) = N + 2
      /\ \A n \in 1..N : n + 1 \in 1..Len(front)
    BY <1>2, <1>5, <1>7
<1> QED
    BY <1>2, <1>5, <1>7, <1>8, <1>9

\* How high the n-th row of a completion's program is.
Rank(t, n) ==
    IF n = 1 THEN 0
    ELSE IF n = Len(Program(t)) THEN NumItems + 1
    ELSE Ascending(Components(OrderOf[t]))[n - 1]

LEMMA RanksRise ==
    ASSUME NEW t \in Txns, Kind[t] = "complete",
           NEW m \in 1..Len(Program(t)), NEW n \in 1..Len(Program(t))
    PROVE  Rank(t, n) \in 0..(NumItems + 1) /\ (m < n => Rank(t, m) < Rank(t, n))
<1> DEFINE N == Cardinality(Components(OrderOf[t]))
           s == Ascending(Components(OrderOf[t]))
<1>1. /\ N \in Nat /\ s \in [1..N -> Components(OrderOf[t])]
      /\ \A i, j \in 1..N : i < j => s[i] < s[j]
      /\ Len(Program(t)) = N + 2
    BY CompletionIs
<1>2. NumItems \in Nat /\ Components(OrderOf[t]) \subseteq 1..NumItems
    BY TransactionAssumption DEF Components, Items
<1>3. \A k : Rank(t, k) = IF k = 1 THEN 0 ELSE IF k = N + 2 THEN NumItems + 1 ELSE s[k - 1]
    BY <1>1 DEF Rank
<1> HIDE DEF N, s
<1>4. ASSUME NEW k \in 1..(N + 2), k # 1, k # N + 2 PROVE k - 1 \in 1..N /\ s[k - 1] \in 1..NumItems
  <2>1. k - 1 \in 1..N
      BY <1>1, <1>4
  <2> QED
      BY <1>1, <1>2, <2>1
<1>5. m \in 1..(N + 2) /\ n \in 1..(N + 2)
    BY <1>1
<1>6. Rank(t, n) \in 0..(NumItems + 1)
  <2>1. CASE n = 1
    <3>1. Rank(t, n) = 0
        BY <1>3, <2>1
    <3> QED
        BY <1>2, <3>1
  <2>2. CASE n # 1 /\ n = N + 2
    <3>1. Rank(t, n) = NumItems + 1
        BY <1>3, <2>2
    <3> QED
        BY <1>2, <3>1
  <2>3. CASE n # 1 /\ n # N + 2
    <3>1. Rank(t, n) = s[n - 1]
        BY <1>3, <2>3
    <3>2. s[n - 1] \in 1..NumItems
        BY <1>4, <1>5, <2>3
    <3> QED
        BY <1>2, <3>1, <3>2
  <2> QED
      BY <2>1, <2>2, <2>3
<1>7. ASSUME m < n PROVE Rank(t, m) < Rank(t, n)
  <2>1. n # 1 /\ m # N + 2
      BY <1>1, <1>5, <1>7
  <2>2. CASE m = 1 \/ n = N + 2
    <3>1. CASE m = 1 /\ n = N + 2
        BY <1>2, <1>3, <2>1, <3>1
    <3>2. CASE m = 1 /\ n # N + 2
      <4>1. Rank(t, m) = 0 /\ Rank(t, n) = s[n - 1]
          BY <1>3, <2>1, <3>2
      <4>2. s[n - 1] \in 1..NumItems
          BY <1>4, <1>5, <2>1, <3>2
      <4> QED
          BY <1>2, <4>1, <4>2
    <3>3. CASE m # 1 /\ n = N + 2
      <4>1. Rank(t, m) = s[m - 1] /\ Rank(t, n) = NumItems + 1
          BY <1>3, <2>1, <3>3
      <4>2. s[m - 1] \in 1..NumItems
          BY <1>4, <1>5, <2>1, <3>3
      <4> QED
          BY <1>2, <4>1, <4>2
    <3> QED
        BY <2>2, <3>1, <3>2, <3>3
  <2>3. CASE m # 1 /\ n # N + 2
    <3>1. m - 1 \in 1..N /\ n - 1 \in 1..N /\ m - 1 < n - 1
        BY <1>1, <1>4, <1>5, <1>7, <2>1, <2>3
    <3> QED
        BY <1>1, <1>3, <2>1, <2>3, <3>1
  <2> QED
      BY <2>2, <2>3
<1> QED
    BY <1>6, <1>7

\* A row that ordered completion u still has rows to lock after is as high for
\* whoever else locks it.
LEMMA SameRank ==
    ASSUME NEW t \in Txns, Ordered(t), NEW u \in Txns, Ordered(u),
           NEW m \in 1..Len(Program(t)), NEW n \in 1..Len(Program(u)),
           n < Len(Program(u)), Program(t)[m].row = Program(u)[n].row
    PROVE  Rank(t, m) = Rank(u, n)
<1> DEFINE M == Cardinality(Components(OrderOf[t]))
           N == Cardinality(Components(OrderOf[u]))
           r == Ascending(Components(OrderOf[t]))
           s == Ascending(Components(OrderOf[u]))
<1>1. Kind[t] = "complete" /\ Kind[u] = "complete" /\ ProductOf[OrderOf[t]] \notin Components(OrderOf[u])
    BY DEF Ordered
<1>2. /\ M \in Nat /\ Len(Program(t)) = M + 2
      /\ Program(t)[1].row = OrderRow(OrderOf[t])
      /\ \A k \in 1..M : Program(t)[k + 1].row = ItemRow(r[k])
      /\ Program(t)[M + 2].row = ItemRow(ProductOf[OrderOf[t]])
    BY <1>1, CompletionIs
<1>3. /\ N \in Nat /\ Len(Program(u)) = N + 2 /\ s \in [1..N -> Components(OrderOf[u])]
      /\ Program(u)[1].row = OrderRow(OrderOf[u])
      /\ \A k \in 1..N : Program(u)[k + 1].row = ItemRow(s[k])
    BY <1>1, CompletionIs
<1>4. /\ \A k : Rank(t, k) = IF k = 1 THEN 0 ELSE IF k = M + 2 THEN NumItems + 1 ELSE r[k - 1]
      /\ \A k : Rank(u, k) = IF k = 1 THEN 0 ELSE IF k = N + 2 THEN NumItems + 1 ELSE s[k - 1]
    BY <1>2, <1>3 DEF Rank
<1>5. /\ \A w, i : OrderRow(w) # ItemRow(i)
      /\ \A i, j : ItemRow(i) = ItemRow(j) => i = j
    BY DEF OrderRow, ItemRow
<1> HIDE DEF M, N, r, s
<1>6. m \in 1..(M + 2) /\ n \in 1..(N + 1)
    BY <1>2, <1>3
<1>7. m = 1 \/ m = M + 2 \/ (m - 1 \in 1..M /\ (m - 1) + 1 = m)
    BY <1>2, <1>6
<1>8. n = 1 \/ (n - 1 \in 1..N /\ (n - 1) + 1 = n /\ n # N + 2)
    BY <1>3, <1>6
<1>9. CASE n = 1
  <2>1. m = 1
    <3>1. m - 1 \in 1..M => Program(t)[m].row = ItemRow(r[m - 1])
        BY <1>2, <1>7
    <3>2. Program(t)[m].row = OrderRow(OrderOf[u])
        BY <1>3, <1>9
    <3> QED
        BY <1>2, <1>5, <1>7, <3>1, <3>2
  <2> QED
      BY <1>4, <1>9, <2>1
<1>10. CASE n # 1
  <2>1. Program(u)[n].row = ItemRow(s[n - 1]) /\ s[n - 1] \in Components(OrderOf[u])
      BY <1>3, <1>8, <1>10
  <2>2. m # 1 /\ m # M + 2
      BY <1>1, <1>2, <1>5, <2>1
  <2>3. r[m - 1] = s[n - 1]
      BY <1>2, <1>5, <1>7, <2>1, <2>2
  <2> QED
      BY <1>4, <1>8, <1>10, <2>2, <2>3
<1> QED
    BY <1>9, <1>10

LEMMA NoCircle == IInv => OrderedNeverDeadlock
<1> SUFFICES ASSUME IInv, NEW S \in SUBSET {t \in Txns : Ordered(t)}, Deadlocked(S)
             PROVE  FALSE
    BY DEF OrderedNeverDeadlock
<1> DEFINE height(t) == Rank(t, position[t])
<1>1. ASSUME NEW t \in S
      PROVE  /\ t \in Txns /\ Ordered(t) /\ Kind[t] = "complete"
             /\ position[t] \in 1..Len(Program(t))
             /\ height(t) \in 0..(NumItems + 1)
  <2>1. t \in Txns /\ Ordered(t) /\ Kind[t] = "complete" /\ Acquiring(t)
      BY DEF Deadlocked, WaitsFor, Ordered
  <2>2. position[t] \in 1..Len(Program(t))
    <3>1. position[t] \in 1..(Len(Program(t)) + 2) /\ Len(Program(t)) \in Nat
        BY <2>1, ProgramIs DEF IInv, PositionAt
    <3> QED
        BY <2>1, <3>1 DEF Acquiring
  <2> QED
      BY <2>1, <2>2, RanksRise
<1>2. NumItems \in Nat /\ S # {}
    BY TransactionAssumption DEF Deadlocked
<1> HIDE DEF height
<1>3. PICK t \in S : \A u \in S : height(u) <= height(t)
  <2> DEFINE C == {NumItems + 1 - height(t) : t \in S}
  <2>1. C \subseteq Nat /\ C # {}
      BY <1>1, <1>2
  <2>2. PICK n \in C : \A m \in C : n <= m
      BY <2>1, SmallestNumber
  <2>3. PICK t \in S : n = NumItems + 1 - height(t)
      BY <2>2
  <2>4. ASSUME NEW u \in S PROVE height(u) <= height(t)
    <3>1. n <= NumItems + 1 - height(u)
        BY <2>2
    <3> QED
        BY <1>1, <1>2, <2>3, <3>1
  <2> QED
      BY <2>4
<1>4. PICK u \in S : WaitsFor(t, u)
    BY DEF Deadlocked
<1>5. PICK n \in 1..Len(Program(u)) : n < position[u] /\ Program(t)[position[t]].row = Program(u)[n].row
  <2>1. DOMAIN Program(u) = 1..Len(Program(u))
      BY <1>1, ProgramIs, LenProperties
  <2> QED
      BY <1>4, <2>1 DEF WaitsFor, Held, Conflict
<1>6. n < Len(Program(u)) /\ position[u] \in 1..Len(Program(u))
  <2>1. Len(Program(u)) \in Nat /\ position[u] \in 1..Len(Program(u))
      BY <1>1, ProgramIs
  <2> QED
      BY <1>5, <2>1
<1>7. height(t) = Rank(u, n)
    BY <1>1, <1>5, <1>6, SameRank DEF height
<1>8. Rank(u, n) < height(u) /\ Rank(u, n) \in 0..(NumItems + 1)
    BY <1>1, <1>5, <1>6, RanksRise DEF height
<1>9. height(u) <= height(t) /\ height(u) \in Int /\ height(t) \in Int
    BY <1>1, <1>2, <1>3
<1> QED
    BY <1>7, <1>8, <1>9

-----------------------------------------------------------------------------
THEOREM Inductive == Spec => []IInv
BY FirstState, Step, PTL DEF Spec

\* The types of all variables of the transactions hold in every reachable state.
THEOREM TypeCorrect == Spec => []TypeOK
BY Inductive, PTL DEF IInv

\* Two running requests never hold conflicting row locks.
THEOREM LocksSafe == Spec => []LocksExclude
BY Inductive, PTL DEF IInv

\* What a release has read under its locks is true until it commits.
THEOREM ReadsSafe == Spec => []ReadsStayTrue
BY Inductive, PTL DEF IInv

\* Completions, however many run, never deadlock among themselves, but for those
\* whose product is a component of what another makes.
THEOREM CompletionsSafe == Spec => []OrderedNeverDeadlock
BY Inductive, NoCircle, PTL

\* No interleaving of releases and completions promises more than there is.
THEOREM ReservationsSafe == Spec => []NeverOverReserved
BY Inductive, PTL DEF IInv
=============================================================================
