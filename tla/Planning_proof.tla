--------------------------- MODULE Planning_proof ---------------------------
(***************************************************************************)
(* What is planned and what is in force, for any items, orders, requests,    *)
(* runs and instances.  Low-level codes follow every committed bill of       *)
(* material, the master schedule traces to what it was released from, and    *)
(* what an MRP run plans covers what it has found required, from supply it   *)
(* counts once.  The control tower shows the worst row first.  The active    *)
(* schedule, the active version of an inventory policy and the schema of the *)
(* database are replaced under a reader who must not act on what has been    *)
(* replaced: the compare and swap of the pointer, the shared locks of a      *)
(* refresh and the advisory lock of the migrations see to that.              *)
(***************************************************************************)
EXTENDS MaterialPlanning, DemandPlanning, ControlTower, Rescheduling, InventoryPolicies, Migrations, Sums_proof

-----------------------------------------------------------------------------
(* Low-level codes.  The codes of pass k are those depths that are less than  *)
(* k; the items at k, of which each pass leaves fewer, are the ones whose     *)
(* code may still rise.                                                       *)

\* A bounded set of numbers has a largest.
LEMMA LargestOf ==
    ASSUME NEW S, S \subseteq Int, S # {}, NEW b \in Int, \A x \in S : x <= b
    PROVE  Max(S) \in S /\ \A x \in S : x <= Max(S)
<1> DEFINE C == {b - x : x \in S}
<1>1. C \subseteq Nat /\ C # {}
  <2>1. ASSUME NEW x \in S PROVE b - x \in Nat
    <3>1. x \in Int /\ x <= b
      OBVIOUS
    <3> QED
      BY <3>1
  <2> QED
    BY <2>1
<1>2. PICK n \in C : \A m \in C : n <= m
  <2> HIDE DEF C
  <2> QED
    BY <1>1, SmallestNumber
<1>3. PICK y \in S : n = b - y
  BY <1>2
<1>4. \A x \in S : x <= y
  <2> SUFFICES ASSUME NEW x \in S PROVE x <= y
    OBVIOUS
  <2>1. n <= b - x
    BY <1>2
  <2> QED
    BY <1>3, <2>1
<1> QED
  BY <1>3, <1>4 DEF Max

\* Where every item has a parent there is a cycle: the smallest such set would have an item without child.
LEMMA SomeItemHasNoParent ==
    ASSUME NEW edges, Acyclic(edges), NEW S \in SUBSET Items, S # {}
    PROVE  \E i \in S : \A p \in S : <<p, i>> \notin edges
<1> DEFINE C == {T \in SUBSET S : T # {} /\ \A i \in T : \E p \in T : <<p, i>> \in edges}
<1> SUFFICES ASSUME S \in C PROVE FALSE
  OBVIOUS
<1>1. IsFiniteSet(S)
  BY BillOfMaterialsAssumption, FS_Subset
<1>2. PICK T \in C : \A U \in C : U \subseteq T => U = T
  <2>1. C \subseteq SUBSET S /\ C # {}
    OBVIOUS
  <2> HIDE DEF C
  <2> QED
    BY <1>1, <2>1, SmallestSet
<1>3. PICK s \in T : \A j \in T : <<s, j>> \notin edges
  <2>1. T \subseteq S /\ T # {}
    BY <1>2
  <2>2. T \in SUBSET Items
    BY <2>1
  <2> HIDE DEF C
  <2> QED
    BY <2>1, <2>2 DEF Acyclic
<1> DEFINE U == T \ {s}
<1>4. \A i \in U : \E p \in U : <<p, i>> \in edges
  BY <1>2, <1>3
<1>5. U # {}
  <2>1. PICK p \in T : <<p, s>> \in edges
    BY <1>2, <1>3
  <2>2. p # s
    BY <1>3, <2>1
  <2> QED
    BY <2>1, <2>2
<1>6. U \in C /\ U \subseteq T
  BY <1>2, <1>4, <1>5
<1> QED
  BY <1>2, <1>3, <1>6

\* What the passes are, from one to the next.
NextPass(edges, codes) == [i \in Items |-> Max({codes[i]} \cup {codes[p] + 1 : p \in Parents(edges, i)})]
ArePasses(edges, n, pass) ==
    /\ pass = [k \in 0..n |-> pass[k]]
    /\ pass[0] = [i \in Items |-> 0]
    /\ \A k \in 1..n : pass[k] = NextPass(edges, pass[k - 1])

LEMMA PassesExist == ASSUME NEW edges, NEW n \in Nat PROVE \E pass : ArePasses(edges, n, pass)
<1> DEFINE C == {m \in Nat : ~ \E pass : ArePasses(edges, m, pass)}
<1> SUFFICES ASSUME C # {} PROVE FALSE
  OBVIOUS
<1>1. PICK m \in C : \A k \in C : m <= k
  <2>1. C \subseteq Nat
    OBVIOUS
  <2> HIDE DEF C
  <2> QED
    BY <2>1, SmallestNumber
<1>2. m # 0
  <2>1. ArePasses(edges, 0, [k \in 0..0 |-> [i \in Items |-> 0]])
    BY DEF ArePasses
  <2> QED
    BY <1>1, <2>1
<1>3. m - 1 \in Nat /\ m - 1 \notin C
  BY <1>1, <1>2
<1>4. PICK g : ArePasses(edges, m - 1, g)
  BY <1>3
<1> DEFINE h == [k \in 0..m |-> IF k < m THEN g[k] ELSE NextPass(edges, g[m - 1])]
<1>5. ASSUME NEW k \in 1..m PROVE h[k] = NextPass(edges, h[k - 1])
  <2>1. k - 1 \in 0..m /\ h[k - 1] = g[k - 1]
    BY <1>1
  <2>2. CASE k = m
    BY <1>1, <2>1, <2>2
  <2>3. CASE k # m
    <3>1. k \in 1..m - 1
      BY <1>1, <2>3
    <3>2. g[k] = NextPass(edges, g[k - 1])
      BY <1>4, <3>1 DEF ArePasses
    <3>3. h[k] = g[k]
      BY <1>1, <2>3
    <3> QED
      BY <2>1, <3>2, <3>3
  <2> QED
    BY <2>2, <2>3
<1>6. h[0] = [i \in Items |-> 0]
  BY <1>1, <1>2, <1>4 DEF ArePasses
<1>7. h = [k \in 0..m |-> h[k]]
  OBVIOUS
<1> HIDE DEF h
<1>8. ArePasses(edges, m, h)
  BY <1>5, <1>6, <1>7 DEF ArePasses
<1> QED
  BY <1>1, <1>8

LEMMA PassesAre ==
    ASSUME NEW edges, NEW n \in Nat
    PROVE  \E pass : ArePasses(edges, n, pass) /\ Passes(edges, n) = pass[n]
<1> DEFINE Is(f) == f = [k \in 0..n |-> IF k = 0 THEN [i \in Items |-> 0]
                                       ELSE [i \in Items |-> Max({f[k - 1][i]} \cup {f[k - 1][p] + 1 : p \in Parents(edges, i)})]]
           pass == CHOOSE f : Is(f)
<1>1. Passes(edges, n) = pass[n]
  BY DEF Passes
<1>2. \A f : ArePasses(edges, n, f) => Is(f)
  <2> SUFFICES ASSUME NEW f, ArePasses(edges, n, f) PROVE Is(f)
    OBVIOUS
  <2>1. \A k \in 0..n : f[k] = IF k = 0 THEN [i \in Items |-> 0]
                               ELSE [i \in Items |-> Max({f[k - 1][i]} \cup {f[k - 1][p] + 1 : p \in Parents(edges, i)})]
    <3> SUFFICES ASSUME NEW k \in 0..n
                 PROVE  f[k] = IF k = 0 THEN [i \in Items |-> 0]
                               ELSE [i \in Items |-> Max({f[k - 1][i]} \cup {f[k - 1][p] + 1 : p \in Parents(edges, i)})]
      OBVIOUS
    <3>1. CASE k = 0
      BY <3>1 DEF ArePasses
    <3>2. CASE k \in 1..n
      <4>1. f[k] = NextPass(edges, f[k - 1])
        BY <3>2 DEF ArePasses
      <4> QED
        BY <3>2, <4>1 DEF NextPass
    <3> QED
      BY <3>1, <3>2
  <2>2. f = [k \in 0..n |-> f[k]]
    BY DEF ArePasses
  <2> QED
    BY <2>1, <2>2
<1>3. Is(pass)
  <2> HIDE DEF Is
  <2>1. \E f : Is(f)
    BY <1>2, PassesExist
  <2> QED
    BY <2>1
<1> HIDE DEF pass
<1>4. ArePasses(edges, n, pass)
  <2>1. pass = [k \in 0..n |-> pass[k]]
    BY <1>3
  <2>2. \A k \in 0..n : pass[k] = IF k = 0 THEN [i \in Items |-> 0]
                               ELSE [i \in Items |-> Max({pass[k - 1][i]} \cup {pass[k - 1][p] + 1 : p \in Parents(edges, i)})]
    BY <1>3
  <2>3. pass[0] = [i \in Items |-> 0]
    <3>1. 0 \in 0..n
      OBVIOUS
    <3>2. pass[0] = IF 0 = 0 THEN [i \in Items |-> 0]
                    ELSE [i \in Items |-> Max({pass[0 - 1][i]} \cup {pass[0 - 1][p] + 1 : p \in Parents(edges, i)})]
      BY <2>2, <3>1
    <3> QED
      BY <3>2
  <2>4. ASSUME NEW k \in 1..n PROVE pass[k] = NextPass(edges, pass[k - 1])
    <3>1. k \in 0..n /\ k # 0
      OBVIOUS
    <3> QED
      BY <2>2, <3>1 DEF NextPass
  <2> QED
    BY <2>1, <2>3, <2>4 DEF ArePasses
<1> QED
  BY <1>1, <1>4

\* Each pass only raises codes, by what a parent asks for, and to no more than its number.
PassRises(edges, codes, next) ==
    /\ next = [i \in Items |-> next[i]]
    /\ \A i \in Items :
          /\ next[i] \in Nat /\ next[i] >= codes[i]
          /\ \A p \in Parents(edges, i) : next[i] >= codes[p] + 1
          /\ next[i] = codes[i] \/ \E p \in Parents(edges, i) : next[i] = codes[p] + 1
LEMMA NextPassRises ==
    ASSUME NEW edges, NEW codes \in [Items -> Nat], NEW k \in Nat, \A i \in Items : codes[i] <= k
    PROVE  PassRises(edges, codes, NextPass(edges, codes))
<1> DEFINE next == NextPass(edges, codes)
<1>1. ASSUME NEW i \in Items
      PROVE  /\ next[i] \in Nat /\ next[i] >= codes[i]
             /\ \A p \in Parents(edges, i) : next[i] >= codes[p] + 1
             /\ next[i] = codes[i] \/ \E p \in Parents(edges, i) : next[i] = codes[p] + 1
  <2> DEFINE S == {codes[i]} \cup {codes[p] + 1 : p \in Parents(edges, i)}
  <2>1. next[i] = Max(S)
    BY DEF NextPass
  <2>2. S \subseteq Nat /\ S # {} /\ \A x \in S : x <= k + 1
    <3>1. Parents(edges, i) \subseteq Items
      BY DEF Parents
    <3>2. ASSUME NEW x \in S PROVE x \in Nat /\ x <= k + 1
      <4>1. CASE x = codes[i]
        <5>1. codes[i] \in Nat /\ codes[i] <= k
          OBVIOUS
        <5> QED
          BY <4>1, <5>1
      <4>2. CASE \E p \in Parents(edges, i) : x = codes[p] + 1
        <5>1. PICK p \in Parents(edges, i) : x = codes[p] + 1
          BY <4>2
        <5>2. codes[p] \in Nat /\ codes[p] <= k
          BY <3>1
        <5> QED
          BY <5>1, <5>2
      <4> QED
        BY <4>1, <4>2
    <3> QED
      BY <3>2
  <2>3. Max(S) \in S /\ \A x \in S : x <= Max(S)
    <3> HIDE DEF S
    <3>1. S \subseteq Int /\ k + 1 \in Int
      BY <2>2
    <3> QED
      BY <2>2, <3>1, LargestOf
  <2> HIDE DEF next
  <2> QED
    BY <2>1, <2>2, <2>3
<1>2. next = [i \in Items |-> next[i]]
  BY DEF NextPass
<1> HIDE DEF next
<1>3. PassRises(edges, codes, next)
  BY <1>1, <1>2 DEF PassRises
<1> QED
  BY <1>3 DEF next

LEMMA PassesRise ==
    ASSUME NEW edges, NEW n \in Nat, NEW pass, ArePasses(edges, n, pass)
    PROVE  /\ \A k \in 0..n : pass[k] \in [Items -> Nat] /\ \A i \in Items : pass[k][i] <= k
           /\ \A k \in 1..n : PassRises(edges, pass[k - 1], pass[k])
<1> DEFINE Fine(k) == pass[k] \in [Items -> Nat] /\ \A i \in Items : pass[k][i] <= k
           C == {k \in 0..n : ~Fine(k)}
<1>0. ASSUME NEW k \in 1..n, Fine(k - 1) PROVE PassRises(edges, pass[k - 1], pass[k]) /\ Fine(k)
  <2>1. pass[k] = NextPass(edges, pass[k - 1])
    BY DEF ArePasses
  <2>2. k - 1 \in Nat
    OBVIOUS
  <2>3. PassRises(edges, pass[k - 1], pass[k])
    BY <1>0, <2>1, <2>2, NextPassRises
  <2>4. ASSUME NEW i \in Items PROVE pass[k][i] \in Nat /\ pass[k][i] <= k
    <3>1. CASE pass[k][i] = pass[k - 1][i]
      BY <1>0, <2>3, <3>1 DEF PassRises
    <3>2. CASE \E p \in Parents(edges, i) : pass[k][i] = pass[k - 1][p] + 1
      <4>1. PICK p \in Parents(edges, i) : pass[k][i] = pass[k - 1][p] + 1
        BY <3>2
      <4>2. p \in Items
        BY DEF Parents
      <4>3. pass[k - 1][p] \in Nat /\ pass[k - 1][p] <= k - 1
        BY <1>0, <4>2
      <4> QED
        BY <4>1, <4>3
    <3> QED
      BY <2>3, <3>1, <3>2 DEF PassRises
  <2>5. pass[k] = [i \in Items |-> pass[k][i]]
    BY <2>3 DEF PassRises
  <2> QED
    BY <2>3, <2>4, <2>5
<1>1. \A k \in 0..n : Fine(k)
  <2> SUFFICES ASSUME C # {} PROVE FALSE
    OBVIOUS
  <2>1. PICK m \in C : \A k \in C : m <= k
    <3>1. C \subseteq Nat
      OBVIOUS
    <3> HIDE DEF C
    <3> QED
      BY <3>1, SmallestNumber
  <2>2. m # 0
    <3>1. Fine(0)
      BY DEF ArePasses
    <3> QED
      BY <2>1, <3>1
  <2>3. m \in 1..n /\ m - 1 \in 0..n /\ m - 1 \notin C
    BY <2>1, <2>2
  <2>4. Fine(m - 1)
    BY <2>3
  <2> HIDE DEF Fine
  <2> QED
    BY <1>0, <2>1, <2>3, <2>4
<1> QED
  <2>1. \A k \in 1..n : k - 1 \in 0..n
    OBVIOUS
  <2> HIDE DEF Fine
  <2>2. \A k \in 1..n : PassRises(edges, pass[k - 1], pass[k])
    BY <1>0, <1>1, <2>1
  <2> QED
    BY <1>1, <2>2 DEF Fine

\* A code below the number of its pass has come to rest, with a parent just above it if it is not 0.
LEMMA LowCodesRest ==
    ASSUME NEW edges, NEW n \in Nat, NEW pass, ArePasses(edges, n, pass)
    PROVE  /\ \A k \in 1..n : \A i \in Items : pass[k - 1][i] < k - 1 => pass[k][i] = pass[k - 1][i]
           /\ \A k \in 0..n : \A i \in Items : pass[k][i] > 0 => \E p \in Parents(edges, i) : pass[k][p] + 1 >= pass[k][i]
<1> DEFINE Rests(k) == k > 0 => \A i \in Items : pass[k - 1][i] < k - 1 => pass[k][i] = pass[k - 1][i]
           Stands(k) == \A i \in Items : pass[k][i] > 0 => \E p \in Parents(edges, i) : pass[k][p] + 1 >= pass[k][i]
           C == {k \in 0..n : ~(Rests(k) /\ Stands(k))}
<1>0. /\ \A k \in 0..n : \A i \in Items : pass[k][i] \in Nat /\ pass[k][i] <= k
      /\ \A k \in 1..n : PassRises(edges, pass[k - 1], pass[k])
  BY PassesRise
<1>1. \A i : Parents(edges, i) \subseteq Items
  BY DEF Parents
<1>2. ASSUME NEW k \in 1..n, Rests(k - 1), Stands(k - 1) PROVE Rests(k) /\ Stands(k)
  <2>0. k - 1 \in 0..n /\ k \in 0..n
    OBVIOUS
  <2>1. ASSUME NEW i \in Items, pass[k - 1][i] < k - 1 PROVE pass[k][i] = pass[k - 1][i]
    <3> SUFFICES ASSUME NEW p \in Parents(edges, i), pass[k][i] = pass[k - 1][p] + 1 PROVE pass[k][i] = pass[k - 1][i]
      BY <1>0 DEF PassRises
    <3>1. k - 1 \in 1..n /\ k - 1 - 1 \in 0..n
      BY <1>0, <2>0, <2>1
    <3>2. p \in Items
      BY <1>1
    <3>3. PassRises(edges, pass[k - 1 - 1], pass[k - 1])
      BY <1>0, <3>1
    <3>4. pass[k - 1][i] >= pass[k - 1 - 1][p] + 1
      BY <3>3 DEF PassRises
    <3>5. pass[k - 1 - 1][p] < k - 1 - 1
      BY <1>0, <2>0, <2>1, <3>1, <3>2, <3>4
    <3>6. pass[k - 1][p] = pass[k - 1 - 1][p]
      BY <1>2, <3>1, <3>2, <3>5
    <3>7. pass[k][i] >= pass[k - 1][i]
      BY <1>0 DEF PassRises
    <3> QED
      BY <1>0, <2>0, <3>2, <3>4, <3>6, <3>7
  <2>2. ASSUME NEW i \in Items, pass[k][i] > 0 PROVE \E p \in Parents(edges, i) : pass[k][p] + 1 >= pass[k][i]
    <3>0. PassRises(edges, pass[k - 1], pass[k])
      BY <1>0
    <3>1. \A p \in Items : pass[k][p] >= pass[k - 1][p] /\ pass[k][p] \in Nat /\ pass[k - 1][p] \in Nat
      BY <1>0, <2>0, <3>0 DEF PassRises
    <3>2. \E p \in Parents(edges, i) : pass[k - 1][p] + 1 >= pass[k][i]
      <4>1. CASE pass[k][i] = pass[k - 1][i]
        BY <1>2, <2>2, <4>1
      <4>2. CASE \E p \in Parents(edges, i) : pass[k][i] = pass[k - 1][p] + 1
        <5>1. PICK p \in Parents(edges, i) : pass[k][i] = pass[k - 1][p] + 1
          BY <4>2
        <5>2. p \in Items
          BY <1>1
        <5> QED
          BY <3>1, <5>1, <5>2
      <4> QED
        BY <3>0, <4>1, <4>2 DEF PassRises
    <3>3. PICK p \in Parents(edges, i) : pass[k - 1][p] + 1 >= pass[k][i]
      BY <3>2
    <3>4. p \in Items
      BY <1>1
    <3> QED
      BY <3>1, <3>3, <3>4
  <2> QED
    BY <2>1, <2>2
<1>3. \A k \in 0..n : Rests(k) /\ Stands(k)
  <2> SUFFICES ASSUME C # {} PROVE FALSE
    OBVIOUS
  <2>1. PICK m \in C : \A k \in C : m <= k
    <3>1. C \subseteq Nat
      OBVIOUS
    <3> HIDE DEF C
    <3> QED
      BY <3>1, SmallestNumber
  <2>2. m # 0
    <3>1. Rests(0) /\ Stands(0)
      BY DEF ArePasses
    <3> QED
      BY <2>1, <3>1
  <2>3. m \in 1..n /\ m - 1 \in 0..n /\ m - 1 \notin C
    BY <2>1, <2>2
  <2>4. Rests(m - 1) /\ Stands(m - 1)
    BY <2>3
  <2>5. ~(Rests(m) /\ Stands(m))
    BY <2>1
  <2> HIDE DEF Rests, Stands
  <2> QED
    BY <1>2, <2>3, <2>4, <2>5
<1>4. \A k \in 1..n : k \in 0..n /\ k > 0
  OBVIOUS
<1> QED
  BY <1>3, <1>4

\* Fewer items are left at the number of each pass, so none is at that of the last.
LEMMA CodesEndBelow ==
    ASSUME NEW edges, Acyclic(edges), NEW n, n = Cardinality(Items), NEW pass, ArePasses(edges, n, pass)
    PROVE  \A i \in Items : pass[n][i] < n
<1> DEFINE At(k) == {i \in Items : pass[k][i] = k}
           C == {k \in 0..n : ~(Cardinality(At(k)) <= n - k)}
<1>0. n \in Nat /\ IsFiniteSet(Items)
  BY BillOfMaterialsAssumption, FS_CardinalityType
<1>1. /\ \A k \in 0..n : \A i \in Items : pass[k][i] \in Nat /\ pass[k][i] <= k
      /\ \A k \in 1..n : PassRises(edges, pass[k - 1], pass[k])
      /\ \A k \in 1..n : \A i \in Items : pass[k - 1][i] < k - 1 => pass[k][i] = pass[k - 1][i]
  <2>1. ArePasses(edges, n, pass)
    OBVIOUS
  <2> HIDE DEF At, C
  <2>2. \A k \in 0..n : pass[k] \in [Items -> Nat] /\ \A i \in Items : pass[k][i] <= k
    BY <1>0, <2>1, PassesRise
  <2>3. \A k \in 1..n : PassRises(edges, pass[k - 1], pass[k])
    BY <1>0, <2>1, PassesRise
  <2>4. \A k \in 1..n : \A i \in Items : pass[k - 1][i] < k - 1 => pass[k][i] = pass[k - 1][i]
    BY <1>0, <2>1, LowCodesRest
  <2> QED
    BY <2>2, <2>3, <2>4
<1>2. \A k \in 0..n : IsFiniteSet(At(k)) /\ Cardinality(At(k)) \in Nat /\ Cardinality(At(k)) <= n
  <2> SUFFICES ASSUME NEW k \in 0..n PROVE IsFiniteSet(At(k)) /\ Cardinality(At(k)) \in Nat /\ Cardinality(At(k)) <= n
    OBVIOUS
  <2>1. At(k) \subseteq Items
    OBVIOUS
  <2> HIDE DEF At
  <2> QED
    BY <1>0, <2>1, FS_Subset, FS_CardinalityType
<1>3. ASSUME NEW k \in 1..n PROVE At(k) \subseteq At(k - 1) /\ (At(k) = At(k - 1) => At(k) = {})
  <2>0. k \in 0..n /\ k - 1 \in 0..n
    BY <1>0
  <2>1. ASSUME NEW i \in At(k) PROVE i \in At(k - 1) /\ \E p \in Parents(edges, i) : p \in At(k - 1)
    <3>1. ~(pass[k - 1][i] < k - 1)
      BY <1>1, <2>0
    <3>2. pass[k - 1][i] = k - 1
      BY <1>1, <2>0, <3>1
    <3>3. \E p \in Parents(edges, i) : pass[k][i] = pass[k - 1][p] + 1
      <4>1. PassRises(edges, pass[k - 1], pass[k])
        BY <1>1
      <4>2. pass[k][i] = k /\ k # k - 1 /\ i \in Items
        OBVIOUS
      <4> QED
        BY <3>2, <4>1, <4>2 DEF PassRises
    <3>4. PICK p \in Parents(edges, i) : k = pass[k - 1][p] + 1
      BY <3>3
    <3>5. p \in Items
      BY DEF Parents
    <3>6. pass[k - 1][p] \in Nat
      BY <1>1, <2>0, <3>5
    <3> QED
      BY <3>2, <3>4, <3>5, <3>6
  <2>2. ASSUME At(k) = At(k - 1), At(k) # {} PROVE FALSE
    <3>1. \A i \in At(k) : \E p \in At(k) : <<p, i>> \in edges
      BY <2>1, <2>2 DEF Parents
    <3>2. At(k) \in SUBSET Items
      OBVIOUS
    <3> HIDE DEF At
    <3> QED
      BY <2>2, <3>1, <3>2, SomeItemHasNoParent
  <2> QED
    BY <2>1, <2>2
<1>4. \A k \in 0..n : Cardinality(At(k)) <= n - k
  <2> SUFFICES ASSUME C # {} PROVE FALSE
    OBVIOUS
  <2>1. PICK m \in C : \A k \in C : m <= k
    <3>1. C \subseteq Nat
      BY <1>0
    <3> HIDE DEF C
    <3> QED
      BY <3>1, SmallestNumber
  <2>2. m # 0
    BY <1>0, <1>2, <2>1
  <2>3. m \in 1..n /\ m - 1 \in 0..n /\ m - 1 \notin C /\ m \in 0..n
    BY <1>0, <2>1, <2>2
  <2>4. Cardinality(At(m - 1)) <= n - (m - 1) /\ ~(Cardinality(At(m)) <= n - m)
    BY <2>1, <2>3
  <2> HIDE DEF At, C
  <2>5. CASE At(m) = {}
    <3>1. Cardinality(At(m)) = 0
      BY <2>5, FS_EmptySet
    <3> QED
      BY <1>0, <2>3, <2>4, <3>1
  <2>6. CASE At(m) # {}
    <3>1. At(m) \subseteq At(m - 1) /\ At(m) # At(m - 1)
      BY <1>3, <2>3, <2>6
    <3>2. IsFiniteSet(At(m - 1)) /\ Cardinality(At(m - 1)) \in Nat /\ Cardinality(At(m)) \in Nat
      BY <1>2, <2>3
    <3>3. Cardinality(At(m)) < Cardinality(At(m - 1))
      BY <3>1, <3>2, FS_Subset
    <3> QED
      BY <1>0, <2>3, <2>4, <3>2, <3>3
  <2> QED
    BY <2>5, <2>6
<1>5. At(n) = {}
  <2>1. n \in 0..n
    BY <1>0
  <2> HIDE DEF At, C
  <2>2. Cardinality(At(n)) <= n - n /\ Cardinality(At(n)) \in Nat /\ IsFiniteSet(At(n))
    BY <1>2, <1>4, <2>1
  <2>3. Cardinality(At(n)) = 0
    BY <1>0, <2>2
  <2> QED
    BY <2>2, <2>3, FS_EmptySet
<1> QED
  <2>1. n \in 0..n
    BY <1>0
  <2>2. \A i \in Items : pass[n][i] \in Nat /\ pass[n][i] <= n /\ pass[n][i] # n
    BY <1>1, <1>5, <2>1
  <2> QED
    BY <1>0, <2>2

\* Of a graph without cycle, the code of an item is its depth.
LEMMA CodesAreDepths ==
    ASSUME NEW edges, Acyclic(edges), NEW i \in Items
    PROVE  LET codes == LowLevelCodes(edges)
           IN codes[i] = IF Parents(edges, i) = {} THEN 0 ELSE 1 + Max({codes[p] : p \in Parents(edges, i)})
<1> DEFINE n == Cardinality(Items)
           codes == LowLevelCodes(edges)
           above == {codes[p] : p \in Parents(edges, i)}
<1>0. n \in Nat
  BY BillOfMaterialsAssumption, FS_CardinalityType
<1>1. PICK pass : ArePasses(edges, n, pass) /\ codes = pass[n]
  BY <1>0, PassesAre DEF LowLevelCodes
<1>2. \A j \in Items : codes[j] \in Nat /\ codes[j] < n
  <2>1. \A j \in Items : pass[n][j] < n
    BY <1>1, CodesEndBelow
  <2>2. \A k \in 0..n : pass[k] \in [Items -> Nat]
    BY <1>0, <1>1, PassesRise
  <2>3. n \in 0..n
    BY <1>0
  <2> QED
    BY <1>1, <2>1, <2>2, <2>3
<1> HIDE DEF codes, n
<1>3. n \in 1..n /\ n - 1 \in 0..n
  BY <1>0, <1>2
<1>4. Parents(edges, i) \subseteq Items
  BY DEF Parents
<1>5. \A p \in Parents(edges, i) : codes[i] >= codes[p] + 1
  <2> SUFFICES ASSUME NEW p \in Parents(edges, i) PROVE codes[i] >= codes[p] + 1
    OBVIOUS
  <2>1. PassRises(edges, pass[n - 1], pass[n])
    BY <1>0, <1>1, <1>3, PassesRise
  <2>2. pass[n][i] >= pass[n - 1][p] + 1
    BY <2>1 DEF PassRises
  <2>3. \A k \in 0..n : pass[k] \in [Items -> Nat]
    BY <1>0, <1>1, PassesRise
  <2>4. pass[n - 1][p] \in Nat
    BY <1>3, <1>4, <2>3
  <2>5. pass[n - 1][p] < n - 1
    BY <1>0, <1>1, <1>2, <2>2, <2>4
  <2>6. \A k \in 1..n : \A j \in Items : pass[k - 1][j] < k - 1 => pass[k][j] = pass[k - 1][j]
    BY <1>0, <1>1, LowCodesRest
  <2>7. pass[n][p] = pass[n - 1][p]
    BY <1>3, <1>4, <2>5, <2>6
  <2> QED
    BY <1>1, <2>2, <2>7
<1>6. codes[i] > 0 => \E p \in Parents(edges, i) : codes[p] + 1 >= codes[i]
  <2>1. \A k \in 0..n : \A j \in Items : pass[k][j] > 0 => \E p \in Parents(edges, j) : pass[k][p] + 1 >= pass[k][j]
    BY <1>0, <1>1, LowCodesRest
  <2>2. n \in 0..n
    BY <1>0
  <2> QED
    BY <1>1, <2>1, <2>2
<1>7. CASE Parents(edges, i) = {}
  BY <1>2, <1>6, <1>7 DEF codes
<1>8. CASE Parents(edges, i) # {}
  <2>1. above \subseteq Int /\ above # {} /\ \A x \in above : x <= n
    BY <1>0, <1>2, <1>4, <1>8
  <2>2. Max(above) \in above /\ \A x \in above : x <= Max(above)
    <3> HIDE DEF above
    <3>1. n \in Int
      BY <1>0
    <3> QED
      BY <2>1, <3>1, LargestOf
  <2>3. PICK q \in Parents(edges, i) : Max(above) = codes[q]
    BY <2>2
  <2>4. codes[i] >= codes[q] + 1 /\ codes[i] \in Nat /\ codes[q] \in Nat
    BY <1>2, <1>4, <1>5
  <2>5. PICK p \in Parents(edges, i) : codes[p] + 1 >= codes[i]
    BY <1>6, <2>4
  <2>6. codes[p] <= codes[q] /\ codes[p] \in Nat
    BY <1>2, <1>4, <2>2, <2>3
  <2>7. codes[i] = 1 + Max(above)
    BY <2>3, <2>4, <2>5, <2>6
  <2> QED
    BY <1>8, <2>7 DEF codes
<1> QED
  BY <1>7, <1>8

-----------------------------------------------------------------------------
(* Whoever writes the bill of material commits a graph without cycle, with   *)
(* the codes that go with it; the rest leaves both alone.                    *)
BOMInv == Acyclic(DOMAIN bom) /\ llc = LowLevelCodes(DOMAIN bom)

LEMMA BOMInitHolds == BOMInit => BOMInv
<1> SUFFICES ASSUME BOMInit PROVE BOMInv
  OBVIOUS
<1>1. PICK D \in {E \in SUBSET {e \in Items \X Items : e[1] # e[2]} : Acyclic(E)} : bom \in [D -> Quantities]
  BY DEF BOMInit
<1>2. DOMAIN bom = D /\ Acyclic(D)
  BY <1>1
<1> QED
  BY <1>2 DEF BOMInit, BOMInv

LEMMA BOMStep ==
    ASSUME BOMInv, [BOMNext]_bomVars
    PROVE  BOMInv'
<1>1. \A b : Commit(b) => BOMInv'
  BY DEF Commit, BOMInv
<1>2. UNCHANGED <<bom, llc>> => BOMInv'
  BY DEF BOMInv
<1>3. ASSUME NEW p \in Items, NEW c \in Items, NEW q \in Quantities, AddComponent(p, c, q) PROVE BOMInv'
  BY <1>1, <1>3 DEF AddComponent
<1>4. ASSUME NEW e \in DOMAIN bom, DeleteComponent(e) PROVE BOMInv'
  BY <1>1, <1>4 DEF DeleteComponent
<1>5. ASSUME RecomputeLLC PROVE BOMInv'
  BY <1>5 DEF RecomputeLLC, BOMInv
<1>6. ASSUME NEW e \in Changes, NEW d \in 0..LastDay, CreateECO(e, d) PROVE BOMInv'
  BY <1>2, <1>6 DEF CreateECO
<1>7. ASSUME NEW e \in Changes, Approve(e) PROVE BOMInv'
  BY <1>2, <1>7 DEF Approve
<1>8. ASSUME NEW e \in Changes, Cancel(e) PROVE BOMInv'
  BY <1>2, <1>8 DEF Cancel
<1>9. ASSUME NEW e \in Changes, Apply(e) PROVE BOMInv'
  BY <1>1, <1>9 DEF Apply
<1>10. ASSUME NEW e \in Changes, NEW line, NEW k, AddECOComponent(e, k, line) PROVE BOMInv'
  BY <1>2, <1>10 DEF AddECOComponent
<1>11. ASSUME NextDay PROVE BOMInv'
  BY <1>2, <1>11 DEF NextDay
<1>12. CASE UNCHANGED bomVars
  BY <1>2, <1>12 DEF bomVars
<1> QED
  BY <1>3, <1>4, <1>5, <1>6, <1>7, <1>8, <1>9, <1>10, <1>11, <1>12 DEF BOMNext

\* Whatever manual and engineering changes are made, in whatever order and however a change passes through graphs
\* that would be refused, no cycle is committed and every item has its depth for a code
\* (recompute_low_level_codes, validateBOMAcyclicTx).
THEOREM CodesFollowTheBOM == BOMSpec => []LevelsFollowBOM
<1>1. BOMInv => LevelsFollowBOM
  <2> SUFFICES ASSUME BOMInv PROVE LevelsFollowBOM
    OBVIOUS
  <2>1. Acyclic(DOMAIN bom) /\ llc = LowLevelCodes(DOMAIN bom)
    BY DEF BOMInv
  <2>2. \A i \in Items : llc[i] = IF Parents(DOMAIN bom, i) = {} THEN 0 ELSE 1 + Max({llc[p] : p \in Parents(DOMAIN bom, i)})
    BY <2>1, CodesAreDepths
  <2> QED
    BY <2>1, <2>2 DEF LevelsFollowBOM
<1> QED
  BY <1>1, BOMInitHolds, BOMStep, PTL DEF BOMSpec

-----------------------------------------------------------------------------
(* The master schedule.                                                    *)
Disaggregation == [mix : Mixes, supply : Nat, lines : UNION {[D -> [Periods -> Int]] : D \in SUBSET Products}]

DemandTypes ==
    /\ forecast = [f \in Forecasts |-> forecast[f]] /\ \A f \in Forecasts : forecast[f].status # "NONE" => forecast[f] \in ForecastRun
    /\ mix = [x \in Mixes |-> mix[x]] /\ \A x \in Mixes : mix[x].status # "NONE" => mix[x] \in SOPProductMixVersion
    /\ supply \in [Families -> Nat] /\ orders \in [Products -> [MonthDates -> Nat]]
    /\ applied \in Seq(Disaggregation) /\ mps \in [Products -> [MonthDates -> MPSEntry]]
\* Where an entry comes from.
Traced(p, d, entry, log, versions) ==
    /\ entry.basis = "SOP_DISAGGREGATION" =>
          /\ entry.source \in 1..Len(log)
          /\ p \in DOMAIN log[entry.source].lines /\ entry.planned = log[entry.source].lines[p][d]
          /\ entry.released <= entry.planned
    /\ entry.basis = "FORECAST_CONSUMPTION" =>
          /\ entry.source \in Forecasts
          /\ versions[entry.source].product = p /\ versions[entry.source].status \in {"ACTIVE", "ARCHIVED"}
          /\ entry.planned >= versions[entry.source].values[d]
\* The mix of a disaggregation is no longer written.
SharesOut(made, mixes) ==
    /\ mixes[made.mix].status # "NONE"
    /\ \A p \in DOMAIN made.lines : SumFunctionOnSet(made.lines[p], Periods) = Round(made.supply * mixes[made.mix].lines[p], 100)
DemandInv ==
    /\ DemandTypes
    /\ \A p \in Products, d \in MonthDates : Traced(p, d, mps[p][d], applied, forecast)
    /\ \A k \in 1..Len(applied) : SharesOut(applied[k], mix)

\* The periods of a plan add up to its target, whatever is rounded.
LEMMA PhasedAddsUp ==
    ASSUME NEW target \in Int
    PROVE  /\ Phased(target) \in [Periods -> Int]
           /\ SumFunctionOnSet(Phased(target), Periods) = target
<1> DEFINE rounded == [d \in Periods |-> Round(target * PeriodDays(d), MonthDays)]
           m == Max(Periods)
           rest == SumFunctionOnSet(rounded, Periods \ {m})
           plan == [rounded EXCEPT ![m] = target - rest]
<1>0. MonthDays \in Nat /\ MonthDays > 0 /\ Week \in Nat /\ Week > 0
  BY DemandPlanningAssumption
<1>1. Periods \subseteq MonthDates /\ MonthDates \subseteq Int /\ 0 \in Periods /\ \A d \in Periods : d <= MonthDays
  BY <1>0 DEF Periods, MonthDates
<1>2. IsFiniteSet(Periods)
  <2>1. IsFiniteSet(MonthDates)
    BY <1>0, FS_Interval DEF MonthDates
  <2> QED
    BY <1>1, <2>1, FS_Subset
<1>3. m \in Periods
  <2>1. Periods \subseteq Int /\ Periods # {} /\ MonthDays \in Int
    BY <1>0, <1>1
  <2> QED
    BY <1>1, <2>1, LargestOf
<1>4. \A d \in Periods : rounded[d] \in Int
  <2> SUFFICES ASSUME NEW d \in Periods PROVE Round(target * PeriodDays(d), MonthDays) \in Int
    OBVIOUS
  <2>1. PeriodDays(d) \in Int
    <3>1. d \in Int
      BY <1>1
    <3>2. \A a, b \in Int : Min({a, b}) \in Int
      BY DEF Min
    <3> QED
      BY <1>0, <3>1, <3>2 DEF PeriodDays
  <2>2. target * PeriodDays(d) \in Int
    BY <2>1
  <2> QED
    BY <1>0, <2>2 DEF Round
<1>5. Phased(target) = plan
  BY DEF Phased
<1> HIDE DEF m
<1>6. rest \in Int
  <2>1. IsFiniteSet(Periods \ {m}) /\ \A d \in Periods \ {m} : rounded[d] \in Int
    BY <1>2, <1>4, FS_RemoveElement
  <2> HIDE DEF rounded
  <2> QED
    BY <2>1, SumType
<1>7. rounded = [d \in Periods |-> rounded[d]]
  OBVIOUS
<1> HIDE DEF rounded, rest
<1>8. plan \in [Periods -> Int] /\ plan[m] = target - rest /\ \A d \in Periods \ {m} : plan[d] = rounded[d]
  BY <1>3, <1>4, <1>6, <1>7
<1> HIDE DEF plan
<1>9. SumFunctionOnSet(plan, Periods) = plan[m] + SumFunctionOnSet(plan, Periods \ {m})
  BY <1>2, <1>3, <1>8, SumRemove
<1>10. SumFunctionOnSet(plan, Periods \ {m}) = rest
  <2>1. IsFiniteSet(Periods \ {m})
    BY <1>2, FS_RemoveElement
  <2>2. \A d \in Periods \ {m} : rounded[d] \in Int /\ plan[d] = rounded[d]
    BY <1>4, <1>8
  <2>3. SumFunctionOnSet(plan, Periods \ {m}) = SumFunctionOnSet(rounded, Periods \ {m})
    BY <2>1, <2>2, SumSame
  <2> QED
    BY <2>3 DEF rest
<1> QED
  BY <1>5, <1>6, <1>8, <1>9, <1>10

\* Orders due in a bucket only add to what it keeps of its forecast.
LEMMA DemandCoversForecast ==
    ASSUME DemandTypes, NEW f \in Forecasts, forecast[f].status # "NONE", NEW d \in DOMAIN forecast[f].values
    PROVE  TotalDemand(f, d) \in Int /\ TotalDemand(f, d) >= forecast[f].values[d]
<1> DEFINE due == d..Min({d + Bucket, MonthDays}) - 1
           ordered == SumFunctionOnSet(orders[forecast[f].product], due)
           q == forecast[f].values[d]
<1>0. MonthDays \in Nat /\ Bucket \in Nat /\ Amounts \subseteq Nat
  BY DemandPlanningAssumption
<1>1. forecast[f] \in ForecastRun
  BY DEF DemandTypes
<1>2. forecast[f].product \in Products /\ d \in MonthDates /\ q \in Amounts
  BY <1>1 DEF ForecastRun
<1>3. \A a, b \in Int : Min({a, b}) \in Int /\ Min({a, b}) <= b /\ Max({a, b}) >= a /\ Max({a, b}) \in Int
  BY DEF Min, Max
<1>4. d \in Int /\ d >= 0
  BY <1>0, <1>2 DEF MonthDates
<1>5. IsFiniteSet(due) /\ due \subseteq MonthDates
  <2>1. d + Bucket \in Int /\ MonthDays \in Int
    BY <1>0, <1>4
  <2>2. Min({d + Bucket, MonthDays}) \in Int /\ Min({d + Bucket, MonthDays}) <= MonthDays
    BY <1>3, <2>1
  <2>3. Min({d + Bucket, MonthDays}) - 1 \in Int
    BY <2>2
  <2>4. IsFiniteSet(due)
    BY <1>4, <2>3, FS_Interval
  <2>5. ASSUME NEW e \in due PROVE e \in MonthDates
    <3> DEFINE end == Min({d + Bucket, MonthDays})
    <3>1. end \in Int /\ end <= MonthDays /\ e \in d..end - 1
      BY <2>2
    <3> HIDE DEF end
    <3>2. e \in Int /\ e >= 0 /\ e <= MonthDays - 1
      BY <1>0, <1>4, <3>1
    <3> QED
      BY <1>0, <3>2 DEF MonthDates
  <2> QED
    BY <2>4, <2>5
<1>6. \A e \in due : orders[forecast[f].product][e] \in Int
  <2>1. orders[forecast[f].product] \in [MonthDates -> Nat]
    BY <1>2 DEF DemandTypes
  <2>2. \A e \in MonthDates : orders[forecast[f].product][e] \in Int
    BY <2>1
  <2> HIDE DEF due
  <2> QED
    BY <1>5, <2>2
<1>7. ordered \in Int
  BY <1>5, <1>6, SumType
<1>8. TotalDemand(f, d) = ordered + Max({q - ordered, 0})
  BY DEF TotalDemand, ConsumeForecastQty
<1> HIDE DEF ordered, q
<1>9. q \in Int
  BY <1>0, <1>2
<1>10. Max({q - ordered, 0}) \in Int /\ Max({q - ordered, 0}) >= q - ordered
  <2>1. q - ordered \in Int /\ 0 \in Int
    BY <1>7, <1>9
  <2> QED
    BY <1>3, <2>1
<1>11. TotalDemand(f, d) \in Int /\ TotalDemand(f, d) >= q
  BY <1>7, <1>8, <1>9, <1>10
<1> QED
  BY <1>11 DEF q

LEMMA DemandInitHolds == DemandInit => DemandInv
<1> SUFFICES ASSUME DemandInit PROVE DemandInv
  OBVIOUS
<1>1. NoEntry \in MPSEntry
  BY DEF NoEntry, MPSEntry, NoSource
<1>2. DemandTypes
  BY <1>1 DEF DemandInit, DemandTypes
<1>3. \A p \in Products, d \in MonthDates : Traced(p, d, mps[p][d], applied, forecast)
  BY DEF DemandInit, NoEntry, Traced
<1>4. Len(applied) = 0
  BY DEF DemandInit
<1> QED
  BY <1>2, <1>3, <1>4 DEF DemandInv

\* An entry stays traced while the versions it may name keep their contents.
LEMMA StaysTraced ==
    ASSUME NEW p, NEW d, NEW entry, NEW log \in Seq(Disaggregation), NEW log2 \in Seq(Disaggregation), NEW old, NEW new,
           Traced(p, d, entry, log, old),
           Len(log2) >= Len(log), \A k \in 1..Len(log) : log2[k] = log[k],
           \A f \in Forecasts : old[f].status \in {"ACTIVE", "ARCHIVED"} =>
               /\ new[f].status \in {"ACTIVE", "ARCHIVED"}
               /\ new[f].product = old[f].product /\ new[f].values = old[f].values
    PROVE  Traced(p, d, entry, log2, new)
<1>1. Len(log) \in Nat /\ Len(log2) \in Nat
  OBVIOUS
<1> QED
  BY <1>1 DEF Traced

\* Activation touches no more than the status.
LEMMA ActivationKeeps ==
    ASSUME NEW S, NEW versions, versions = [w \in S |-> versions[w]], NEW v \in S, NEW rivals, versions[v].status = "DRAFT",
           NEW w \in S
    PROVE  LET next == Activating(versions, v, rivals) IN
           /\ next = [u \in S |-> next[u]]
           /\ \/ next[w] = versions[w]
              \/ versions[w].status # "NONE" /\ \E t \in {"ACTIVE", "ARCHIVED"} : next[w] = [versions[w] EXCEPT !.status = t]
<1> DEFINE next == Activating(versions, v, rivals)
<1>1. next[w] = IF w = v THEN [versions[w] EXCEPT !.status = "ACTIVE"]
                ELSE IF versions[w].status = "ACTIVE" /\ w \in rivals THEN [versions[w] EXCEPT !.status = "ARCHIVED"]
                ELSE versions[w]
  BY DEF Activating
<1>2. next = [u \in S |-> next[u]]
  BY DEF Activating
<1> QED
  BY <1>1, <1>2

LEMMA DemandStep ==
    ASSUME DemandInv, [DemandNext]_demandVars
    PROVE  DemandInv'
<1>0. Amounts \subseteq Nat /\ \A s \in Shares : DOMAIN s \subseteq Products /\ \A p \in DOMAIN s : s[p] \in 1..100
  BY DemandPlanningAssumption
<1>1. DemandTypes
  BY DEF DemandInv
<1>2. /\ \A p \in Products, d \in MonthDates : Traced(p, d, mps[p][d], applied, forecast)
      /\ \A k \in 1..Len(applied) : SharesOut(applied[k], mix)
  BY DEF DemandInv
\* A step of one table is one of these.
<1>3. ASSUME DemandTypes', UNCHANGED <<mix, applied, mps>>,
             \A f \in Forecasts : forecast[f].status \in {"ACTIVE", "ARCHIVED"} =>
               /\ forecast'[f].status \in {"ACTIVE", "ARCHIVED"}
               /\ forecast'[f].product = forecast[f].product /\ forecast'[f].values = forecast[f].values
      PROVE  DemandInv'
  <2>1. ASSUME NEW p \in Products, NEW d \in MonthDates PROVE Traced(p, d, mps'[p][d], applied', forecast')
    <3>1. applied \in Seq(Disaggregation) /\ Len(applied) \in Nat
      BY <1>1 DEF DemandTypes
    <3>2. Traced(p, d, mps[p][d], applied, forecast)
      BY <1>2
    <3>3. Traced(p, d, mps[p][d], applied, forecast')
      BY <1>3, <3>1, <3>2, StaysTraced
    <3> QED
      BY <1>3, <3>3
  <2> QED
    BY <1>2, <1>3, <2>1 DEF DemandInv
<1>4. ASSUME DemandTypes', UNCHANGED <<forecast, applied, mps>>, \A x \in Mixes : mix[x].status # "NONE" => mix'[x].status # "NONE" /\ mix'[x].lines = mix[x].lines
      PROVE  DemandInv'
  <2>1. ASSUME NEW k \in 1..Len(applied) PROVE SharesOut(applied[k], mix')
    <3>1. applied[k].mix \in Mixes
      <4>1. applied \in Seq(Disaggregation)
        BY <1>1 DEF DemandTypes
      <4>2. applied[k] \in Disaggregation
        BY <4>1
      <4> QED
        BY <4>2 DEF Disaggregation
    <3>2. SharesOut(applied[k], mix)
      BY <1>2
    <3> QED
      BY <1>4, <3>1, <3>2 DEF SharesOut
  <2> QED
    BY <1>2, <1>4, <2>1 DEF DemandInv
<1>5. ASSUME UNCHANGED <<forecast, mix, applied>>, DemandTypes',
             \A p \in Products, d \in MonthDates : mps'[p][d] = mps[p][d] \/ Traced(p, d, mps'[p][d], applied, forecast)
      PROVE  DemandInv'
  BY <1>2, <1>5 DEF DemandInv

<1>11. ASSUME NEW f \in Forecasts, NEW p \in Products, NEW s \in Scenarios, NEW v \in [{d \in MonthDates : d % Bucket = 0} -> Amounts], GenerateForecast(f, p, s, v)
       PROVE  DemandInv'
  <2>1. [status |-> "DRAFT", product |-> p, scenario |-> s, values |-> v] \in ForecastRun
    BY DEF ForecastRun, Lifecycle
  <2>2. DemandTypes'
    BY <1>1, <1>11, <2>1 DEF GenerateForecast, DemandTypes
  <2>3. \A g \in Forecasts : forecast[g].status \in {"ACTIVE", "ARCHIVED"} => forecast'[g] = forecast[g]
    BY <1>1, <1>11 DEF GenerateForecast, DemandTypes
  <2> QED
    BY <1>3, <1>11, <2>2, <2>3 DEF GenerateForecast
<1>12. ASSUME NEW f \in Forecasts, ActivateRun(f) PROVE DemandInv'
  <2> DEFINE rivals == {g \in Forecasts : forecast[g].product = forecast[f].product /\ forecast[g].scenario = forecast[f].scenario}
  <2>1. forecast' = Activating(forecast, f, rivals) /\ forecast[f].status = "DRAFT" /\ UNCHANGED <<mix, supply, applied, orders, mps>>
    BY <1>12 DEF ActivateRun
  <2>2. forecast = [g \in Forecasts |-> forecast[g]]
    BY <1>1 DEF DemandTypes
  <2> HIDE DEF rivals
  <2>3. ASSUME NEW g \in Forecasts
        PROVE  /\ forecast' = [u \in Forecasts |-> forecast'[u]]
               /\ \/ forecast'[g] = forecast[g]
                  \/ forecast[g].status # "NONE" /\ \E t \in {"ACTIVE", "ARCHIVED"} : forecast'[g] = [forecast[g] EXCEPT !.status = t]
    BY <2>1, <2>2, ActivationKeeps
  <2>4. ASSUME NEW g \in Forecasts, forecast[g].status # "NONE", NEW t \in {"ACTIVE", "ARCHIVED"}
        PROVE  LET h == [forecast[g] EXCEPT !.status = t] IN h \in ForecastRun /\ h.status = t /\ h.product = forecast[g].product /\ h.values = forecast[g].values
    <3>1. forecast[g] \in ForecastRun
      BY <1>1, <2>4 DEF DemandTypes
    <3> QED
      BY <3>1 DEF ForecastRun, Lifecycle
  <2>5. DemandTypes'
    <3>1. ASSUME NEW g \in Forecasts, forecast'[g].status # "NONE" PROVE forecast'[g] \in ForecastRun
      <4>1. CASE forecast'[g] = forecast[g]
        BY <1>1, <3>1, <4>1 DEF DemandTypes
      <4>2. CASE forecast[g].status # "NONE" /\ \E t \in {"ACTIVE", "ARCHIVED"} : forecast'[g] = [forecast[g] EXCEPT !.status = t]
        BY <2>4, <4>2
      <4> QED
        BY <2>3, <4>1, <4>2
    <3>2. forecast' = [u \in Forecasts |-> forecast'[u]]
      BY <2>3
    <3> QED
      BY <1>1, <2>1, <3>1, <3>2 DEF DemandTypes
  <2>6. ASSUME NEW g \in Forecasts, forecast[g].status \in {"ACTIVE", "ARCHIVED"}
        PROVE  /\ forecast'[g].status \in {"ACTIVE", "ARCHIVED"}
               /\ forecast'[g].product = forecast[g].product /\ forecast'[g].values = forecast[g].values
    <3>1. CASE forecast'[g] = forecast[g]
      BY <2>6, <3>1
    <3>2. CASE \E t \in {"ACTIVE", "ARCHIVED"} : forecast'[g] = [forecast[g] EXCEPT !.status = t]
      <4>1. PICK t \in {"ACTIVE", "ARCHIVED"} : forecast'[g] = [forecast[g] EXCEPT !.status = t]
        BY <3>2
      <4> QED
        BY <2>4, <2>6, <4>1
    <3> QED
      BY <2>3, <3>1, <3>2
  <2> QED
    BY <1>3, <2>1, <2>5, <2>6
<1>13. ASSUME NEW f \in Forecasts, ApplyConsumptionToMPS(f) PROVE DemandInv'
  <2> DEFINE p == forecast[f].product
             row == [d \in MonthDates |->
                       IF d \in DOMAIN forecast[f].values
                       THEN [planned |-> TotalDemand(f, d), released |-> mps[p][d].released, basis |-> "FORECAST_CONSUMPTION", source |-> f]
                       ELSE mps[p][d]]
  <2>1. forecast[f].status = "ACTIVE" /\ mps' = [mps EXCEPT ![p] = row] /\ UNCHANGED <<forecast, mix, supply, applied, orders>>
    BY <1>13 DEF ApplyConsumptionToMPS
  <2>2. forecast[f] \in ForecastRun
    BY <1>1, <2>1 DEF DemandTypes
  <2>3. p \in Products
    BY <2>2 DEF ForecastRun
  <2>4. ASSUME NEW d \in MonthDates PROVE row[d] \in MPSEntry /\ (row[d] = mps[p][d] \/ Traced(p, d, row[d], applied, forecast))
    <3>1. mps[p][d] \in MPSEntry
      BY <1>1, <2>3 DEF DemandTypes
    <3>2. CASE d \in DOMAIN forecast[f].values
      <4>1. TotalDemand(f, d) \in Int /\ TotalDemand(f, d) >= forecast[f].values[d]
        BY <1>1, <2>1, <3>2, DemandCoversForecast
      <4>2. row[d] = [planned |-> TotalDemand(f, d), released |-> mps[p][d].released, basis |-> "FORECAST_CONSUMPTION", source |-> f]
        BY <3>2
      <4> HIDE DEF row
      <4>3. row[d] \in MPSEntry
        BY <3>1, <4>1, <4>2 DEF MPSEntry
      <4>4. Traced(p, d, row[d], applied, forecast)
        BY <2>1, <4>1, <4>2 DEF Traced
      <4> QED
        BY <4>3, <4>4
    <3>3. CASE d \notin DOMAIN forecast[f].values
      BY <3>1, <3>3
    <3> QED
      BY <3>2, <3>3
  <2>5. row = [d \in MonthDates |-> row[d]]
    OBVIOUS
  <2> HIDE DEF row, p
  <2>6. row \in [MonthDates -> MPSEntry]
    BY <2>4, <2>5
  <2>7. \A x \in Products : mps'[x] = IF x = p THEN row ELSE mps[x]
    BY <1>1, <2>1 DEF DemandTypes
  <2>8. DemandTypes'
    BY <1>1, <2>1, <2>6 DEF DemandTypes
  <2>9. \A x \in Products, d \in MonthDates : mps'[x][d] = mps[x][d] \/ Traced(x, d, mps'[x][d], applied, forecast)
    BY <2>4, <2>7
  <2> QED
    BY <1>5, <2>1, <2>8, <2>9
<1>14. ASSUME NEW x \in Mixes, NEW g \in Families, NEW s \in Shares, CreateProductMixVersion(x, g, s) PROVE DemandInv'
  <2>1. [status |-> "DRAFT", family |-> g, lines |-> s] \in SOPProductMixVersion
    BY DEF SOPProductMixVersion, Lifecycle
  <2>2. DemandTypes'
    BY <1>1, <1>14, <2>1 DEF CreateProductMixVersion, DemandTypes
  <2>3. \A y \in Mixes : mix[y].status # "NONE" => mix'[y] = mix[y]
    BY <1>1, <1>14 DEF CreateProductMixVersion, DemandTypes
  <2> QED
    BY <1>4, <1>14, <2>2, <2>3 DEF CreateProductMixVersion
<1>15. ASSUME NEW x \in Mixes, ActivateProductMixVersion(x) PROVE DemandInv'
  <2> DEFINE rivals == {y \in Mixes : mix[y].family = mix[x].family}
  <2>1. mix' = Activating(mix, x, rivals) /\ mix[x].status = "DRAFT" /\ UNCHANGED <<forecast, supply, applied, orders, mps>>
    BY <1>15 DEF ActivateProductMixVersion
  <2>2. mix = [y \in Mixes |-> mix[y]]
    BY <1>1 DEF DemandTypes
  <2> HIDE DEF rivals
  <2>3. ASSUME NEW y \in Mixes
        PROVE  /\ mix' = [u \in Mixes |-> mix'[u]]
               /\ \/ mix'[y] = mix[y]
                  \/ mix[y].status # "NONE" /\ \E t \in {"ACTIVE", "ARCHIVED"} : mix'[y] = [mix[y] EXCEPT !.status = t]
    BY <2>1, <2>2, ActivationKeeps
  <2>4. ASSUME NEW y \in Mixes, mix[y].status # "NONE", NEW t \in {"ACTIVE", "ARCHIVED"}
        PROVE  LET h == [mix[y] EXCEPT !.status = t] IN h \in SOPProductMixVersion /\ h.status = t /\ h.lines = mix[y].lines
    <3>1. mix[y] \in SOPProductMixVersion
      BY <1>1, <2>4 DEF DemandTypes
    <3> QED
      BY <3>1 DEF SOPProductMixVersion, Lifecycle
  <2>5. DemandTypes'
    <3>1. ASSUME NEW y \in Mixes, mix'[y].status # "NONE" PROVE mix'[y] \in SOPProductMixVersion
      <4>1. CASE mix'[y] = mix[y]
        BY <1>1, <3>1, <4>1 DEF DemandTypes
      <4>2. CASE mix[y].status # "NONE" /\ \E t \in {"ACTIVE", "ARCHIVED"} : mix'[y] = [mix[y] EXCEPT !.status = t]
        BY <2>4, <4>2
      <4> QED
        BY <2>3, <4>1, <4>2
    <3>2. mix' = [u \in Mixes |-> mix'[u]]
      BY <2>3
    <3> QED
      BY <1>1, <2>1, <3>1, <3>2 DEF DemandTypes
  <2>6. ASSUME NEW y \in Mixes, mix[y].status # "NONE" PROVE mix'[y].status # "NONE" /\ mix'[y].lines = mix[y].lines
    <3>1. CASE mix'[y] = mix[y]
      BY <2>6, <3>1
    <3>2. CASE \E t \in {"ACTIVE", "ARCHIVED"} : mix'[y] = [mix[y] EXCEPT !.status = t]
      <4>1. PICK t \in {"ACTIVE", "ARCHIVED"} : mix'[y] = [mix[y] EXCEPT !.status = t]
        BY <3>2
      <4> QED
        BY <2>4, <2>6, <4>1
    <3> QED
      BY <2>3, <3>1, <3>2
  <2> QED
    BY <1>4, <2>1, <2>5, <2>6
<1>16. ASSUME NEW x \in Mixes, ApplyDisaggregationToMPS(x) PROVE DemandInv'
  <2> DEFINE plan == CalcSOPDisaggregation(supply[mix[x].family], mix[x].lines)
             made == [mix |-> x, supply |-> supply[mix[x].family], lines |-> plan]
  <2>1. /\ mix[x].status = "ACTIVE" /\ CoversReleased(plan) /\ applied' = Append(applied, made)
        /\ mps' = [p \in Products |-> [d \in MonthDates |->
                     IF p \in DOMAIN plan /\ d \in Periods
                     THEN [planned |-> plan[p][d], released |-> mps[p][d].released, basis |-> "SOP_DISAGGREGATION", source |-> Len(applied) + 1]
                     ELSE mps[p][d]]]
        /\ UNCHANGED <<forecast, mix, supply, orders>>
    BY <1>16 DEF ApplyDisaggregationToMPS
  <2>2. mix[x] \in SOPProductMixVersion
    BY <1>1, <2>1 DEF DemandTypes
  <2>3. mix[x].lines \in Shares /\ mix[x].family \in Families
    BY <2>2 DEF SOPProductMixVersion
  <2>4. supply[mix[x].family] \in Nat
    BY <1>1, <2>3 DEF DemandTypes
  <2>5. DOMAIN plan = DOMAIN mix[x].lines /\ DOMAIN plan \subseteq Products /\ plan = [p \in DOMAIN plan |-> plan[p]]
    BY <1>0, <2>3 DEF CalcSOPDisaggregation
  <2>6. ASSUME NEW p \in DOMAIN plan
        PROVE  plan[p] \in [Periods -> Int] /\ SumFunctionOnSet(plan[p], Periods) = Round(supply[mix[x].family] * mix[x].lines[p], 100)
    <3>1. mix[x].lines[p] \in Int
      BY <1>0, <2>3, <2>5
    <3>2. Round(supply[mix[x].family] * mix[x].lines[p], 100) \in Int
      BY <2>4, <3>1 DEF Round
    <3>3. plan[p] = Phased(Round(supply[mix[x].family] * mix[x].lines[p], 100))
      BY <2>5 DEF CalcSOPDisaggregation
    <3> QED
      BY <3>2, <3>3, PhasedAddsUp
  <2> HIDE DEF plan
  <2>7. plan \in UNION {[D -> [Periods -> Int]] : D \in SUBSET Products}
    BY <2>5, <2>6
  <2>8. made \in Disaggregation
    BY <2>4, <2>7 DEF Disaggregation
  <2>9. /\ applied \in Seq(Disaggregation) /\ applied' \in Seq(Disaggregation) /\ Len(applied) \in Nat /\ Len(applied') = Len(applied) + 1
        /\ applied'[Len(applied) + 1] = made /\ \A k \in 1..Len(applied) : applied'[k] = applied[k]
    <3>1. applied \in Seq(Disaggregation)
      BY <1>1 DEF DemandTypes
    <3> HIDE DEF made
    <3> QED
      BY <2>1, <2>8, <3>1
  <2>10. ASSUME NEW p \in Products, NEW d \in MonthDates PROVE mps'[p][d] \in MPSEntry /\ Traced(p, d, mps'[p][d], applied', forecast')
    <3>1. mps[p][d] \in MPSEntry
      BY <1>1 DEF DemandTypes
    <3>2. CASE p \in DOMAIN plan /\ d \in Periods
      <4>1. mps'[p][d] = [planned |-> plan[p][d], released |-> mps[p][d].released, basis |-> "SOP_DISAGGREGATION", source |-> Len(applied) + 1]
        BY <2>1, <3>2
      <4>2. plan[p][d] \in Int /\ mps[p][d].released <= plan[p][d]
        BY <2>1, <2>6, <3>2 DEF CoversReleased
      <4>3. applied'[Len(applied) + 1].lines = plan
        BY <2>9
      <4>4. Len(applied) + 1 \in 1..Len(applied') /\ Len(applied) + 1 \in Nat
        BY <2>9
      <4> QED
        BY <3>1, <3>2, <4>1, <4>2, <4>3, <4>4 DEF MPSEntry, Traced
    <3>3. CASE ~(p \in DOMAIN plan /\ d \in Periods)
      <4>1. mps'[p][d] = mps[p][d]
        BY <2>1, <3>3
      <4>2. Traced(p, d, mps[p][d], applied, forecast) /\ Len(applied') >= Len(applied)
        BY <1>2, <2>9
      <4>3. Traced(p, d, mps[p][d], applied', forecast)
        BY <2>9, <4>2, StaysTraced
      <4> QED
        BY <2>1, <3>1, <4>1, <4>3
    <3> QED
      BY <3>2, <3>3
  <2>11. ASSUME NEW k \in 1..Len(applied') PROVE SharesOut(applied'[k], mix')
    <3>1. CASE k \in 1..Len(applied)
      BY <1>2, <2>1, <2>9, <3>1
    <3>2. CASE k = Len(applied) + 1
      <4>1. applied'[k].mix = x /\ applied'[k].supply = supply[mix[x].family] /\ applied'[k].lines = plan
        BY <2>9, <3>2
      <4> QED
        BY <2>1, <2>6, <4>1 DEF SharesOut
    <3> QED
      BY <2>9, <3>1, <3>2
  <2>12. mps' \in [Products -> [MonthDates -> MPSEntry]]
    <3>1. mps' = [p \in Products |-> mps'[p]] /\ \A p \in Products : mps'[p] = [d \in MonthDates |-> mps'[p][d]]
      BY <2>1
    <3> QED
      BY <2>10, <3>1
  <2>13. DemandTypes'
    BY <1>1, <2>1, <2>9, <2>12 DEF DemandTypes
  <2> QED
    BY <2>10, <2>11, <2>13 DEF DemandInv
<1>17. ASSUME NEW g \in Families, NEW q \in Amounts, UpsertPlan(g, q) PROVE DemandInv'
  <2>1. DemandTypes'
    BY <1>0, <1>1, <1>17 DEF UpsertPlan, DemandTypes
  <2> QED
    BY <1>5, <1>17, <2>1 DEF UpsertPlan
<1>18. ASSUME NEW p \in Products, NEW d \in MonthDates, NEW q \in Amounts, OrdersChange(p, d, q) PROVE DemandInv'
  <2>1. DemandTypes'
    BY <1>0, <1>1, <1>18 DEF OrdersChange, DemandTypes
  <2> QED
    BY <1>5, <1>18, <2>1 DEF OrdersChange
<1>19. ASSUME NEW p \in Products, NEW d \in MonthDates, NEW q \in Amounts, NEW r \in Amounts, UpsertMPS(p, d, q, r) PROVE DemandInv'
  <2> DEFINE entry == [planned |-> q, released |-> r, basis |-> "MANUAL", source |-> NoSource]
  <2>1. entry \in MPSEntry /\ Traced(p, d, entry, applied, forecast)
    BY <1>0 DEF MPSEntry, NoSource, Traced
  <2>2. mps' = [mps EXCEPT ![p][d] = entry] /\ UNCHANGED <<forecast, mix, supply, applied, orders>>
    BY <1>19 DEF UpsertMPS
  <2> HIDE DEF entry
  <2>3. DemandTypes'
    BY <1>1, <2>1, <2>2 DEF DemandTypes
  <2>4. \A x \in Products, e \in MonthDates : mps'[x][e] = IF x = p /\ e = d THEN entry ELSE mps[x][e]
    BY <1>1, <2>2 DEF DemandTypes
  <2> QED
    BY <1>5, <2>1, <2>2, <2>3, <2>4
<1>20. CASE UNCHANGED demandVars
  BY <1>20 DEF demandVars, DemandInv, DemandTypes
<1> QED
  BY <1>11, <1>12, <1>13, <1>14, <1>15, <1>16, <1>17, <1>18, <1>19, <1>20 DEF DemandNext

\* Entries, versions and orders keep what their tables hold, through every overwriting of one writer by another
\* (mps_entries, forecast_runs, sop_product_mix_versions).
THEOREM DemandTypesCorrect == DemandSpec => []DemandTypeOK
<1>1. DemandInv => DemandTypeOK
  BY DEF DemandInv, DemandTypes, DemandTypeOK
<1> QED
  BY <1>1, DemandInitHolds, DemandStep, PTL DEF DemandSpec

\* Every entry of the master schedule can be traced to what it names as its source, and no disaggregation loses or
\* adds a unit in rounding (ApplyDisaggregationToMPS, CalcSOPDisaggregation, ApplyConsumptionToMPS).
THEOREM EntriesAreTraced == DemandSpec => []EntriesTraceToSource
<1>1. DemandInv => EntriesTraceToSource
  BY DEF DemandInv, Traced, SharesOut, EntriesTraceToSource
<1> QED
  BY <1>1, DemandInitHolds, DemandStep, PTL DEF DemandSpec

-----------------------------------------------------------------------------
(* Types of the bill of material.                                          *)
BOMs == UNION {[D -> Quantities] : D \in SUBSET (Items \X Items)}
BOMTypes == bom \in BOMs /\ BOMTypeOK

LEMMA BOMsAre ==
    ASSUME NEW b
    PROVE  b \in BOMs <=> b = [e \in DOMAIN b |-> b[e]] /\ DOMAIN b \subseteq Items \X Items /\ \A e \in DOMAIN b : b[e] \in Quantities
<1>1. ASSUME b \in BOMs
      PROVE  b = [e \in DOMAIN b |-> b[e]] /\ DOMAIN b \subseteq Items \X Items /\ \A e \in DOMAIN b : b[e] \in Quantities
  <2>1. PICK D \in SUBSET (Items \X Items) : b \in [D -> Quantities]
    BY <1>1 DEF BOMs
  <2> QED
    BY <2>1
<1>2. ASSUME b = [e \in DOMAIN b |-> b[e]], DOMAIN b \subseteq Items \X Items, \A e \in DOMAIN b : b[e] \in Quantities
      PROVE  b \in BOMs
  <2>1. b \in [DOMAIN b -> Quantities]
    BY <1>2
  <2> QED
    BY <1>2, <2>1 DEF BOMs
<1> QED
  BY <1>1, <1>2

LEMMA EdgesChange ==
    ASSUME NEW b \in BOMs, NEW e \in Items \X Items
    PROVE  /\ Without(b, e) \in BOMs
           /\ \A q \in Quantities : With(b, e, q) \in BOMs
<1>1. DOMAIN b \subseteq Items \X Items /\ \A x \in DOMAIN b : b[x] \in Quantities
  BY BOMsAre
<1>2. Without(b, e) \in BOMs
  <2> DEFINE D == DOMAIN b \ {e}
             n == [x \in D |-> b[x]]
  <2>1. DOMAIN n = D /\ D \subseteq Items \X Items /\ (\A x \in D : n[x] \in Quantities) /\ n = [x \in DOMAIN n |-> n[x]]
    BY <1>1
  <2>2. Without(b, e) = n
    BY DEF Without
  <2> HIDE DEF n, D
  <2> QED
    BY <2>1, <2>2, BOMsAre
<1>3. ASSUME NEW q \in Quantities PROVE With(b, e, q) \in BOMs
  <2> DEFINE D == DOMAIN b \cup {e}
             n == [x \in D |-> IF x = e THEN q ELSE b[x]]
  <2>1. DOMAIN n = D /\ D \subseteq Items \X Items /\ (\A x \in D : n[x] \in Quantities) /\ n = [x \in DOMAIN n |-> n[x]]
    BY <1>1
  <2>2. With(b, e, q) = n
    BY DEF With
  <2> HIDE DEF n, D
  <2> QED
    BY <2>1, <2>2, BOMsAre
<1> QED
  BY <1>2, <1>3

LEMMA LinesKeepType ==
    ASSUME bom \in BOMs, NEW lines \in Seq(ECOComponent)
    PROVE  AfterLines(lines)[Len(lines)] \in BOMs
<1> DEFINE N == Len(lines)
           Is(f) == f = [n \in 0..N |-> IF n = 0 THEN bom ELSE Applied(f[n - 1], lines[n])]
           step == [n \in 1..N |-> [b \in BOMs |-> Applied(b, lines[n])]]
           after == CHOOSE f : Is(f)
<1>1. N \in Nat /\ \A n \in 1..N : lines[n] \in ECOComponent
  OBVIOUS
<1>2. \A n \in 1..N : \A b \in BOMs : Applied(b, lines[n]) \in BOMs
  <2> SUFFICES ASSUME NEW n \in 1..N, NEW b \in BOMs PROVE Applied(b, lines[n]) \in BOMs
    OBVIOUS
  <2>1. lines[n].edge \in Items \X Items /\ lines[n].quantity \in Quantities
    BY <1>1 DEF ECOComponent
  <2> QED
    BY <2>1, EdgesChange DEF Applied
<1>3. step \in [1..N -> [BOMs -> BOMs]] /\ \A n \in 1..N : \A b \in BOMs : step[n][b] = Applied(b, lines[n])
  BY <1>2
<1>4. AfterLines(lines) = after
  BY DEF AfterLines
<1> HIDE DEF step, N
<1>5. PICK f \in [0..N -> BOMs] : f[0] = bom /\ \A k \in 1..N : f[k] = step[k][f[k - 1]]
  <2>1. bom \in BOMs /\ N \in Nat /\ step \in [1..N -> [BOMs -> BOMs]]
    BY <1>1, <1>3
  <2> HIDE DEF Is
  <2>2. \E f \in [0..N -> BOMs] : Recursion(f, N, bom, step)
    BY <2>1, RecursionExists
  <2> QED
    BY <2>2 DEF Recursion
<1>6. \A k \in 1..N : f[k] = Applied(f[k - 1], lines[k])
  <2> TAKE k \in 1..N
  <2>1. k - 1 \in 0..N
    BY <1>1
  <2> QED
    BY <1>3, <1>5, <2>1
<1>7. Is(f)
  <2>1. \A n \in 0..N : n = 0 \/ n \in 1..N
    BY <1>1
  <2> QED
    BY <1>5, <1>6, <2>1
<1>8. Is(after)
  BY <1>7
<1> HIDE DEF after
<1> DEFINE P == {n \in 0..N : after[n] \in BOMs}
<1>9. 0 \in P
  BY <1>1, <1>8
<1>10. ASSUME NEW k \in 1..N, k - 1 \in P PROVE k \in P
  <2>1. k \in 0..N /\ k # 0 /\ after[k - 1] \in BOMs
    BY <1>1, <1>10
  <2>2. after[k] = Applied(after[k - 1], lines[k])
    BY <1>8, <2>1
  <2> QED
    BY <1>2, <2>1, <2>2
<1>11. 0..N \subseteq P
  <2> HIDE DEF P
  <2> QED
    BY <1>1, <1>9, <1>10, NumbersInduct
<1>12. N \in P
  BY <1>1, <1>11
<1> QED
  BY <1>4, <1>12 DEF N

LEMMA CodesAreNumbers == ASSUME NEW edges PROVE LowLevelCodes(edges) \in [Items -> Nat]
<1>1. Cardinality(Items) \in Nat
  BY BillOfMaterialsAssumption, FS_CardinalityType
<1>2. PICK pass : ArePasses(edges, Cardinality(Items), pass) /\ LowLevelCodes(edges) = pass[Cardinality(Items)]
  BY <1>1, PassesAre DEF LowLevelCodes
<1>3. \A k \in 0..Cardinality(Items) : pass[k] \in [Items -> Nat]
  BY <1>1, <1>2, PassesRise
<1> QED
  BY <1>1, <1>2, <1>3

LEMMA BOMTypesInit == BOMInit => BOMTypes
<1> SUFFICES ASSUME BOMInit PROVE BOMTypes
  OBVIOUS
<1>1. PICK D \in {E \in SUBSET {e \in Items \X Items : e[1] # e[2]} : Acyclic(E)} : bom \in [D -> Quantities]
  BY DEF BOMInit
<1>2. bom \in BOMs
  <2>1. D \in SUBSET (Items \X Items)
    BY <1>1
  <2> QED
    BY <1>1, <2>1 DEF BOMs
<1>3. llc \in [Items -> Nat]
  BY CodesAreNumbers DEF BOMInit
<1>4. eco \in [Changes -> EngineeringChange] /\ today \in 0..LastDay
  BY BillOfMaterialsAssumption DEF BOMInit, EngineeringChange
<1> QED
  BY <1>2, <1>3, <1>4, BOMsAre DEF BOMTypes, BOMTypeOK

LEMMA BOMTypesStep ==
    ASSUME BOMTypes, [BOMNext]_bomVars
    PROVE  BOMTypes'
<1> USE DEF BOMTypes, BOMTypeOK
<1>1. ASSUME NEW b \in BOMs, Commit(b), UNCHANGED today, eco' \in [Changes -> EngineeringChange] PROVE BOMTypes'
  BY <1>1, CodesAreNumbers, BOMsAre DEF Commit
<1>2. ASSUME UNCHANGED <<bom, llc>>, eco' \in [Changes -> EngineeringChange], today' \in 0..LastDay PROVE BOMTypes'
  BY <1>2
<1>3. ASSUME NEW p \in Items, NEW c \in Items, NEW q \in Quantities, AddComponent(p, c, q) PROVE BOMTypes'
  <2>1. <<p, c>> \in Items \X Items /\ Commit(With(bom, <<p, c>>, q)) /\ UNCHANGED <<eco, today>>
    BY <1>3 DEF AddComponent
  <2> QED
    BY <1>1, <2>1, EdgesChange
<1>4. ASSUME NEW e \in DOMAIN bom, DeleteComponent(e) PROVE BOMTypes'
  <2>1. e \in Items \X Items /\ Commit(Without(bom, e)) /\ UNCHANGED <<eco, today>>
    BY <1>4 DEF DeleteComponent
  <2> QED
    BY <1>1, <2>1, EdgesChange
<1>5. ASSUME RecomputeLLC PROVE BOMTypes'
  BY <1>5, CodesAreNumbers DEF RecomputeLLC
<1>6. ASSUME NEW e \in Changes, NEW x \in EngineeringChange, eco' = [eco EXCEPT ![e] = x], UNCHANGED <<bom, llc, today>> PROVE BOMTypes'
  <2>1. eco' \in [Changes -> EngineeringChange]
    BY <1>6
  <2> QED
    BY <1>2, <1>6, <2>1
<1>7. ASSUME NEW e \in Changes, NEW s \in {"APPROVED", "APPLIED", "CANCELLED"}
      PROVE  [eco EXCEPT ![e].status = s] \in [Changes -> EngineeringChange]
  <2>1. eco[e] \in EngineeringChange
    OBVIOUS
  <2>2. [eco[e] EXCEPT !.status = s] \in EngineeringChange
    BY <2>1 DEF EngineeringChange
  <2> QED
    BY <2>2
<1>8. ASSUME NEW e \in Changes, NEW d \in 0..LastDay, CreateECO(e, d) PROVE BOMTypes'
  <2>1. [status |-> "DRAFT", effective |-> d, lines |-> <<>>] \in EngineeringChange
    BY DEF EngineeringChange
  <2> QED
    BY <1>6, <1>8, <2>1 DEF CreateECO
<1>9. ASSUME NEW e \in Changes, Approve(e) \/ Cancel(e) PROVE BOMTypes'
  BY <1>2, <1>7, <1>9 DEF Approve, Cancel
<1>10. ASSUME NEW e \in Changes, Apply(e) PROVE BOMTypes'
  <2>1. eco[e].lines \in Seq(ECOComponent)
    BY DEF EngineeringChange
  <2>2. AfterLines(eco[e].lines)[Len(eco[e].lines)] \in BOMs
    BY <2>1, LinesKeepType
  <2>3. Commit(AfterLines(eco[e].lines)[Len(eco[e].lines)]) /\ UNCHANGED today /\ eco' = [eco EXCEPT ![e].status = "APPLIED"]
    BY <1>10 DEF Apply
  <2> QED
    BY <1>1, <1>7, <2>2, <2>3
<1>11. ASSUME NEW e \in Changes, NEW line \in ECOComponent, NEW k \in 1..Len(eco[e].lines) + 1, AddECOComponent(e, k, line) PROVE BOMTypes'
  <2> DEFINE old == eco[e].lines
             added == InsertAt(old, k, line)
             x == [eco[e] EXCEPT !.lines = added]
  <2>1. eco[e] \in EngineeringChange /\ old \in Seq(ECOComponent)
    BY DEF EngineeringChange
  <2>2. added \in Seq(ECOComponent)
    <3>1. SubSeq(old, 1, k - 1) \in Seq(ECOComponent) /\ SubSeq(old, k, Len(old)) \in Seq(ECOComponent)
      <4>1. old \in Seq(ECOComponent) /\ k \in 1..Len(old) + 1
        BY <2>1
      <4> HIDE DEF old
      <4> QED
        BY <4>1
    <3> HIDE DEF old
    <3> QED
      BY <3>1 DEF InsertAt
  <2> HIDE DEF added
  <2>3. x \in EngineeringChange
    BY <2>1, <2>2 DEF EngineeringChange
  <2>4. eco' = [eco EXCEPT ![e] = x] /\ UNCHANGED <<bom, llc, today>>
    BY <1>11 DEF AddECOComponent, added
  <2> HIDE DEF x
  <2> QED
    BY <1>6, <2>3, <2>4
<1>12. ASSUME NextDay PROVE BOMTypes'
  BY <1>2, <1>12, BillOfMaterialsAssumption DEF NextDay
<1>13. CASE UNCHANGED bomVars
  BY <1>2, <1>13 DEF bomVars
<1> QED
  BY <1>3, <1>4, <1>5, <1>8, <1>9, <1>10, <1>11, <1>12, <1>13 DEF BOMNext

\* Bills, codes and engineering changes keep their types, through any lines a change may hold.
THEOREM BOMTypesCorrect == BOMSpec => []BOMTypeOK
<1>1. BOMTypes => BOMTypeOK
  BY DEF BOMTypes
<1> QED
  BY <1>1, BOMTypesInit, BOMTypesStep, PTL DEF BOMSpec

-----------------------------------------------------------------------------
(* Netting.                                                                *)
LEMMA MaxOfTwo == ASSUME NEW a \in Int, NEW b \in Int PROVE Max({a, b}) = IF a < b THEN b ELSE a
<1>1. ASSUME NEW x \in {a, b}, \A y \in {a, b} : x >= y PROVE Max({a, b}) = x
  <2>1. Max({a, b}) \in {a, b} /\ \A y \in {a, b} : Max({a, b}) >= y
    BY <1>1 DEF Max
  <2> QED
    BY <1>1, <2>1
<1> QED
  BY <1>1

LEMMA Division ==
    ASSUME NEW x \in Nat, NEW m \in Nat, m > 0
    PROVE  x \div m \in Int /\ x % m \in Int /\ x = m * (x \div m) + (x % m) /\ 0 <= x % m /\ x % m < m
OBVIOUS

LEMMA RoundsUp ==
    ASSUME NEW x \in Nat, NEW m \in Nat
    PROVE  /\ RoundUpToMultiple(x, m) \in Nat /\ RoundUpToMultiple(x, m) >= x
           /\ m > 0 => RoundUpToMultiple(x, m) < x + m
           /\ m = 0 => RoundUpToMultiple(x, m) = x
<1>1. CASE m = 0
  BY <1>1 DEF RoundUpToMultiple
<1>2. CASE m > 0
  <2> DEFINE n == x \div m
             rest == x % m
             up == (n + 1) * m
  <2>1. n \in Int /\ rest \in Int /\ x = m * n + rest /\ 0 <= rest /\ rest < m
    BY <1>2, Division
  <2>2. up = m * n + m /\ m * n \in Int
    BY <2>1
  <2>3. RoundUpToMultiple(x, m) = IF rest = 0 THEN x ELSE up
    BY <1>2 DEF RoundUpToMultiple
  <2> HIDE DEF n, rest, up
  <2> QED
    BY <1>2, <2>1, <2>2, <2>3
<1> QED
  BY <1>1, <1>2

\* A lot covers what is called for, by less than one lot size more.
LEMMA LotCovers ==
    ASSUME NEW i \in Items, NEW net \in Int
    PROVE  /\ ApplyLotSize(i, net) \in Nat
           /\ net <= 0 => ApplyLotSize(i, net) = 0
           /\ net > 0 => ApplyLotSize(i, net) >= net /\ ApplyLotSize(i, net) < net + LotOf(i)
<1>1. Master[i] \in ItemMaster
  BY MaterialPlanningAssumption
<1>2. Master[i].lot \in Nat /\ Master[i].eoq \in Nat
  BY <1>1 DEF ItemMaster
<1>3. CASE net <= 0
  BY <1>3 DEF ApplyLotSize
<1>4. CASE net > 0 /\ Master[i].method = "FOQ"
  <2>1. Max({Master[i].lot, 1}) \in Nat /\ Max({Master[i].lot, 1}) > 0
    <3> DEFINE m == Master[i].lot
    <3>1. m \in Nat
      BY <1>2
    <3> HIDE DEF m
    <3>2. Max({m, 1}) = IF m < 1 THEN 1 ELSE m
      BY <3>1, MaxOfTwo
    <3> QED
      BY <3>1, <3>2 DEF m
  <2> QED
    BY <1>4, <2>1, RoundsUp DEF ApplyLotSize, LotOf
<1>5. CASE net > 0 /\ Master[i].method = "EOQ"
  <2>1. Max({Master[i].eoq, 1}) = IF Master[i].eoq = 0 THEN 1 ELSE Master[i].eoq
    <3> DEFINE k == Master[i].eoq
    <3>1. k \in Nat
      BY <1>2
    <3> HIDE DEF k
    <3>2. Max({k, 1}) = IF k < 1 THEN 1 ELSE k
      BY <3>1, MaxOfTwo
    <3> QED
      BY <3>1, <3>2 DEF k
  <2>2. LotOf(i) = Max({Master[i].eoq, 1}) /\ ApplyLotSize(i, net) = RoundUpToMultiple(net, Master[i].eoq)
    BY <1>5 DEF ApplyLotSize, LotOf
  <2> DEFINE m == Master[i].eoq
             lot == RoundUpToMultiple(net, m)
  <2>3. m \in Nat /\ net \in Nat
    BY <1>2, <1>5
  <2> HIDE DEF m
  <2>4. lot \in Nat /\ lot >= net /\ (m > 0 => lot < net + m) /\ (m = 0 => lot = net)
    BY <2>3, RoundsUp
  <2> HIDE DEF lot
  <2>5. lot < net + LotOf(i)
    BY <2>1, <2>2, <2>3, <2>4 DEF m
  <2> QED
    BY <1>5, <2>2, <2>4, <2>5 DEF lot, m
<1>6. CASE net > 0 /\ Master[i].method # "FOQ" /\ Master[i].method # "EOQ"
  BY <1>6 DEF ApplyLotSize, LotOf
<1> QED
  BY <1>3, <1>4, <1>5, <1>6

LEMMA UpToGrows ==
    ASSUME NEW f, \A d \in Dates : f[d] \in Int
    PROVE  /\ UpTo(f, -1) = 0
           /\ \A d \in Dates : UpTo(f, d) = UpTo(f, d - 1) + f[d] /\ UpTo(f, d) \in Int /\ UpTo(f, d - 1) \in Int
<1>0. Horizon \in Nat \ {0}
  BY MaterialPlanningAssumption
<1>1. UpTo(f, -1) = 0
  <2>1. 0..-1 = {} /\ IsFiniteSet({})
    BY FS_EmptySet
  <2>2. SumFunctionOnSet(f, {}) = 0
    BY <2>1, SumFirst
  <2> QED
    BY <2>1, <2>2 DEF UpTo
<1>2. ASSUME NEW d \in Dates PROVE UpTo(f, d) = UpTo(f, d - 1) + f[d] /\ UpTo(f, d) \in Int /\ UpTo(f, d - 1) \in Int
  <2> DEFINE A == 0..(d - 1)
             B == 0..d
  <2>1. d \in Int /\ IsFiniteSet(A) /\ IsFiniteSet(B)
    BY <1>0, FS_Interval DEF Dates
  <2>2. B = A \union {d} /\ d \notin A /\ \A e \in B : f[e] \in Int
    BY <1>0 DEF Dates
  <2> HIDE DEF A, B
  <2>3. SumFunctionOnSet(f, A \union {d}) = SumFunctionOnSet(f, A) + f[d]
    BY <2>1, <2>2, SumInsert
  <2>4. SumFunctionOnSet(f, A) \in Int /\ SumFunctionOnSet(f, B) \in Int
    BY <2>1, <2>2, SumType
  <2> QED
    BY <2>2, <2>3, <2>4 DEF UpTo, A, B
<1> QED
  BY <1>1, <1>2

\* The days of netting, one after the other.
Netting == [balance : Int, receipt : Nat]
NetDay(i, g, s, stock, d, last) ==
    LET before == last.balance + s[d] - g[d]
        receipt == IF IsBucket(i, g, s, stock, d) THEN ApplyLotSize(i, NetRequirement(i, before)) ELSE 0
    IN [balance |-> before + receipt, receipt |-> receipt]
AreNetted(i, g, s, stock, net) ==
    /\ net[-1] = [balance |-> stock, receipt |-> 0]
    /\ \A d \in Dates : net[d] = NetDay(i, g, s, stock, d, net[d - 1])

LEMMA NettingDays ==
    ASSUME NEW i \in Items, NEW g \in [Dates -> Nat], NEW s \in [Dates -> Nat], NEW stock \in Int
    PROVE  \E net : AreNetted(i, g, s, stock, net) /\ Netted(i, g, s, stock) = [d \in Dates |-> net[d].receipt]
<1> DEFINE Is(f) == f = [d \in -1..(Horizon - 1) |-> IF d = -1 THEN [balance |-> stock, receipt |-> 0]
                                                  ELSE LET before == f[d - 1].balance + s[d] - g[d]
                                                           receipt == IF IsBucket(i, g, s, stock, d) THEN ApplyLotSize(i, NetRequirement(i, before)) ELSE 0
                                                       IN [balance |-> before + receipt, receipt |-> receipt]]
           net == CHOOSE f : Is(f)
           first == [balance |-> stock, receipt |-> 0]
           step == [k \in 1..Horizon |-> [x \in Netting |-> NetDay(i, g, s, stock, k - 1, x)]]
<1>1. Netted(i, g, s, stock) = [d \in Dates |-> net[d].receipt]
  BY DEF Netted
<1>2. Horizon \in Nat \ {0} /\ Master[i] \in ItemMaster /\ Policy[i] \in EffectivePolicy
  BY MaterialPlanningAssumption
<1>3. \A before \in Int : NetRequirement(i, before) \in Int
  BY <1>2 DEF NetRequirement, EffectivePolicy
<1>4. \A d \in Dates : \A x \in Netting : NetDay(i, g, s, stock, d, x) \in Netting
  <2> SUFFICES ASSUME NEW d \in Dates, NEW x \in Netting PROVE NetDay(i, g, s, stock, d, x) \in Netting
    OBVIOUS
  <2> DEFINE before == x.balance + s[d] - g[d]
  <2>1. before \in Int
    BY DEF Netting
  <2> HIDE DEF before
  <2>2. ApplyLotSize(i, NetRequirement(i, before)) \in Nat
    BY <1>3, <2>1, LotCovers
  <2>3. NetDay(i, g, s, stock, d, x) = LET receipt == IF IsBucket(i, g, s, stock, d) THEN ApplyLotSize(i, NetRequirement(i, before)) ELSE 0
                                         IN [balance |-> before + receipt, receipt |-> receipt]
    BY DEF NetDay, before
  <2> QED
    BY <2>1, <2>2, <2>3 DEF Netting
<1>5. first \in Netting /\ Horizon \in Nat /\ step \in [1..Horizon -> [Netting -> Netting]]
  <2>1. \A k \in 1..Horizon : k - 1 \in Dates
    BY <1>2 DEF Dates
  <2> QED
    BY <1>2, <1>4, <2>1 DEF Netting
<1> HIDE DEF Is, net
<1>6. PICK f \in [0..Horizon -> Netting] : Recursion(f, Horizon, first, step)
  <2> HIDE DEF first, step
  <2> QED
    BY <1>5, RecursionExists
<1> DEFINE h == [d \in -1..(Horizon - 1) |-> f[d + 1]]
<1>7. h[-1] = first /\ \A d \in Dates : h[d] = NetDay(i, g, s, stock, d, h[d - 1])
  <2>1. h[-1] = f[0]
    BY <1>2
  <2>2. ASSUME NEW d \in Dates PROVE h[d] = NetDay(i, g, s, stock, d, h[d - 1])
    <3>1. d + 1 \in 1..Horizon /\ (d + 1) - 1 = d /\ d \in 0..Horizon /\ d \in -1..(Horizon - 1) /\ d - 1 \in -1..(Horizon - 1) /\ (d - 1) + 1 = d
      BY <1>2 DEF Dates
    <3>2. h[d] = f[d + 1] /\ h[d - 1] = f[d] /\ f[d] \in Netting
      BY <3>1
    <3>3. f[d + 1] = step[d + 1][f[d]]
      BY <1>6, <3>1 DEF Recursion
    <3>4. step[d + 1][f[d]] = NetDay(i, g, s, stock, d, f[d])
      BY <3>1, <3>2
    <3> QED
      BY <3>2, <3>3, <3>4
  <2> QED
    BY <1>6, <2>1, <2>2 DEF Recursion
<1>8. Is(h)
  <2>1. h = [d \in -1..(Horizon - 1) |-> h[d]]
    OBVIOUS
  <2>2. \A d \in -1..(Horizon - 1) : d = -1 \/ (d # -1 /\ d \in Dates)
    BY <1>2 DEF Dates
  <2> HIDE DEF h
  <2>3. h = [d \in -1..(Horizon - 1) |-> IF d = -1 THEN first ELSE NetDay(i, g, s, stock, d, h[d - 1])]
    <3>1. \A d \in -1..(Horizon - 1) : h[d] = IF d = -1 THEN first ELSE NetDay(i, g, s, stock, d, h[d - 1])
      BY <1>7, <2>2
    <3> HIDE DEF first
    <3> QED
      BY <2>1, <3>1
  <2> QED
    BY <2>3 DEF Is, NetDay
<1>9. Is(net)
  BY <1>8 DEF net
<1>10. AreNetted(i, g, s, stock, net)
  <2>1. -1 \in -1..(Horizon - 1) /\ \A d \in Dates : d # -1 /\ d \in -1..(Horizon - 1)
    BY <1>2 DEF Dates
  <2>2. net[-1] = first
    BY <1>9, <2>1 DEF Is
  <2>3. \A d \in Dates : net[d] = NetDay(i, g, s, stock, d, net[d - 1])
    BY <1>9, <2>1 DEF Is, NetDay
  <2> QED
    BY <2>2, <2>3 DEF AreNetted
<1> QED
  BY <1>1, <1>10

\* Netting keeps every balance at the policy of the item, with no lot that is not called for.
LEMMA NettingHolds ==
    ASSUME NEW i \in Items, NEW g \in [Dates -> Nat], NEW s \in [Dates -> Nat], NEW stock \in Int
    PROVE  LET r == Netted(i, g, s, stock)
               balance(d) == stock + UpTo(s, d) + UpTo(r, d) - UpTo(g, d)
           IN /\ r \in [Dates -> Nat]
              /\ \A d \in Dates : balance(d) >= Floor(i) /\ (r[d] > 0 => balance(d) - LotOf(i) < Ceiling(i))
<1> DEFINE r == Netted(i, g, s, stock)
           balance(d) == stock + UpTo(s, d) + UpTo(r, d) - UpTo(g, d)
<1>1. Horizon \in Nat \ {0} /\ Policy[i] \in EffectivePolicy /\ Policy[i].reorder <= Policy[i].max
  BY MaterialPlanningAssumption
<1>2. PICK net : AreNetted(i, g, s, stock, net) /\ r = [d \in Dates |-> net[d].receipt]
  BY NettingDays
<1>3. /\ Floor(i) \in Int /\ Ceiling(i) \in Int /\ Floor(i) <= Ceiling(i)
      /\ \A x \in Int : NetRequirement(i, x) \in Int /\ (NetRequirement(i, x) <= 0 => x >= Floor(i))
                        /\ (NetRequirement(i, x) > 0 => NetRequirement(i, x) = Ceiling(i) - x)
  BY <1>1 DEF Floor, Ceiling, NetRequirement, EffectivePolicy
<1>4. LotOf(i) \in Int
  <2>1. Master[i] \in ItemMaster
    BY MaterialPlanningAssumption
  <2>2. Master[i].lot \in Nat /\ Master[i].eoq \in Nat
    BY <2>1 DEF ItemMaster
  <2>3. Max({Master[i].lot, 1}) \in Int /\ Max({Master[i].eoq, 1}) \in Int
    BY <2>2, MaxOfTwo
  <2> QED
    BY <2>3 DEF LotOf
<1> DEFINE Kept(d) == /\ net[d] \in Netting /\ (d \in Dates => r[d] = net[d].receipt)
                      /\ d = -1 => net[d].balance = stock
                      /\ d \in Dates => net[d].balance >= Floor(i) /\ (net[d].receipt > 0 => net[d].balance - LotOf(i) < Ceiling(i))
           P == {k \in 0..Horizon : Kept(k - 1)}
<1>5. 0 \in P
  <2>1. net[-1] = [balance |-> stock, receipt |-> 0] /\ -1 \notin Dates
    BY <1>2 DEF AreNetted, Dates
  <2>2. Kept(0 - 1)
    BY <2>1 DEF Netting
  <2> HIDE DEF Kept
  <2> QED
    BY <1>1, <2>2
<1>6. ASSUME NEW k \in 1..Horizon, k - 1 \in P PROVE k \in P
  <2> DEFINE d == k - 1
             last == net[d - 1]
             before == last.balance + s[d] - g[d]
             need == NetRequirement(i, before)
             lot == ApplyLotSize(i, need)
  <2>1. k \in 0..Horizon /\ d \in Dates /\ d \in Int /\ d # -1
    BY <1>1 DEF Dates
  <2>2. Kept(d - 1)
    BY <1>6
  <2>3. last \in Netting /\ s[d] \in Nat /\ g[d] \in Nat
    BY <2>1, <2>2
  <2>4. last.balance \in Int /\ before \in Int
    BY <2>3 DEF Netting
  <2>5. r[d] = net[d].receipt
    BY <1>2, <2>1
  <2>6. net[d] = NetDay(i, g, s, stock, d, last)
    BY <1>2, <2>1 DEF AreNetted
  <2>7. d - 1 \in Dates \/ (d - 1 = -1 /\ d = 0)
    <3>1. \A x \in Dates : x - 1 \in Dates \/ (x - 1 = -1 /\ x = 0)
      BY <1>1 DEF Dates
    <3> HIDE DEF d
    <3> QED
      BY <2>1, <3>1
  <2> HIDE DEF Kept, P
  <2>8. net[d] = LET receipt == IF IsBucket(i, g, s, stock, d) THEN lot ELSE 0 IN [balance |-> before + receipt, receipt |-> receipt]
    BY <2>6 DEF NetDay
  <2> HIDE DEF last, before
  <2>9. need \in Int /\ (need <= 0 => before >= Floor(i)) /\ (need > 0 => need = Ceiling(i) - before)
    BY <1>3, <2>4
  <2> HIDE DEF need
  <2>10. lot \in Nat /\ (need <= 0 => lot = 0) /\ (need > 0 => lot >= need /\ lot < need + LotOf(i))
    BY <2>9, LotCovers
  <2> HIDE DEF lot
  <2>11. CASE IsBucket(i, g, s, stock, d)
    <3>1. net[d] = [balance |-> before + lot, receipt |-> lot]
      BY <2>8, <2>11
    <3>2. net[d].balance = before + lot /\ net[d].receipt = lot /\ net[d] \in Netting
      BY <2>4, <2>10, <3>1 DEF Netting
    <3>3. net[d].balance >= Floor(i) /\ (net[d].receipt > 0 => net[d].balance - LotOf(i) < Ceiling(i))
      BY <1>3, <1>4, <2>4, <2>9, <2>10, <3>2
    <3> QED
      BY <2>1, <2>5, <3>2, <3>3 DEF Kept, P
  <2>12. CASE ~IsBucket(i, g, s, stock, d)
    <3>1. g[d] = 0 /\ s[d] = 0 /\ (d = 0 => stock >= Floor(i))
      BY <1>1, <2>3, <2>12 DEF IsBucket, Floor, EffectivePolicy
    <3>2. before = last.balance
      BY <2>3, <2>4, <3>1 DEF before
    <3>3. net[d] = [balance |-> before + 0, receipt |-> 0]
      BY <2>8, <2>12
    <3>4. net[d].balance = before /\ net[d].receipt = 0 /\ net[d] \in Netting
      BY <2>4, <3>3 DEF Netting
    <3>5. last.balance >= Floor(i)
      BY <2>2, <2>7, <3>1 DEF Kept, last
    <3> QED
      BY <2>1, <2>5, <3>2, <3>4, <3>5 DEF Kept, P
  <2> QED
    BY <2>11, <2>12
<1>7. \A d \in Dates : Kept(d)
  <2>1. 0..Horizon \subseteq P
    <3> HIDE DEF P
    <3> QED
      BY <1>1, <1>5, <1>6, NumbersInduct
  <2> TAKE d \in Dates
  <2>2. d + 1 \in 0..Horizon /\ (d + 1) - 1 = d
    BY <1>1 DEF Dates
  <2>3. d + 1 \in P
    BY <2>1, <2>2
  <2> HIDE DEF Kept
  <2> QED
    BY <2>2, <2>3
<1>8. r \in [Dates -> Nat]
  <2>1. \A d \in Dates : net[d].receipt \in Nat
    BY <1>7 DEF Netting
  <2> QED
    BY <1>2, <2>1
<1> DEFINE Q == {k \in 0..Horizon : net[k - 1].balance = balance(k - 1)}
<1>9. 0 \in Q
  <2>1. UpTo(s, -1) = 0 /\ UpTo(r, -1) = 0 /\ UpTo(g, -1) = 0
    <3> HIDE DEF r
    <3> QED
      BY <1>8, UpToGrows
  <2>2. net[-1].balance = stock
    BY <1>2 DEF AreNetted
  <2>3. 0 - 1 = -1 /\ 0 \in 0..Horizon
    BY <1>1
  <2> HIDE DEF r
  <2>4. balance(-1) = stock
    BY <2>1
  <2> QED
    BY <2>2, <2>3, <2>4
<1>10. ASSUME NEW k \in 1..Horizon, k - 1 \in Q PROVE k \in Q
  <2> DEFINE d == k - 1
             last == net[d - 1]
  <2>1. k \in 0..Horizon /\ d \in Dates /\ d \in Int
    BY <1>1 DEF Dates
  <2>2. net[d - 1].balance = balance(d - 1)
    BY <1>10
  <2>3. net[d] = NetDay(i, g, s, stock, d, last) /\ r[d] = net[d].receipt
    BY <1>2, <2>1 DEF AreNetted
  <2>4. net[d].balance = last.balance + s[d] - g[d] + r[d]
    BY <2>3 DEF NetDay
  <2> HIDE DEF r
  <2>5. /\ UpTo(s, d) = UpTo(s, d - 1) + s[d] /\ UpTo(s, d - 1) \in Int
        /\ UpTo(r, d) = UpTo(r, d - 1) + r[d] /\ UpTo(r, d - 1) \in Int
        /\ UpTo(g, d) = UpTo(g, d - 1) + g[d] /\ UpTo(g, d - 1) \in Int
        /\ s[d] \in Nat /\ r[d] \in Nat /\ g[d] \in Nat
    BY <1>8, <2>1, UpToGrows
  <2>6. net[d].balance = balance(d)
    BY <2>2, <2>4, <2>5
  <2> QED
    BY <2>1, <2>6
<1>11. \A d \in Dates : net[d].balance = balance(d)
  <2>1. 0..Horizon \subseteq Q
    <3> HIDE DEF Q
    <3> QED
      BY <1>1, <1>9, <1>10, NumbersInduct
  <2> TAKE d \in Dates
  <2>2. d + 1 \in 0..Horizon /\ (d + 1) - 1 = d
    BY <1>1 DEF Dates
  <2>3. d + 1 \in Q
    BY <2>1, <2>2
  <2> QED
    BY <2>2, <2>3
<1> QED
  BY <1>7, <1>8, <1>11

LEMMA GroupsOfNumbers ==
    ASSUME NEW p \in Nat \ {0}, NEW a \in Nat
    PROVE  /\ a % p # 0 => a > 0 /\ (a - 1) \div p = a \div p
           /\ \A b \in Nat : a % p = 0 /\ b % p = 0 /\ a \div p = b \div p => a = b
<1>1. \A x \in Nat : x \div p \in Int /\ x % p \in Int /\ x = p * (x \div p) + (x % p) /\ 0 <= x % p /\ x % p < p
  <2>1. p \in Nat /\ p > 0
    OBVIOUS
  <2> QED
    BY <2>1, Division
<1>2. ASSUME a % p # 0 PROVE a > 0 /\ (a - 1) \div p = a \div p
  <2> DEFINE q == a \div p
             r == a % p
             u == (a - 1) \div p
             v == (a - 1) % p
  <2>1. a > 0 /\ q \in Int /\ r \in Int /\ a = p * q + r /\ 0 < r /\ r < p
    BY <1>1, <1>2
  <2>2. u \in Int /\ v \in Int /\ a - 1 = p * u + v /\ 0 <= v /\ v < p
    BY <1>1, <2>1
  <2> HIDE DEF q, r, u, v
  <2>3. p * q - p * u = v - r + 1 /\ p * (q - u) = p * q - p * u
    BY <2>1, <2>2
  <2>4. q - u <= 0
    <3> SUFFICES ASSUME q - u >= 1 PROVE FALSE
      BY <2>1, <2>2
    <3>1. p * (q - u) >= p
      BY <2>1, <2>2
    <3> QED
      BY <2>1, <2>2, <2>3, <3>1
  <2>5. q - u >= 0
    <3> SUFFICES ASSUME q - u <= -1 PROVE FALSE
      BY <2>1, <2>2
    <3>1. p * (q - u) <= -p
      BY <2>1, <2>2
    <3> QED
      BY <2>1, <2>2, <2>3, <3>1
  <2> QED
    BY <2>1, <2>2, <2>4, <2>5 DEF q, u
<1>3. ASSUME NEW b \in Nat, a % p = 0, b % p = 0, a \div p = b \div p PROVE a = b
  BY <1>1, <1>3
<1> QED
  BY <1>2, <1>3

\* Requirements of a group are moved to its first day: at no day has less been required than without groups.
LEMMA GroupsComeNoLater ==
    ASSUME NEW i \in Items, NEW g \in [Dates -> Nat]
    PROVE  /\ Grouped(i, g) \in [Dates -> Nat]
           /\ \A d \in Dates : UpTo(Grouped(i, g), d) >= UpTo(g, d)
           /\ Master[i].method # "POQ" => Grouped(i, g) = g
<1> DEFINE days == {d \in Dates : g[d] > 0}
           before(d) == {e \in days : e < d}
           rank(d) == Cardinality(before(d))
           per == Master[i].periods
           group(d) == rank(d) \div per
           heads == {h \in days : rank(h) % per = 0}
           key == [d \in days |-> CHOOSE h \in heads : group(h) = group(d)]
           moved == [d \in Dates |-> IF d \in days /\ rank(d) % per = 0
                                     THEN SumFunctionOnSet(g, {e \in days : group(e) = group(d)}) ELSE 0]
<1>1. Horizon \in Nat \ {0} /\ per \in Nat \ {0}
  <2>1. Master[i] \in ItemMaster
    BY MaterialPlanningAssumption
  <2> QED
    BY <2>1, MaterialPlanningAssumption DEF ItemMaster
<1>2. Dates \subseteq Nat /\ IsFiniteSet(Dates) /\ days \subseteq Dates /\ IsFiniteSet(days)
  <2>1. IsFiniteSet(Dates) /\ Dates \subseteq Nat
    BY <1>1, FS_Interval DEF Dates
  <2> QED
    BY <2>1, FS_Subset
<1>3. Grouped(i, g) = IF Master[i].method # "POQ" THEN g ELSE moved
  BY DEF Grouped
<1> HIDE DEF per, days
<1>4. \A d \in Dates : IsFiniteSet(before(d)) /\ rank(d) \in Nat
  BY <1>2, FS_Subset, FS_CardinalityType
<1>5. ASSUME NEW a \in days, NEW b \in days, a < b PROVE rank(a) < rank(b)
  <2>0. a \in Nat /\ b \in Nat /\ days \subseteq Nat /\ IsFiniteSet(before(a)) /\ IsFiniteSet(before(b))
    BY <1>2, <1>4
  <2>1. before(a) \union {a} \subseteq before(b) /\ a \notin before(a) /\ IsFiniteSet(before(a)) /\ IsFiniteSet(before(b))
    <3>1. \A e \in before(a) : e \in before(b)
      <4> TAKE e \in before(a)
      <4>1. e \in days /\ e \in Nat /\ e < a /\ e < b
        BY <1>5, <2>0
      <4> QED
        BY <4>1
    <3>2. a \in before(b) /\ a \notin before(a)
      BY <1>5, <2>0
    <3> HIDE DEF before
    <3> QED
      BY <2>0, <3>1, <3>2
  <2>2. Cardinality(before(a) \union {a}) = Cardinality(before(a)) + 1
    <3> HIDE DEF before
    <3> QED
      BY <2>1, FS_AddElement
  <2>3. Cardinality(before(a) \union {a}) <= Cardinality(before(b))
    <3> HIDE DEF before
    <3> QED
      BY <2>1, FS_Subset
  <2>4. rank(a) \in Nat /\ rank(b) \in Nat
    BY <1>2, <1>4
  <2> HIDE DEF before
  <2> QED
    BY <2>2, <2>3, <2>4
<1>6. ASSUME NEW b \in days, rank(b) # 0 PROVE \E a \in days : a < b /\ rank(a) = rank(b) - 1
  <2>1. before(b) # {}
    BY <1>6, FS_EmptySet
  <2> DEFINE a == Max(before(b))
  <2>2. a \in before(b) /\ \A e \in before(b) : e <= a
    <3>0. days \subseteq Nat /\ b \in Nat
      BY <1>2
    <3>1. before(b) \subseteq Int /\ b \in Int /\ \A e \in before(b) : e <= b
      <4>1. \A e \in before(b) : e \in Nat /\ e < b
        BY <3>0
      <4>2. \A e \in before(b) : e \in Int /\ e <= b
        <5> HIDE DEF before
        <5> QED
          BY <3>0, <4>1
      <4> HIDE DEF before
      <4> QED
        BY <3>0, <4>2
    <3> HIDE DEF before
    <3> QED
      BY <2>1, <3>1, LargestOf
  <2> HIDE DEF a
  <2>3. a \in days /\ a < b
    BY <2>2
  <2>4. before(b) = before(a) \union {a} /\ a \notin before(a)
    <3>1. days \subseteq Nat /\ a \in Nat /\ b \in Nat
      BY <1>2, <2>3
    <3>2. \A e \in before(b) : e \in before(a) \union {a}
      <4> TAKE e \in before(b)
      <4>1. e \in days /\ e \in Nat /\ e <= a
        BY <2>2, <3>1
      <4> QED
        BY <3>1, <4>1
    <3>3. \A e \in before(a) : e \in before(b)
      <4> TAKE e \in before(a)
      <4>1. e \in days /\ e \in Nat /\ e < a /\ e < b
        BY <2>3, <3>1
      <4> QED
        BY <4>1
    <3>4. a \in before(b) /\ a \notin before(a)
      BY <2>2, <3>1
    <3> HIDE DEF before
    <3> QED
      BY <3>2, <3>3, <3>4
  <2>5. IsFiniteSet(before(a)) /\ rank(a) \in Nat
    BY <1>2, <1>4, <2>3
  <2>6. Cardinality(before(a) \union {a}) = Cardinality(before(a)) + 1
    <3> HIDE DEF before
    <3> QED
      BY <2>4, <2>5, FS_AddElement
  <2>7. rank(b) = rank(a) + 1
    <3> HIDE DEF before
    <3> QED
      BY <2>4, <2>6
  <2> HIDE DEF before
  <2> QED
    BY <2>3, <2>5, <2>7
<1>7. ASSUME NEW d \in days PROVE \E h \in heads : h <= d /\ group(h) = group(d)
  <2> DEFINE C == {x \in days : group(x) = group(d)}
  <2>1. PICK h \in C : \A x \in C : h <= x
    <3>1. C \subseteq Nat /\ C # {}
      BY <1>2
    <3> HIDE DEF C
    <3> QED
      BY <3>1, SmallestNumber
  <2>2. h \in days /\ group(h) = group(d) /\ h <= d
    BY <2>1
  <2>3. rank(h) % per = 0
    <3> SUFFICES ASSUME rank(h) % per # 0 PROVE FALSE
      OBVIOUS
    <3> HIDE DEF before
    <3>1. rank(h) \in Nat
      BY <1>2, <1>4, <2>2
    <3>2. rank(h) # 0 /\ (rank(h) - 1) \div per = rank(h) \div per
      <4> DEFINE r == rank(h)
      <4>1. r \in Nat /\ r % per # 0
        BY <3>1
      <4> HIDE DEF r
      <4>2. r > 0 /\ (r - 1) \div per = r \div per
        BY <1>1, <4>1, GroupsOfNumbers
      <4>3. r # 0
        BY <4>1, <4>2
      <4> QED
        BY <4>2, <4>3 DEF r
    <3>3. PICK a \in days : a < h /\ rank(a) = rank(h) - 1
      BY <1>6, <2>2, <3>2
    <3>4. group(a) = group(h)
      BY <3>2, <3>3
    <3>5. a \in C /\ a \in Nat /\ h \in Nat
      BY <1>2, <2>2, <3>3, <3>4
    <3> QED
      BY <2>1, <3>3, <3>5
  <2> QED
    BY <2>2, <2>3
<1>8. ASSUME NEW h \in heads, NEW k \in heads, group(h) = group(k) PROVE h = k
  <2>1. h \in days /\ k \in days /\ rank(h) \in Nat /\ rank(k) \in Nat /\ h \in Nat /\ k \in Nat
    BY <1>2, <1>4
  <2>2. rank(h) % per = 0 /\ rank(k) % per = 0 /\ rank(h) \div per = rank(k) \div per
    BY <1>8
  <2>3. rank(h) = rank(k)
    <3> HIDE DEF before
    <3> QED
      BY <1>1, <2>1, <2>2, GroupsOfNumbers
  <2>4. ~(h < k) /\ ~(k < h)
    <3> HIDE DEF before
    <3> QED
      BY <1>5, <2>1, <2>3
  <2> QED
    BY <2>1, <2>4
<1> HIDE DEF before
<1>9. ASSUME NEW d \in days PROVE key[d] \in heads /\ group(key[d]) = group(d) /\ key[d] <= d
  <2>1. PICK h \in heads : h <= d /\ group(h) = group(d)
    BY <1>7
  <2>2. key[d] \in heads /\ group(key[d]) = group(d)
    BY <2>1
  <2>3. key[d] = h
    BY <1>8, <2>1, <2>2
  <2> QED
    BY <2>1, <2>2, <2>3
<1>10. ASSUME NEW d \in Dates PROVE moved[d] = SumFunctionOnSet(g, {e \in days : key[e] = d})
  <2>1. CASE d \in heads
    <3>1. {e \in days : group(e) = group(d)} = {e \in days : key[e] = d}
      <4>1. ASSUME NEW e \in days PROVE group(e) = group(d) <=> key[e] = d
        BY <1>8, <1>9, <2>1
      <4> HIDE DEF key
      <4> QED
        BY <4>1
    <3>2. d \in days /\ rank(d) % per = 0
      BY <2>1
    <3>3. moved[d] = SumFunctionOnSet(g, {e \in days : group(e) = group(d)})
      BY <3>2
    <3> QED
      BY <3>1, <3>3
  <2>2. CASE d \notin heads
    <3>1. {e \in days : key[e] = d} = {}
      BY <1>9, <2>2
    <3>2. moved[d] = 0
      BY <2>2
    <3>3. SumFunctionOnSet(g, {}) = 0
      BY FS_EmptySet, SumFirst
    <3> HIDE DEF moved, key
    <3> QED
      BY <3>1, <3>2, <3>3
  <2> QED
    BY <2>1, <2>2
<1>11. moved \in [Dates -> Nat]
  <2>1. \A d \in Dates : moved[d] \in Nat
    <3> TAKE d \in Dates
    <3> DEFINE A == {e \in days : key[e] = d}
    <3>1. IsFiniteSet(A) /\ \A e \in A : g[e] \in Nat
      BY <1>2, FS_Subset
    <3>2. SumFunctionOnSet(g, A) \in Nat
      <4> HIDE DEF A
      <4> QED
        BY <3>1, SumNat
    <3> QED
      BY <1>10, <3>2
  <2>2. moved = [d \in Dates |-> moved[d]]
    OBVIOUS
  <2> HIDE DEF moved
  <2> QED
    BY <2>1, <2>2
<1> HIDE DEF moved, heads
<1>12. ASSUME NEW d \in Dates PROVE UpTo(moved, d) >= UpTo(g, d)
  <2> DEFINE D == 0..d
             A == {x \in days : x <= d}
             B == OfKeys(days, key, D)
  <2>1. D \subseteq Dates /\ IsFiniteSet(D) /\ d \in Nat
    <3>1. d \in Nat
      BY <1>2
    <3>2. \A x \in D : x \in Dates
      BY <1>1, <3>1 DEF Dates
    <3>3. IsFiniteSet(D)
      BY <3>1, FS_Interval
    <3> QED
      BY <3>1, <3>2, <3>3
  <2>2. A \subseteq D /\ A \subseteq B /\ B \subseteq days
    <3>1. ASSUME NEW x \in A PROVE x \in D /\ key[x] \in D
      <4>1. x \in days /\ x <= d /\ x \in Nat
        BY <1>2
      <4>2. key[x] \in days /\ key[x] <= x
        BY <1>9, <4>1 DEF heads
      <4>3. key[x] \in Nat
        BY <1>2, <4>2
      <4> HIDE DEF key
      <4> QED
        BY <2>1, <4>1, <4>2, <4>3
    <3> QED
      BY <3>1 DEF OfKeys
  <2>3. IsFiniteSet(B) /\ \A x \in B : g[x] \in Nat
    BY <1>2, <2>2, FS_Subset
  <2>4. SumFunctionOnSet(moved, D) = SumFunctionOnSet(g, B)
    <3>1. \A x \in days : g[x] \in Int
      BY <1>2
    <3>2. \A e \in D : moved[e] = SumFunctionOnSet(g, OfKey(days, key, e))
      BY <1>10, <2>1 DEF OfKey
    <3>3. IsFiniteSet(D) /\ IsFiniteSet(days)
      BY <1>2, <2>1
    <3> HIDE DEF D, key
    <3> QED
      BY ONLY <3>1, <3>2, <3>3, SumByKey
  <2>5. SumFunctionOnSet(g, A) <= SumFunctionOnSet(g, B)
    <3> HIDE DEF A, B
    <3> QED
      BY <2>2, <2>3, SumSubset
  <2>6. SumFunctionOnSet(g, D) = SumFunctionOnSet(g, A)
    <3>1. \A x \in D : g[x] \in Int
      BY <2>1
    <3>2. IsFiniteSet(D \ A) /\ \A x \in D \ A : g[x] = 0
      <4>1. \A x \in D \ A : x \in Dates /\ x \notin days
        BY <2>1
      <4>2. \A x \in D \ A : g[x] = 0
        BY <4>1 DEF days
      <4> QED
        BY <2>1, <4>2, FS_Difference
    <3>0. A \subseteq D
      BY <2>2
    <3> HIDE DEF D, A
    <3>3. SumFunctionOnSet(g, D) = SumFunctionOnSet(g, A) + SumFunctionOnSet(g, D \ A)
      <4>1. IsFiniteSet(D) /\ (\A x \in D : g[x] \in Int) /\ A \subseteq D
        BY <2>1, <3>0, <3>1
      <4> QED
        BY ONLY <4>1, SumSplit
    <3>4. SumFunctionOnSet(g, D \ A) = 0
      BY <3>2, SumZero
    <3>5. SumFunctionOnSet(g, A) \in Int
      BY <2>1, <3>0, <3>1, FS_Subset, SumType
    <3> QED
      BY <3>3, <3>4, <3>5
  <2>7. SumFunctionOnSet(g, A) \in Int /\ SumFunctionOnSet(g, B) \in Int
    <3>0. IsFiniteSet(A) /\ A \subseteq B
      <4> HIDE DEF A, B
      <4> QED
        BY <2>2, <2>3, FS_Subset
    <3>1. IsFiniteSet(A) /\ IsFiniteSet(B) /\ (\A x \in A : g[x] \in Int) /\ (\A x \in B : g[x] \in Int)
      BY <2>3, <3>0
    <3> HIDE DEF A, B
    <3> QED
      BY <3>1, SumType
  <2> HIDE DEF A, B
  <2> QED
    BY <2>4, <2>5, <2>6, <2>7 DEF UpTo
<1>13. \A d \in Dates : UpTo(g, d) \in Int
  <2>1. \A d \in Dates : g[d] \in Int
    OBVIOUS
  <2> QED
    BY <2>1, UpToGrows
<1> QED
  BY <1>3, <1>11, <1>12, <1>13

-----------------------------------------------------------------------------
(* The run, as a function of the record that it keeps: what it has planned    *)
(* so far rests on what it has read, whatever has become of that since.       *)
RunPhases == {"idle", "stock", "purchases", "orders", "work", "netting", "done", "failed"}
IsList(c) == DOMAIN c \subseteq Items /\ \A x \in DOMAIN c : c[x] \in Nat
AreOrders(rows) == rows \in [WorkOrders -> WorkOrder] /\ \A w \in WorkOrders : rows[w].completed <= rows[w].quantity
IsRun(r) ==
    r = [phase |-> r.phase, level |-> r.level, stock |-> r.stock, position |-> r.position, orders |-> r.orders, todo |-> r.todo,
         scheduled |-> r.scheduled, gross |-> r.gross, components |-> r.components, planned |-> r.planned]
RunTypes(r) ==
    /\ IsRun(r) /\ r.phase \in RunPhases /\ r.todo \subseteq WorkOrders
    /\ r.scheduled \in [Items -> [Dates -> Nat]] /\ r.gross \in [Items -> [Dates -> Nat]]
    /\ DOMAIN r.components \subseteq Items /\ \A p \in DOMAIN r.components : IsList(r.components[p])
    /\ DOMAIN r.planned \subseteq Items /\ \A p \in DOMAIN r.planned : r.planned[p] \in [Dates -> Nat]
    /\ r.phase \notin {"idle", "failed"} => r.level \in [Items -> Nat] /\ r.position \in [Items -> Int]
    /\ r.phase \in {"purchases", "orders", "work", "netting", "done"} => r.stock \in [Items -> Int]
    /\ r.phase \in {"work", "netting", "done"} => AreOrders(r.orders)

NeedsOfOrder(rows, components, w, i, d) ==
    IF rows[w].status = "RELEASED" /\ Due(rows[w].start) = d THEN Unfinished(rows)[w] * Per(components, rows[w].item, i) ELSE 0
NeedsOfPlan(components, receipts, p, i, d) == Per(components, p, i) * ReleasedOn(receipts, Master[p].lead, d)
OrdersRead(r, i, d) == [w \in WorkOrders |-> IF w \in r.todo THEN 0 ELSE NeedsOfOrder(r.orders, r.components, w, i, d)]
ItemsPlanned(r, i, d) == [p \in Items |-> IF p \in DOMAIN r.planned THEN NeedsOfPlan(r.components, r.planned[p], p, i, d) ELSE 0]
\* The requirements so far are those of the schedule, of the orders taken up and of the items planned.
GrossIs(r) ==
    \A i \in Items, d \in Dates :
        r.gross[i][d] = Demand[i][d] + SumFunctionOnSet(OrdersRead(r, i, d), WorkOrders) + SumFunctionOnSet(ItemsPlanned(r, i, d), Items)
\* The components of what called for some are kept.
CacheHas(r) ==
    /\ \A w \in WorkOrders \ r.todo : LET wo == r.orders[w] IN
          wo.status = "RELEASED" /\ wo.completed < wo.quantity /\ wo.start < Horizon => wo.item \in DOMAIN r.components
    /\ \A p \in DOMAIN r.planned : \A d \in Dates : r.planned[p][d] > 0 => p \in DOMAIN r.components
\* Items are planned level by level, each from the requirements it has in the end.
InOrder(r) ==
    \A a \in DOMAIN r.planned, b \in Items \ DOMAIN r.planned : r.level[a] < r.level[b] \/ (r.level[a] = r.level[b] /\ a <= b)
PlannedAre(r) == \A i \in DOMAIN r.planned : r.planned[i] = Netted(i, Grouped(i, r.gross[i]), r.scheduled[i], r.stock[i])
RunStands(r) ==
    /\ r.phase \in {"idle", "stock", "purchases", "orders", "failed"} => r.todo = {} /\ DOMAIN r.components = {} /\ DOMAIN r.planned = {}
    /\ r.phase \in {"stock", "purchases", "orders"} => r.gross = Demand
    /\ r.phase = "work" => DOMAIN r.planned = {} /\ \A w \in r.todo : r.orders[w].status = "RELEASED"
    /\ r.phase \in {"netting", "done"} => r.todo = {}
    /\ r.phase = "done" => DOMAIN r.planned = Items
    /\ r.phase \in {"work", "netting", "done"} => CacheHas(r) /\ GrossIs(r)
    /\ r.phase \in {"netting", "done"} => InOrder(r) /\ PlannedAre(r)

\* What may still arrive of an item is in the position the run began with, and no less than what the run has
\* still to read or has read.
FromPurchases(i) == SumFunctionOnSet(Outstanding, {p \in Purchases : purchases[p].item = i /\ ~purchases[p].blocked})
FromWork(i) == SumFunctionOnSet(Unfinished(work), {w \in WorkOrders : work[w].item = i /\ work[w].status = "RELEASED"})
ToTakeUp(r, i) == SumFunctionOnSet(Unfinished(r.orders), {w \in r.todo : r.orders[w].item = i})
CountedIn(i) ==
    CASE run.phase = "stock" -> onHand[i] + FromPurchases(i) + FromWork(i)
      [] run.phase = "purchases" -> run.stock[i] + FromPurchases(i) + FromWork(i)
      [] run.phase = "orders" -> run.stock[i] + UpTo(run.scheduled[i], Horizon - 1) + FromWork(i)
      [] run.phase \in {"work", "netting", "done"} -> run.stock[i] + UpTo(run.scheduled[i], Horizon - 1) + ToTakeUp(run, i)
DeliveriesStand == run.phase \notin {"idle", "failed"} => \A i \in Items : CountedIn(i) <= run.position[i]

ShopTypes == onHand \in [Items -> Int] /\ purchases \in [Purchases -> PurchaseOrder] /\ AreOrders(work)
PlanInv == BOMTypes /\ ShopTypes /\ RunTypes(run) /\ RunStands(run) /\ DeliveriesStand

LEMMA AfterReads == AfterRead("stock") = "purchases" /\ AfterRead("purchases") = "orders" /\ AfterRead("orders") = "work" /\ Reads[1] = "stock"
<1>1. Reads[1] = "stock" /\ Reads[2] = "purchases" /\ Reads[3] = "orders" /\ Reads[4] = "work"
  BY DEF Reads
<1>2. \A k \in 1..3 : k = 1 \/ k = 2 \/ k = 3
  OBVIOUS
<1>3. (CHOOSE k \in 1..3 : Reads[k] = "stock") = 1
  BY <1>1, <1>2
<1>4. (CHOOSE k \in 1..3 : Reads[k] = "purchases") = 2
  BY <1>1, <1>2
<1>5. (CHOOSE k \in 1..3 : Reads[k] = "orders") = 3
  BY <1>1, <1>2
<1> QED
  BY <1>1, <1>3, <1>4, <1>5 DEF AfterRead

LEMMA DatesAre ==
    /\ Horizon \in Nat \ {0} /\ IsFiniteSet(Dates) /\ Dates \subseteq Nat
    /\ \A x \in Int : Due(x) \in Nat /\ (Due(x) \in Dates <=> x < Horizon)
    /\ \A d \in Dates : Due(d) = d /\ Due(d - 0) = d /\ d < Horizon
<1>1. Horizon \in Nat \ {0}
  BY MaterialPlanningAssumption
<1>2. IsFiniteSet(Dates) /\ Dates \subseteq Nat
  BY <1>1, FS_Interval DEF Dates
<1>3. \A x \in Int : Due(x) \in Nat /\ (Due(x) \in Dates <=> x < Horizon)
  BY <1>1 DEF Dates, Due
<1>4. \A d \in Dates : Due(d) = d /\ Due(d - 0) = d /\ d < Horizon
  BY <1>1 DEF Dates, Due
<1> QED
  BY <1>1, <1>2, <1>3, <1>4

LEMMA ReleasedIs ==
    ASSUME NEW receipts \in [Dates -> Nat], NEW lead, NEW d
    PROVE  /\ ReleasedOn(receipts, lead, d) \in Nat
           /\ (\A e \in Dates : receipts[e] = 0) => ReleasedOn(receipts, lead, d) = 0
<1> DEFINE S == {e \in Dates : Due(e - lead) = d}
<1>1. IsFiniteSet(S) /\ \A e \in S : receipts[e] \in Nat
  BY DatesAre, FS_Subset
<1>2. ASSUME \A e \in Dates : receipts[e] = 0 PROVE \A e \in S : receipts[e] = 0
  BY <1>2
<1>3. ReleasedOn(receipts, lead, d) = SumFunctionOnSet(receipts, S)
  BY DEF ReleasedOn
<1> HIDE DEF S
<1>4. SumFunctionOnSet(receipts, S) \in Nat
  BY <1>1, SumNat
<1>5. ASSUME \A e \in Dates : receipts[e] = 0 PROVE SumFunctionOnSet(receipts, S) = 0
  <2>1. \A e \in S : receipts[e] = 0
    BY <1>2, <1>5
  <2> QED
    BY <1>1, <2>1, SumZero
<1> QED
  BY <1>3, <1>4, <1>5

LEMMA ReleasedAtOnce ==
    ASSUME NEW open \in Nat, NEW x, NEW d \in Dates
    PROVE  ReleasedOn([e \in Dates |-> IF e = x THEN open ELSE 0], 0, d) = IF d = x THEN open ELSE 0
<1> DEFINE r == [e \in Dates |-> IF e = x THEN open ELSE 0]
           S == {e \in Dates : Due(e - 0) = d}
<1>1. S = {} \union {d} /\ IsFiniteSet({}) /\ d \notin {}
  BY DatesAre, FS_EmptySet
<1>2. \A e \in {} \union {d} : r[e] \in Int
  OBVIOUS
<1>3. r[d] = IF d = x THEN open ELSE 0
  OBVIOUS
<1>4. ReleasedOn(r, 0, d) = SumFunctionOnSet(r, S)
  BY DEF ReleasedOn
<1> HIDE DEF r, S
<1>5. SumFunctionOnSet(r, {} \union {d}) = SumFunctionOnSet(r, {}) + r[d] /\ SumFunctionOnSet(r, {}) = 0
  BY <1>1, <1>2, SumInsert, SumFirst
<1>6. r[d] \in Int
  BY <1>2
<1>7. ReleasedOn(r, 0, d) = IF d = x THEN open ELSE 0
  BY <1>1, <1>3, <1>4, <1>5, <1>6
<1> QED
  BY <1>7 DEF r

LEMMA ExplodedIs ==
    ASSUME NEW gross \in [Items -> [Dates -> Nat]], NEW receipts \in [Dates -> Nat], NEW lead, NEW list, IsList(list)
    PROVE  LET next == Exploded(gross, receipts, lead, list) IN
           /\ next \in [Items -> [Dates -> Nat]]
           /\ \A i \in Items : \A d \in Dates : next[i][d] = gross[i][d] + IF i \in DOMAIN list THEN list[i] * ReleasedOn(receipts, lead, d) ELSE 0
           /\ \A i \in Items : i \notin DOMAIN list => next[i] = gross[i]
<1> DEFINE next == Exploded(gross, receipts, lead, list)
           more(i, d) == IF i \notin DOMAIN list THEN 0 ELSE list[i] * ReleasedOn(receipts, lead, d)
<1>1. ASSUME NEW i \in Items, NEW d \in Dates PROVE more(i, d) \in Nat
  <2>1. ReleasedOn(receipts, lead, d) \in Nat
    BY ReleasedIs
  <2> QED
    BY <2>1 DEF IsList
<1>2. next = [i \in Items |-> [d \in Dates |-> gross[i][d] + more(i, d)]]
  BY DEF Exploded
<1>3. next \in [Items -> [Dates -> Nat]]
  <2>1. \A i \in Items : \A d \in Dates : gross[i][d] + more(i, d) \in Nat
    <3> TAKE i \in Items
    <3> TAKE d \in Dates
    <3>1. gross[i][d] \in Nat /\ more(i, d) \in Nat
      BY <1>1
    <3> HIDE DEF more
    <3> QED
      BY <3>1
  <2> HIDE DEF more, next
  <2> QED
    BY <1>2, <2>1
<1>4. ASSUME NEW i \in Items, i \notin DOMAIN list PROVE next[i] = gross[i]
  <2>1. next[i] = [d \in Dates |-> gross[i][d] + 0]
    BY <1>2, <1>4
  <2>2. gross[i] \in [Dates -> Nat]
    OBVIOUS
  <2> QED
    BY <2>1, <2>2
<1>5. \A i \in Items : \A d \in Dates : next[i][d] = gross[i][d] + IF i \in DOMAIN list THEN list[i] * ReleasedOn(receipts, lead, d) ELSE 0
  BY <1>2
<1> QED
  BY <1>3, <1>4, <1>5

LEMMA CachedIs ==
    ASSUME bom \in BOMs, RunTypes(run), NEW i \in Items
    PROVE  /\ DOMAIN Cached(i) = DOMAIN run.components \union {i}
           /\ \A p \in DOMAIN Cached(i) : IsList(Cached(i)[p])
           /\ \A p \in DOMAIN run.components : Cached(i)[p] = run.components[p]
<1>1. IsList(ComponentsOf(i))
  <2>1. \A e \in DOMAIN bom : bom[e] \in Nat
    BY BillOfMaterialsAssumption, BOMsAre
  <2>2. \A x \in Items : <<i, x>> \in DOMAIN bom => bom[i, x] \in Nat
    BY <2>1
  <2> QED
    BY <2>2 DEF IsList, ComponentsOf
<1>2. \A p \in DOMAIN run.components : IsList(run.components[p])
  BY DEF RunTypes
<1> QED
  BY <1>1, <1>2 DEF Cached

LEMMA SupplyIs ==
    ASSUME ShopTypes, NEW i \in Items
    PROVE  /\ \A p \in Purchases : Outstanding[p] \in Nat
           /\ \A w \in WorkOrders : Unfinished(work)[w] \in Nat
           /\ FromPurchases(i) \in Nat /\ FromWork(i) \in Nat /\ OpenSupply(i) = FromPurchases(i) + FromWork(i)
<1>1. \A p \in Purchases : Outstanding[p] \in Nat
  BY DEF ShopTypes, Outstanding, Remaining, PurchaseOrder
<1>2. \A w \in WorkOrders : Unfinished(work)[w] \in Nat
  BY DEF ShopTypes, AreOrders, Unfinished, WorkOrder
<1> DEFINE P == {p \in Purchases : purchases[p].item = i /\ ~purchases[p].blocked}
           W == {w \in WorkOrders : work[w].item = i /\ work[w].status = "RELEASED"}
<1>3. IsFiniteSet(P) /\ IsFiniteSet(W) /\ P \subseteq Purchases /\ W \subseteq WorkOrders
  BY MaterialPlanningAssumption, FS_Subset
<1>4. FromPurchases(i) = SumFunctionOnSet(Outstanding, P) /\ FromWork(i) = SumFunctionOnSet(Unfinished(work), W)
  BY DEF FromPurchases, FromWork
<1>5. OpenSupply(i) = FromPurchases(i) + FromWork(i)
  BY DEF OpenSupply, FromPurchases, FromWork
<1> HIDE DEF P, W
<1>6. (\A p \in P : Outstanding[p] \in Nat) /\ \A w \in W : Unfinished(work)[w] \in Nat
  BY <1>1, <1>2, <1>3
<1>7. SumFunctionOnSet(Outstanding, P) \in Nat /\ SumFunctionOnSet(Unfinished(work), W) \in Nat
  BY <1>3, <1>6, SumNat
<1> QED
  BY <1>1, <1>2, <1>4, <1>5, <1>7

\* What leaves the shop alone leaves its supply alone.
LEMMA SupplyRests ==
    ASSUME UNCHANGED <<onHand, purchases, work>>
    PROVE  (ShopTypes => ShopTypes') /\ \A i : UNCHANGED <<FromPurchases(i), FromWork(i)>>
BY DEF ShopTypes, AreOrders, FromPurchases, FromWork, Outstanding, Unfinished, Remaining

LEMMA PlanInvInit == PlanningInit => PlanInv
<1> SUFFICES ASSUME PlanningInit PROVE PlanInv
  OBVIOUS
<1>1. BOMTypes
  BY BOMTypesInit DEF PlanningInit
<1>2. ShopTypes
  BY DEF PlanningInit, ShopTypes, AreOrders
<1>3. /\ run = BeforeRun /\ run.phase = "idle" /\ run.todo = {} /\ IsRun(run)
      /\ DOMAIN run.components = {} /\ DOMAIN run.planned = {} /\ run.scheduled = Zero /\ run.gross = Zero
  BY DEF PlanningInit, BeforeRun, IsRun
<1>4. Zero \in [Items -> [Dates -> Nat]]
  BY DEF Zero
<1> QED
  BY <1>1, <1>2, <1>3, <1>4 DEF PlanInv, RunTypes, RunStands, DeliveriesStand, RunPhases

LEMMA StartRunKeeps == ASSUME PlanInv, StartRun PROVE PlanInv'
<1>1. run.phase = "idle" /\ UNCHANGED <<bom, eco, today, onHand, purchases, work>> /\ llc' = LowLevelCodes(DOMAIN bom)
  BY DEF StartRun
<1>2. llc' \in [Items -> Nat]
  BY <1>1, CodesAreNumbers
<1>3. BOMTypes'
  BY <1>1, <1>2 DEF PlanInv, BOMTypes, BOMTypeOK
<1>4. ShopTypes /\ ShopTypes' /\ \A i : UNCHANGED <<FromPurchases(i), FromWork(i)>>
  BY <1>1, SupplyRests DEF PlanInv
<1> DEFINE position == [i \in Items |-> onHand[i] + OpenSupply(i)]
<1>5. run' = [BeforeRun EXCEPT !.phase = "stock", !.level = llc', !.gross = Demand, !.position = position]
  BY AfterReads DEF StartRun
<1>6. \A i \in Items : position[i] = onHand[i] + FromPurchases(i) + FromWork(i) /\ position[i] \in Int
  <2> TAKE i \in Items
  <2>1. FromPurchases(i) \in Nat /\ FromWork(i) \in Nat /\ OpenSupply(i) = FromPurchases(i) + FromWork(i)
    BY <1>4, SupplyIs
  <2>2. onHand[i] \in Int
    BY <1>4 DEF ShopTypes
  <2> QED
    BY <2>1, <2>2
<1>7. position \in [Items -> Int]
  BY <1>6
<1> HIDE DEF position
<1>8. /\ IsRun(run') /\ run'.phase = "stock" /\ run'.level = llc' /\ run'.position = position /\ run'.gross = Demand
      /\ run'.todo = {} /\ run'.components = <<>> /\ run'.planned = <<>> /\ run'.scheduled = Zero
  BY <1>5 DEF BeforeRun, IsRun
<1>9. Zero \in [Items -> [Dates -> Nat]] /\ Demand \in [Items -> [Dates -> Nat]] /\ DOMAIN <<>> = {}
  BY MaterialPlanningAssumption DEF Zero
<1>10. RunTypes(run')
  BY <1>2, <1>7, <1>8, <1>9 DEF RunTypes, RunPhases
<1>11. RunStands(run')
  BY <1>8, <1>9 DEF RunStands
<1>12. DeliveriesStand'
  <2> SUFFICES ASSUME NEW i \in Items PROVE CountedIn(i)' <= run'.position[i]
    BY DEF DeliveriesStand
  <2>1. CountedIn(i)' = onHand[i] + FromPurchases(i) + FromWork(i)
    BY <1>1, <1>4, <1>8 DEF CountedIn
  <2> QED
    BY <1>6, <1>8, <2>1
<1> QED
  BY <1>3, <1>4, <1>10, <1>11, <1>12 DEF PlanInv

LEMMA ReadStockKeeps == ASSUME PlanInv, ReadStock PROVE PlanInv'
<1>1. run.phase = "stock" /\ UNCHANGED <<bomVars, onHand, purchases, work>> /\ run' = [run EXCEPT !.phase = "purchases", !.stock = onHand]
  BY AfterReads DEF ReadStock
<1>2. BOMTypes'
  BY <1>1 DEF PlanInv, BOMTypes, BOMTypeOK, bomVars
<1>3. ShopTypes /\ ShopTypes' /\ \A i : UNCHANGED <<FromPurchases(i), FromWork(i)>>
  BY <1>1, SupplyRests DEF PlanInv
<1>4. RunTypes(run) /\ IsRun(run)
  BY DEF PlanInv, RunTypes
<1>5. run' = [phase |-> "purchases", level |-> run.level, stock |-> onHand, position |-> run.position, orders |-> run.orders, todo |-> run.todo,
              scheduled |-> run.scheduled, gross |-> run.gross, components |-> run.components, planned |-> run.planned]
  BY <1>1, <1>4 DEF IsRun
<1>6. IsRun(run') /\ run'.phase = "purchases" /\ run'.stock = onHand
      /\ run'.level = run.level /\ run'.position = run.position /\ run'.todo = run.todo /\ run'.scheduled = run.scheduled
      /\ run'.gross = run.gross /\ run'.components = run.components /\ run'.planned = run.planned
  BY <1>5 DEF IsRun
<1>7. RunTypes(run')
  BY <1>1, <1>3, <1>4, <1>6 DEF RunTypes, ShopTypes, RunPhases
<1>8. RunStands(run')
  BY <1>1, <1>6 DEF PlanInv, RunStands
<1>9. DeliveriesStand'
  <2> SUFFICES ASSUME NEW i \in Items PROVE CountedIn(i)' <= run'.position[i]
    BY DEF DeliveriesStand
  <2>1. CountedIn(i)' = onHand[i] + FromPurchases(i) + FromWork(i)
    BY <1>3, <1>6 DEF CountedIn
  <2>2. CountedIn(i) <= run.position[i] /\ CountedIn(i) = onHand[i] + FromPurchases(i) + FromWork(i)
    BY <1>1 DEF PlanInv, DeliveriesStand, CountedIn
  <2> QED
    BY <1>6, <2>1, <2>2
<1> QED
  BY <1>2, <1>3, <1>7, <1>8, <1>9 DEF PlanInv

LEMMA ReadPurchasesKeeps == ASSUME PlanInv, ReadPurchases PROVE PlanInv'
<1> DEFINE due(i, d) == {p \in Purchases : purchases[p].item = i /\ Counted(purchases[p]) /\ Due(purchases[p].day) = d}
           scheduled == [i \in Items |-> [d \in Dates |-> SumFunctionOnSet(Outstanding, due(i, d))]]
<1>1. run.phase = "purchases" /\ UNCHANGED <<bomVars, onHand, purchases, work>> /\ run' = [run EXCEPT !.phase = "orders", !.scheduled = scheduled]
  BY AfterReads DEF ReadPurchases
<1>2. BOMTypes'
  BY <1>1 DEF PlanInv, BOMTypes, BOMTypeOK, bomVars
<1>3. ShopTypes /\ ShopTypes' /\ \A i : UNCHANGED <<FromPurchases(i), FromWork(i)>>
  BY <1>1, SupplyRests DEF PlanInv
<1>4. RunTypes(run) /\ IsRun(run)
  BY DEF PlanInv, RunTypes
<1>5. IsFiniteSet(Purchases) /\ \A p \in Purchases : Outstanding[p] \in Nat /\ purchases[p] \in PurchaseOrder
  <2>1. \A p \in Purchases : purchases[p] \in PurchaseOrder
    BY <1>3 DEF ShopTypes
  <2>2. \A p \in Purchases : Outstanding[p] \in Nat
    BY <2>1 DEF Outstanding, Remaining, PurchaseOrder
  <2> QED
    BY <2>1, <2>2, MaterialPlanningAssumption
<1>6. \A i \in Items : \A d \in Dates : SumFunctionOnSet(Outstanding, due(i, d)) \in Nat
  <2> TAKE i \in Items
  <2> TAKE d \in Dates
  <2>1. IsFiniteSet(due(i, d)) /\ \A p \in due(i, d) : Outstanding[p] \in Nat
    BY <1>5, FS_Subset
  <2> HIDE DEF due
  <2> QED
    BY <2>1, SumNat
<1>7. scheduled \in [Items -> [Dates -> Nat]]
  <2> HIDE DEF due
  <2> QED
    BY <1>6
<1>8. ASSUME NEW i \in Items PROVE UpTo(scheduled[i], Horizon - 1) <= FromPurchases(i) /\ UpTo(scheduled[i], Horizon - 1) \in Int
  <2> DEFINE S == {p \in Purchases : purchases[p].item = i /\ Counted(purchases[p])}
             T == {p \in Purchases : purchases[p].item = i /\ ~purchases[p].blocked}
             key == [p \in Purchases |-> Due(purchases[p].day)]
             row == scheduled[i]
  <2>1. IsFiniteSet(S) /\ IsFiniteSet(T) /\ (\A p \in S : Outstanding[p] \in Int) /\ (\A p \in T : Outstanding[p] \in Nat)
    BY <1>5, FS_Subset
  <2>2. \A d \in Dates : row[d] = SumFunctionOnSet(Outstanding, OfKey(S, key, d))
    <3> TAKE d \in Dates
    <3>1. OfKey(S, key, d) = due(i, d)
      BY DEF OfKey
    <3>2. row[d] = SumFunctionOnSet(Outstanding, due(i, d))
      OBVIOUS
    <3> QED
      BY <3>1, <3>2
  <2>3. OfKeys(S, key, Dates) \subseteq T
    BY DEF OfKeys, Counted
  <2>4. FromPurchases(i) = SumFunctionOnSet(Outstanding, T)
    BY DEF FromPurchases
  <2>5. UpTo(row, Horizon - 1) = SumFunctionOnSet(row, Dates)
    BY DEF UpTo, Dates
  <2>6. IsFiniteSet(Dates)
    BY DatesAre
  <2>7. row \in [Dates -> Nat]
    BY <1>7
  <2>8. \A d \in Dates : row[d] \in Int
    BY <2>7
  <2> HIDE DEF S, T, key, row
  <2>9. SumFunctionOnSet(row, Dates) = SumFunctionOnSet(Outstanding, OfKeys(S, key, Dates))
    BY ONLY <2>1, <2>2, <2>6, SumByKey
  <2>10. SumFunctionOnSet(Outstanding, OfKeys(S, key, Dates)) <= SumFunctionOnSet(Outstanding, T)
    BY ONLY <2>1, <2>3, SumSubset
  <2>11. SumFunctionOnSet(row, Dates) \in Int
    BY <2>6, <2>8, SumType
  <2> QED
    BY <2>4, <2>5, <2>9, <2>10, <2>11 DEF row
<1> HIDE DEF scheduled
<1>9. run' = [phase |-> "orders", level |-> run.level, stock |-> run.stock, position |-> run.position, orders |-> run.orders, todo |-> run.todo,
              scheduled |-> scheduled, gross |-> run.gross, components |-> run.components, planned |-> run.planned]
  BY <1>1, <1>4 DEF IsRun
<1>10. IsRun(run') /\ run'.phase = "orders" /\ run'.stock = run.stock
      /\ run'.level = run.level /\ run'.position = run.position /\ run'.todo = run.todo /\ run'.scheduled = scheduled
      /\ run'.gross = run.gross /\ run'.components = run.components /\ run'.planned = run.planned
  BY <1>9 DEF IsRun
<1>11. RunTypes(run')
  BY <1>1, <1>4, <1>7, <1>10 DEF RunTypes, RunPhases
<1>12. RunStands(run')
  BY <1>1, <1>10 DEF PlanInv, RunStands
<1>13. DeliveriesStand'
  <2> SUFFICES ASSUME NEW i \in Items PROVE CountedIn(i)' <= run'.position[i]
    BY DEF DeliveriesStand
  <2>1. CountedIn(i)' = run.stock[i] + UpTo(scheduled[i], Horizon - 1) + FromWork(i)
    BY <1>3, <1>10 DEF CountedIn
  <2>2. CountedIn(i) <= run.position[i] /\ CountedIn(i) = run.stock[i] + FromPurchases(i) + FromWork(i)
    BY <1>1 DEF PlanInv, DeliveriesStand, CountedIn
  <2>3. run.stock[i] \in Int /\ run.position[i] \in Int
    BY <1>1, <1>4 DEF RunTypes
  <2>4. FromPurchases(i) \in Nat /\ FromWork(i) \in Nat
    BY <1>3, SupplyIs
  <2> QED
    BY <1>8, <1>10, <2>1, <2>2, <2>3, <2>4
<1> QED
  BY <1>2, <1>3, <1>11, <1>12, <1>13 DEF PlanInv

LEMMA ReadWorkOrdersKeeps == ASSUME PlanInv, ReadWorkOrders PROVE PlanInv'
<1> DEFINE todo == {w \in WorkOrders : work[w].status = "RELEASED" /\ work[w].completed < work[w].quantity}
<1>1. run.phase = "orders" /\ UNCHANGED <<bomVars, onHand, purchases, work>> /\ run' = [run EXCEPT !.phase = "work", !.orders = work, !.todo = todo]
  BY AfterReads DEF ReadWorkOrders
<1>2. BOMTypes'
  BY <1>1 DEF PlanInv, BOMTypes, BOMTypeOK, bomVars
<1>3. ShopTypes /\ ShopTypes' /\ \A i : UNCHANGED <<FromPurchases(i), FromWork(i)>>
  BY <1>1, SupplyRests DEF PlanInv
<1>4. RunTypes(run) /\ IsRun(run) /\ DOMAIN run.components = {} /\ DOMAIN run.planned = {} /\ run.gross = Demand
  BY <1>1 DEF PlanInv, RunTypes, RunStands
<1>5. AreOrders(work) /\ todo \subseteq WorkOrders
  BY <1>3 DEF ShopTypes
<1>6. run' = [phase |-> "work", level |-> run.level, stock |-> run.stock, position |-> run.position, orders |-> work, todo |-> todo,
              scheduled |-> run.scheduled, gross |-> run.gross, components |-> run.components, planned |-> run.planned]
  <2> HIDE DEF todo
  <2> QED
    BY <1>1, <1>4 DEF IsRun
<1>7. IsRun(run') /\ run'.phase = "work" /\ run'.stock = run.stock
      /\ run'.level = run.level /\ run'.position = run.position /\ run'.todo = todo /\ run'.orders = work /\ run'.scheduled = run.scheduled
      /\ run'.gross = run.gross /\ run'.components = run.components /\ run'.planned = run.planned
  <2> HIDE DEF todo
  <2> QED
    BY <1>6 DEF IsRun
<1>8. RunTypes(run')
  <2> HIDE DEF todo
  <2> QED
    BY <1>1, <1>4, <1>5, <1>7 DEF RunTypes, RunPhases
<1>9. CacheHas(run')
  BY <1>4, <1>7 DEF CacheHas
<1>10. GrossIs(run')
  <2> SUFFICES ASSUME NEW i \in Items, NEW d \in Dates
               PROVE  run'.gross[i][d] = Demand[i][d] + SumFunctionOnSet(OrdersRead(run', i, d), WorkOrders) + SumFunctionOnSet(ItemsPlanned(run', i, d), Items)
    BY DEF GrossIs
  <2>1. \A w \in WorkOrders : OrdersRead(run', i, d)[w] = 0
    <3> TAKE w \in WorkOrders
    <3>1. Per(run.components, work[w].item, i) = 0
      BY <1>4 DEF Per
    <3>2. Unfinished(work)[w] \in Nat
      BY <1>3, SupplyIs
    <3> QED
      BY <1>7, <3>1, <3>2 DEF OrdersRead, NeedsOfOrder
  <2>2. \A p \in Items : ItemsPlanned(run', i, d)[p] = 0
    BY <1>4, <1>7 DEF ItemsPlanned
  <2>3. IsFiniteSet(WorkOrders) /\ IsFiniteSet(Items)
    BY MaterialPlanningAssumption, BillOfMaterialsAssumption
  <2>4. SumFunctionOnSet(OrdersRead(run', i, d), WorkOrders) = 0 /\ SumFunctionOnSet(ItemsPlanned(run', i, d), Items) = 0
    BY <2>1, <2>2, <2>3, SumZero
  <2>5. run'.gross[i][d] = Demand[i][d] /\ Demand[i][d] \in Nat
    BY <1>4, <1>7, MaterialPlanningAssumption
  <2> QED
    BY <2>4, <2>5
<1>11. RunStands(run')
  BY <1>4, <1>7, <1>9, <1>10 DEF RunStands
<1>12. DeliveriesStand'
  <2> SUFFICES ASSUME NEW i \in Items PROVE CountedIn(i)' <= run'.position[i]
    BY DEF DeliveriesStand
  <2> DEFINE A == {w \in todo : work[w].item = i}
             W == {w \in WorkOrders : work[w].item = i /\ work[w].status = "RELEASED"}
  <2>1. CountedIn(i)' = run.stock[i] + UpTo(run.scheduled[i], Horizon - 1) + SumFunctionOnSet(Unfinished(work), A)
    BY <1>7 DEF CountedIn, ToTakeUp
  <2>2. CountedIn(i) <= run.position[i] /\ CountedIn(i) = run.stock[i] + UpTo(run.scheduled[i], Horizon - 1) + FromWork(i)
    BY <1>1 DEF PlanInv, DeliveriesStand, CountedIn
  <2>3. run.stock[i] \in Int /\ run.position[i] \in Int
    BY <1>1, <1>4 DEF RunTypes
  <2>4. IsFiniteSet(W) /\ A \subseteq W /\ \A w \in W : Unfinished(work)[w] \in Nat
    BY <1>3, SupplyIs, MaterialPlanningAssumption, FS_Subset
  <2>5. FromWork(i) = SumFunctionOnSet(Unfinished(work), W)
    BY DEF FromWork
  <2>6. SumFunctionOnSet(Unfinished(work), A) <= SumFunctionOnSet(Unfinished(work), W)
        /\ SumFunctionOnSet(Unfinished(work), A) \in Nat /\ SumFunctionOnSet(Unfinished(work), W) \in Nat
    <3> HIDE DEF A, W
    <3>1. IsFiniteSet(A) /\ \A w \in A : Unfinished(work)[w] \in Nat
      BY <2>4, FS_Subset
    <3> QED
      BY <2>4, <3>1, SumSubset, SumNat
  <2>7. UpTo(run.scheduled[i], Horizon - 1) \in Int
    <3>1. run.scheduled[i] \in [Dates -> Nat]
      BY <1>4 DEF RunTypes
    <3>2. Horizon - 1 \in Dates
      BY DatesAre DEF Dates
    <3> QED
      BY <3>1, <3>2, UpToGrows
  <2> HIDE DEF A, W
  <2> QED
    BY <1>7, <2>1, <2>2, <2>3, <2>5, <2>6, <2>7
<1> QED
  BY <1>2, <1>3, <1>8, <1>11, <1>12 DEF PlanInv

LEMMA StartNettingKeeps == ASSUME PlanInv, StartNetting PROVE PlanInv'
<1>1. run.phase = "work" /\ run.todo = {} /\ UNCHANGED <<bomVars, onHand, purchases, work>> /\ run' = [run EXCEPT !.phase = "netting"]
  BY DEF StartNetting
<1>2. BOMTypes'
  BY <1>1 DEF PlanInv, BOMTypes, BOMTypeOK, bomVars
<1>3. ShopTypes'
  BY <1>1, SupplyRests DEF PlanInv
<1>4. RunTypes(run) /\ IsRun(run) /\ RunStands(run)
  BY DEF PlanInv, RunTypes
<1>5. run' = [phase |-> "netting", level |-> run.level, stock |-> run.stock, position |-> run.position, orders |-> run.orders, todo |-> run.todo,
              scheduled |-> run.scheduled, gross |-> run.gross, components |-> run.components, planned |-> run.planned]
  BY <1>1, <1>4 DEF IsRun
<1>6. IsRun(run') /\ run'.phase = "netting" /\ run'.stock = run.stock /\ run'.orders = run.orders
      /\ run'.level = run.level /\ run'.position = run.position /\ run'.todo = run.todo /\ run'.scheduled = run.scheduled
      /\ run'.gross = run.gross /\ run'.components = run.components /\ run'.planned = run.planned
  BY <1>5 DEF IsRun
<1>7. RunTypes(run')
  BY <1>1, <1>4, <1>6 DEF RunTypes, RunPhases
<1>8. RunStands(run')
  BY <1>1, <1>4, <1>6 DEF RunStands, CacheHas, GrossIs, OrdersRead, ItemsPlanned, InOrder, PlannedAre
<1>9. DeliveriesStand'
  BY <1>1, <1>6 DEF PlanInv, DeliveriesStand, CountedIn, ToTakeUp
<1> QED
  BY <1>2, <1>3, <1>7, <1>8, <1>9 DEF PlanInv

LEMMA FinishRunKeeps == ASSUME PlanInv, FinishRun PROVE PlanInv'
<1>1. run.phase = "netting" /\ DOMAIN run.planned = Items /\ UNCHANGED <<bomVars, onHand, purchases, work>> /\ run' = [run EXCEPT !.phase = "done"]
  BY DEF FinishRun
<1>2. BOMTypes'
  BY <1>1 DEF PlanInv, BOMTypes, BOMTypeOK, bomVars
<1>3. ShopTypes'
  BY <1>1, SupplyRests DEF PlanInv
<1>4. RunTypes(run) /\ IsRun(run) /\ RunStands(run)
  BY DEF PlanInv, RunTypes
<1>5. run' = [phase |-> "done", level |-> run.level, stock |-> run.stock, position |-> run.position, orders |-> run.orders, todo |-> run.todo,
              scheduled |-> run.scheduled, gross |-> run.gross, components |-> run.components, planned |-> run.planned]
  BY <1>1, <1>4 DEF IsRun
<1>6. IsRun(run') /\ run'.phase = "done" /\ run'.stock = run.stock /\ run'.orders = run.orders
      /\ run'.level = run.level /\ run'.position = run.position /\ run'.todo = run.todo /\ run'.scheduled = run.scheduled
      /\ run'.gross = run.gross /\ run'.components = run.components /\ run'.planned = run.planned
  BY <1>5 DEF IsRun
<1>7. RunTypes(run')
  BY <1>1, <1>4, <1>6 DEF RunTypes, RunPhases
<1>8. RunStands(run')
  BY <1>1, <1>4, <1>6 DEF RunStands, CacheHas, GrossIs, OrdersRead, ItemsPlanned, InOrder, PlannedAre
<1>9. DeliveriesStand'
  BY <1>1, <1>6 DEF PlanInv, DeliveriesStand, CountedIn, ToTakeUp
<1> QED
  BY <1>2, <1>3, <1>7, <1>8, <1>9 DEF PlanInv

-----------------------------------------------------------------------------
(* What the others do meanwhile.                                           *)
LEMMA RunRests == UNCHANGED run => (RunTypes(run) /\ RunStands(run) => RunTypes(run)' /\ RunStands(run)')
<1> SUFFICES ASSUME run' = run PROVE RunTypes(run) /\ RunStands(run) => RunTypes(run') /\ RunStands(run')
  OBVIOUS
<1> QED
  OBVIOUS

LEMMA PostingKeeps ==
    ASSUME PlanInv, UNCHANGED <<bomVars, run>>, ShopTypes',
           \A i \in Items : /\ FromPurchases(i)' \in Int /\ FromWork(i)' \in Int
                            /\ FromPurchases(i)' <= FromPurchases(i) /\ FromWork(i)' <= FromWork(i)
                            /\ onHand'[i] + FromPurchases(i)' + FromWork(i)' <= onHand[i] + FromPurchases(i) + FromWork(i)
    PROVE  PlanInv'
<1>1. BOMTypes'
  BY DEF PlanInv, BOMTypes, BOMTypeOK, bomVars
<1>2. RunTypes(run)' /\ RunStands(run)'
  BY RunRests DEF PlanInv
<1>3. DeliveriesStand'
  <2> SUFFICES ASSUME run.phase \notin {"idle", "failed"}, NEW i \in Items PROVE CountedIn(i)' <= run.position[i]
    BY DEF DeliveriesStand
  <2>1. CountedIn(i) <= run.position[i] /\ RunTypes(run) /\ ShopTypes
    BY DEF PlanInv, DeliveriesStand
  <2>2. /\ FromPurchases(i) \in Nat /\ FromWork(i) \in Nat /\ FromPurchases(i)' \in Int /\ FromWork(i)' \in Int
    <3>1. FromPurchases(i) \in Nat /\ FromWork(i) \in Nat
      BY <2>1, SupplyIs
    <3> QED
      BY <3>1
  <2>3. onHand[i] \in Int /\ onHand'[i] \in Int /\ run.position[i] \in Int
    BY <2>1 DEF ShopTypes, RunTypes
  <2>4. CASE run.phase = "stock"
    BY <2>1, <2>2, <2>3, <2>4 DEF CountedIn
  <2>5. CASE run.phase = "purchases"
    <3>1. run.stock[i] \in Int
      BY <2>1, <2>5 DEF RunTypes
    <3>2. CountedIn(i) = run.stock[i] + FromPurchases(i) + FromWork(i) /\ CountedIn(i)' = run.stock[i] + FromPurchases(i)' + FromWork(i)'
      BY <2>5 DEF CountedIn
    <3> QED
      BY <2>1, <2>2, <2>3, <3>1, <3>2
  <2>6. CASE run.phase = "orders"
    <3>1. run.stock[i] \in Int
      BY <2>1, <2>6 DEF RunTypes
    <3>2. UpTo(run.scheduled[i], Horizon - 1) \in Int
      <4>1. run.scheduled[i] \in [Dates -> Nat]
        BY <2>1 DEF RunTypes
      <4>2. Horizon - 1 \in Dates
        BY DatesAre DEF Dates
      <4> QED
        BY <4>1, <4>2, UpToGrows
    <3>3. /\ CountedIn(i) = run.stock[i] + UpTo(run.scheduled[i], Horizon - 1) + FromWork(i)
          /\ CountedIn(i)' = run.stock[i] + UpTo(run.scheduled[i], Horizon - 1) + FromWork(i)'
      BY <2>6 DEF CountedIn
    <3> QED
      BY <2>1, <2>2, <2>3, <3>1, <3>2, <3>3
  <2>7. CASE run.phase \in {"work", "netting", "done"}
    <3>1. CountedIn(i)' = CountedIn(i)
      BY <2>7 DEF CountedIn, ToTakeUp
    <3> QED
      BY <2>1, <3>1
  <2> QED
    BY <2>1, <2>4, <2>5, <2>6, <2>7 DEF RunTypes, RunPhases
<1> QED
  BY <1>1, <1>2, <1>3 DEF PlanInv

LEMMA ReceivePurchaseKeeps ==
    ASSUME PlanInv, NEW p \in Purchases, NEW q \in 1..Remaining(purchases[p]), ReceivePurchase(p, q)
    PROVE  PlanInv'
<1> DEFINE row == purchases[p]
           next == [row EXCEPT !.received = @ + q]
<1>1. ShopTypes /\ row \in PurchaseOrder
  BY DEF PlanInv, ShopTypes
<1>2. q \in Nat /\ q <= Remaining(row) /\ row.received \in Nat /\ row.quantity \in Nat /\ row.item \in Items
  BY <1>1 DEF PurchaseOrder, Remaining
<1>3. /\ purchases' = [purchases EXCEPT ![p] = next] /\ onHand' = [onHand EXCEPT ![row.item] = @ + q]
      /\ UNCHANGED <<bomVars, work, run>>
  BY DEF ReceivePurchase
<1>4. next \in PurchaseOrder /\ next.item = row.item /\ next.blocked = row.blocked /\ Remaining(next) = Remaining(row) - q
      /\ Remaining(row) \in Int
  BY <1>1, <1>2 DEF PurchaseOrder, Remaining
<1> HIDE DEF next
<1>5. purchases' \in [Purchases -> PurchaseOrder] /\ purchases'[p] = next /\ \A x \in Purchases : x # p => purchases'[x] = purchases[x]
  BY <1>1, <1>3, <1>4 DEF ShopTypes
<1>6. onHand' \in [Items -> Int] /\ \A i \in Items : onHand'[i] = onHand[i] + IF i = row.item THEN q ELSE 0
  BY <1>1, <1>2, <1>3 DEF ShopTypes
<1>7. ShopTypes'
  BY <1>1, <1>3, <1>5, <1>6 DEF ShopTypes, AreOrders
<1>8. \A x \in Purchases : Outstanding[x] \in Nat
  BY <1>1 DEF ShopTypes, Outstanding, Remaining, PurchaseOrder
<1>9. /\ Outstanding'[p] = Outstanding[p] - q
      /\ \A x \in Purchases : Outstanding'[x] \in Int /\ (x # p => Outstanding'[x] = Outstanding[x])
  <2>1. Outstanding' = [x \in Purchases |-> Remaining(purchases'[x])] /\ Outstanding = [x \in Purchases |-> Remaining(purchases[x])]
    BY DEF Outstanding
  <2>2. Outstanding'[p] = Outstanding[p] - q
    BY <1>4, <1>5, <2>1
  <2>3. \A x \in Purchases : x # p => Outstanding'[x] = Outstanding[x]
    BY <1>5, <2>1
  <2> QED
    BY <1>2, <1>8, <2>2, <2>3
<1>10. ASSUME NEW i \in Items
       PROVE  FromPurchases(i)' = FromPurchases(i) - IF i = row.item THEN q ELSE 0
  <2> DEFINE T == {x \in Purchases : purchases[x].item = i /\ ~purchases[x].blocked}
             old == Outstanding
             new == Outstanding'
  <2>1. {x \in Purchases : purchases'[x].item = i /\ ~purchases'[x].blocked} = T
    BY <1>4, <1>5
  <2>2. FromPurchases(i) = SumFunctionOnSet(old, T) /\ FromPurchases(i)' = SumFunctionOnSet(new, T)
    BY <2>1 DEF FromPurchases
  <2>3. IsFiniteSet(T) /\ \A x \in T : old[x] \in Int /\ new[x] \in Int /\ (x # p => new[x] = old[x])
    BY <1>8, <1>9, MaterialPlanningAssumption, FS_Subset
  <2>4. p \in T <=> i = row.item
    BY DEF ReceivePurchase
  <2>5. new[p] = old[p] - q /\ old[p] \in Int
    BY <1>8, <1>9
  <2> HIDE DEF T, old, new
  <2>6. SumFunctionOnSet(old, T) \in Int
    BY <2>3, SumType
  <2>7. CASE i = row.item
    <3>1. SumFunctionOnSet(new, T) = SumFunctionOnSet(old, T) - old[p] + new[p]
      BY <2>3, <2>4, <2>7, SumChange
    <3> QED
      BY <1>2, <2>2, <2>5, <2>6, <2>7, <3>1
  <2>8. CASE i # row.item
    <3>1. \A x \in T : old[x] \in Int /\ new[x] = old[x]
      BY <2>3, <2>4, <2>8
    <3>2. SumFunctionOnSet(new, T) = SumFunctionOnSet(old, T)
      BY <2>3, <3>1, SumSame
    <3> QED
      BY <2>2, <2>6, <2>8, <3>2
  <2> QED
    BY <2>7, <2>8
<1>11. \A i : FromWork(i)' = FromWork(i)
  BY <1>3 DEF FromWork, Unfinished
<1>12. ASSUME NEW i \in Items
       PROVE  /\ FromPurchases(i)' \in Int /\ FromWork(i)' \in Int
              /\ FromPurchases(i)' <= FromPurchases(i) /\ FromWork(i)' <= FromWork(i)
              /\ onHand'[i] + FromPurchases(i)' + FromWork(i)' <= onHand[i] + FromPurchases(i) + FromWork(i)
  <2>1. FromPurchases(i) \in Nat /\ FromWork(i) \in Nat /\ onHand[i] \in Int
    BY <1>1, SupplyIs DEF ShopTypes
  <2> QED
    BY <1>2, <1>6, <1>10, <1>11, <2>1
<1> QED
  BY <1>3, <1>7, <1>12, PostingKeeps

LEMMA CompleteWorkOrderKeeps ==
    ASSUME PlanInv, NEW w \in WorkOrders, NEW q \in 1..(work[w].quantity - work[w].completed),
           NEW used, \A i \in Items : used[i] \in Nat, CompleteWorkOrder(w, q, used)
    PROVE  PlanInv'
<1> DEFINE row == work[w]
           status == IF row.completed + q = row.quantity THEN "COMPLETED" ELSE row.status
           next == [row EXCEPT !.completed = @ + q, !.status = status]
<1>1. ShopTypes /\ row \in WorkOrder /\ row.completed <= row.quantity /\ row.status = "RELEASED"
  BY DEF PlanInv, ShopTypes, AreOrders, CompleteWorkOrder
<1>2. row.quantity \in Nat /\ row.completed \in Nat /\ row.item \in Items /\ q \in Nat /\ q <= row.quantity - row.completed /\ q > 0
  BY <1>1 DEF WorkOrder
<1>3. /\ work' = [work EXCEPT ![w] = next]
      /\ onHand' = [i \in Items |-> onHand[i] - used[i] + IF i = row.item THEN q ELSE 0]
      /\ UNCHANGED <<bomVars, purchases, run>>
  <2>1. work' = [work EXCEPT ![w].completed = @ + q, ![w].status = IF row.completed + q = row.quantity THEN "COMPLETED" ELSE @]
    BY DEF CompleteWorkOrder
  <2>2. work' = [work EXCEPT ![w] = next]
    <3>1. row = [item |-> row.item, quantity |-> row.quantity, completed |-> row.completed, start |-> row.start, due |-> row.due, status |-> row.status]
      BY <1>1 DEF WorkOrder
    <3> QED
      BY <1>1, <2>1, <3>1 DEF ShopTypes, AreOrders
  <2> QED
    BY <2>2 DEF CompleteWorkOrder
<1>4. /\ next \in WorkOrder /\ next.item = row.item /\ next.quantity = row.quantity /\ next.completed = row.completed + q
      /\ next.status = status /\ next.completed <= next.quantity
  <2> DEFINE done == row.completed + q
  <2>1. row = [item |-> row.item, quantity |-> row.quantity, completed |-> row.completed, start |-> row.start, due |-> row.due, status |-> row.status]
    BY <1>1 DEF WorkOrder
  <2>2. done \in Nat /\ done <= row.quantity /\ status \in {"RELEASED", "COMPLETED"} /\ row.start \in Int /\ row.due \in Int
    BY <1>1, <1>2 DEF WorkOrder
  <2>3. next = [row EXCEPT !.completed = done, !.status = status]
    OBVIOUS
  <2> HIDE DEF done, status, next
  <2>4. next = [item |-> row.item, quantity |-> row.quantity, completed |-> done, start |-> row.start, due |-> row.due, status |-> status]
    BY <2>1, <2>3
  <2>5. next.item = row.item /\ next.quantity = row.quantity /\ next.completed = done /\ next.status = status
    BY <2>4
  <2>6. next \in WorkOrder
    BY <1>2, <2>2, <2>4 DEF WorkOrder
  <2> QED
    BY <2>2, <2>5, <2>6 DEF done
<1> HIDE DEF next
<1>5. work' \in [WorkOrders -> WorkOrder] /\ work'[w] = next /\ \A x \in WorkOrders : x # w => work'[x] = work[x]
  BY <1>1, <1>3, <1>4 DEF ShopTypes, AreOrders
<1>6. \A i \in Items : onHand[i] \in Int
  BY <1>1 DEF ShopTypes
<1>7. onHand' \in [Items -> Int] /\ \A i \in Items : onHand'[i] = onHand[i] - used[i] + IF i = row.item THEN q ELSE 0
  BY <1>2, <1>3, <1>6
<1>8. ShopTypes'
  BY <1>1, <1>3, <1>4, <1>5, <1>7 DEF ShopTypes, AreOrders
<1>9. \A x \in WorkOrders : Unfinished(work)[x] \in Nat
  BY <1>1 DEF ShopTypes, AreOrders, Unfinished, WorkOrder
<1>10. /\ Unfinished(work)[w] = row.quantity - row.completed
       /\ Unfinished(work')[w] = Unfinished(work)[w] - q
       /\ \A x \in WorkOrders : Unfinished(work')[x] \in Int /\ (x # w => Unfinished(work')[x] = Unfinished(work)[x])
  <2>1. Unfinished(work)[w] = row.quantity - row.completed
    BY DEF Unfinished
  <2>2. Unfinished(work')[w] = row.quantity - (row.completed + q)
    BY <1>4, <1>5 DEF Unfinished
  <2>3. \A x \in WorkOrders : x # w => Unfinished(work')[x] = Unfinished(work)[x]
    BY <1>5 DEF Unfinished
  <2>4. Unfinished(work')[w] = Unfinished(work)[w] - q /\ Unfinished(work')[w] \in Int
    BY <1>2, <2>1, <2>2
  <2> QED
    BY <1>9, <2>1, <2>3, <2>4
<1>11. ASSUME NEW i \in Items
       PROVE  FromWork(i)' = FromWork(i) - IF i = row.item THEN q ELSE 0
  <2> DEFINE T == {x \in WorkOrders : work[x].item = i /\ work[x].status = "RELEASED"}
             U == {x \in WorkOrders : work'[x].item = i /\ work'[x].status = "RELEASED"}
             old == Unfinished(work)
             new == Unfinished(work')
  <2>1. FromWork(i) = SumFunctionOnSet(old, T) /\ FromWork(i)' = SumFunctionOnSet(new, U)
    BY DEF FromWork
  <2>2. IsFiniteSet(T) /\ \A x \in T : old[x] \in Int /\ new[x] \in Int /\ (x # w => new[x] = old[x])
    BY <1>9, <1>10, MaterialPlanningAssumption, FS_Subset
  <2>3. w \in T <=> i = row.item
    BY <1>1
  <2>4. new[w] = old[w] - q /\ old[w] \in Int /\ old[w] = row.quantity - row.completed
    BY <1>9, <1>10
  <2>5. U = IF row.completed + q = row.quantity THEN T \ {w} ELSE T
    <3>1. next.status = "RELEASED" <=> row.completed + q # row.quantity
      BY <1>1, <1>4
    <3>2. \A x \in WorkOrders : x # w => (x \in U <=> x \in T)
      BY <1>5
    <3>3. w \in U <=> i = row.item /\ row.completed + q # row.quantity
      BY <1>4, <1>5, <3>1
    <3>4. U \subseteq WorkOrders /\ T \subseteq WorkOrders
      OBVIOUS
    <3> HIDE DEF U, T
    <3> QED
      BY <2>3, <3>2, <3>3, <3>4
  <2> HIDE DEF T, U, old, new
  <2>6. SumFunctionOnSet(old, T) \in Int
    BY <2>2, SumType
  <2>7. CASE i = row.item /\ row.completed + q # row.quantity
    <3>1. SumFunctionOnSet(new, T) = SumFunctionOnSet(old, T) - old[w] + new[w]
      BY <2>2, <2>3, <2>7, SumChange
    <3> QED
      BY <1>2, <2>1, <2>4, <2>5, <2>6, <2>7, <3>1
  <2>8. CASE i = row.item /\ row.completed + q = row.quantity
    <3>1. SumFunctionOnSet(old, T) = old[w] + SumFunctionOnSet(old, T \ {w})
      BY <2>2, <2>3, <2>8, SumRemove
    <3>2. SumFunctionOnSet(new, T \ {w}) = SumFunctionOnSet(old, T \ {w}) /\ SumFunctionOnSet(old, T \ {w}) \in Int
      BY <2>2, FS_RemoveElement, SumSame, SumType
    <3>3. old[w] = q
      BY <1>2, <2>4, <2>8
    <3> QED
      BY <1>2, <2>1, <2>5, <2>8, <3>1, <3>2, <3>3
  <2>9. CASE i # row.item
    <3>1. U = T /\ \A x \in T : old[x] \in Int /\ new[x] = old[x]
      BY <2>2, <2>3, <2>5, <2>9
    <3>2. SumFunctionOnSet(new, T) = SumFunctionOnSet(old, T)
      BY <2>2, <3>1, SumSame
    <3> QED
      BY <2>1, <2>6, <2>9, <3>1, <3>2
  <2> QED
    BY <2>7, <2>8, <2>9
<1>12. \A i : FromPurchases(i)' = FromPurchases(i)
  BY <1>3 DEF FromPurchases, Outstanding
<1>13. ASSUME NEW i \in Items
       PROVE  /\ FromPurchases(i)' \in Int /\ FromWork(i)' \in Int
              /\ FromPurchases(i)' <= FromPurchases(i) /\ FromWork(i)' <= FromWork(i)
              /\ onHand'[i] + FromPurchases(i)' + FromWork(i)' <= onHand[i] + FromPurchases(i) + FromWork(i)
  <2>1. FromPurchases(i) \in Nat /\ FromWork(i) \in Nat /\ onHand[i] \in Int /\ used[i] \in Nat
    BY <1>1, SupplyIs DEF ShopTypes
  <2> QED
    BY <1>2, <1>7, <1>11, <1>12, <2>1
<1> QED
  BY <1>3, <1>8, <1>13, PostingKeeps

LEMMA BOMKeepsPlan == ASSUME PlanInv, BOMNext, UNCHANGED planVars PROVE PlanInv'
<1>1. BOMTypes'
  BY BOMTypesStep DEF PlanInv
<1>2. UNCHANGED <<onHand, purchases, work, run>>
  BY DEF planVars
<1>3. ShopTypes' /\ RunTypes(run)' /\ RunStands(run)'
  BY <1>2, SupplyRests, RunRests DEF PlanInv
<1>4. \A i : CountedIn(i)' = CountedIn(i)
  BY <1>2, SupplyRests DEF CountedIn, ToTakeUp
<1> QED
  BY <1>1, <1>2, <1>3, <1>4 DEF PlanInv, DeliveriesStand

-----------------------------------------------------------------------------
(* What the run adds to the requirements, step by step.                    *)
Extends(more, kept) ==
    /\ DOMAIN kept \subseteq DOMAIN more /\ DOMAIN more \subseteq Items
    /\ \A p \in DOMAIN more : IsList(more[p])
    /\ \A p \in DOMAIN kept : more[p] = kept[p]

LEMMA NeedsAre ==
    ASSUME NEW components, \A p \in DOMAIN components : IsList(components[p]), NEW i \in Items, NEW d
    PROVE  /\ \A p : Per(components, p, i) \in Nat
           /\ \A rows : AreOrders(rows) => \A w \in WorkOrders : Unfinished(rows)[w] \in Nat /\ NeedsOfOrder(rows, components, w, i, d) \in Nat
           /\ \A receipts \in [Dates -> Nat] : \A p : NeedsOfPlan(components, receipts, p, i, d) \in Nat
<1>1. \A p : Per(components, p, i) \in Nat
  BY DEF Per, IsList
<1>2. ASSUME NEW rows, AreOrders(rows), NEW w \in WorkOrders PROVE Unfinished(rows)[w] \in Nat /\ NeedsOfOrder(rows, components, w, i, d) \in Nat
  <2>1. Unfinished(rows)[w] \in Nat
    BY <1>2 DEF AreOrders, Unfinished, WorkOrder
  <2>2. Per(components, rows[w].item, i) \in Nat
    BY <1>1
  <2> QED
    BY <2>1, <2>2 DEF NeedsOfOrder
<1>3. ASSUME NEW receipts \in [Dates -> Nat], NEW p PROVE NeedsOfPlan(components, receipts, p, i, d) \in Nat
  <2>1. ReleasedOn(receipts, Master[p].lead, d) \in Nat
    BY ReleasedIs
  <2>2. Per(components, p, i) \in Nat
    BY <1>1
  <2> QED
    BY <2>1, <2>2 DEF NeedsOfPlan
<1> QED
  BY <1>1, <1>2, <1>3

\* Components read later change nothing of what was called for before.
LEMMA NeedsStay ==
    ASSUME NEW r, RunTypes(r), AreOrders(r.orders), CacheHas(r), NEW more, Extends(more, r.components), NEW i \in Items, NEW d \in Dates
    PROVE  /\ \A w \in WorkOrders \ r.todo : NeedsOfOrder(r.orders, more, w, i, d) = NeedsOfOrder(r.orders, r.components, w, i, d)
           /\ \A p \in DOMAIN r.planned : NeedsOfPlan(more, r.planned[p], p, i, d) = NeedsOfPlan(r.components, r.planned[p], p, i, d)
<1>1. \A p \in DOMAIN r.components : Per(more, p, i) = Per(r.components, p, i)
  BY DEF Extends, Per
<1>2. (\A p \in DOMAIN r.components : IsList(r.components[p])) /\ \A p \in DOMAIN more : IsList(more[p])
  BY DEF RunTypes, Extends
<1>3. \A p : Per(more, p, i) \in Nat /\ Per(r.components, p, i) \in Nat
  BY <1>2, NeedsAre
<1>4. ASSUME NEW w \in WorkOrders \ r.todo PROVE NeedsOfOrder(r.orders, more, w, i, d) = NeedsOfOrder(r.orders, r.components, w, i, d)
  <2> DEFINE wo == r.orders[w]
  <2>1. wo \in WorkOrder /\ wo.completed <= wo.quantity /\ Unfinished(r.orders)[w] = wo.quantity - wo.completed
    BY DEF AreOrders, Unfinished
  <2>2. wo.start \in Int /\ wo.completed \in Nat /\ wo.quantity \in Nat
    BY <2>1 DEF WorkOrder
  <2>3. CASE ~(wo.status = "RELEASED" /\ Due(wo.start) = d)
    BY <2>3 DEF NeedsOfOrder
  <2>4. CASE wo.status = "RELEASED" /\ Due(wo.start) = d /\ wo.completed = wo.quantity
    BY <1>3, <2>1, <2>2, <2>4 DEF NeedsOfOrder
  <2>5. CASE wo.status = "RELEASED" /\ Due(wo.start) = d /\ wo.completed < wo.quantity
    <3>1. wo.start < Horizon
      BY <2>2, <2>5, DatesAre
    <3>2. wo.item \in DOMAIN r.components
      BY <2>5, <3>1 DEF CacheHas
    <3> QED
      BY <1>1, <2>5, <3>2 DEF NeedsOfOrder
  <2> QED
    BY <2>1, <2>2, <2>3, <2>4, <2>5
<1>5. ASSUME NEW p \in DOMAIN r.planned PROVE NeedsOfPlan(more, r.planned[p], p, i, d) = NeedsOfPlan(r.components, r.planned[p], p, i, d)
  <2>1. r.planned[p] \in [Dates -> Nat]
    BY DEF RunTypes
  <2>2. CASE p \in DOMAIN r.components
    BY <1>1, <2>2 DEF NeedsOfPlan
  <2>3. CASE p \notin DOMAIN r.components
    <3>1. \A e \in Dates : r.planned[p][e] = 0
      BY <2>1, <2>3 DEF CacheHas
    <3>2. ReleasedOn(r.planned[p], Master[p].lead, d) = 0
      BY <2>1, <3>1, ReleasedIs
    <3> QED
      BY <1>3, <3>2 DEF NeedsOfPlan
  <2> QED
    BY <2>2, <2>3
<1> QED
  BY <1>4, <1>5

LEMMA GrossOfOrder ==
    ASSUME NEW r, NEW s, RunTypes(r), AreOrders(r.orders), CacheHas(r), GrossIs(r), NEW w \in r.todo, Extends(s.components, r.components),
           s.orders = r.orders, s.todo = r.todo \ {w}, s.planned = r.planned,
           \A i \in Items : \A d \in Dates : s.gross[i][d] = r.gross[i][d] + NeedsOfOrder(r.orders, s.components, w, i, d)
    PROVE  GrossIs(s)
<1> SUFFICES ASSUME NEW i \in Items, NEW d \in Dates
             PROVE  s.gross[i][d] = Demand[i][d] + SumFunctionOnSet(OrdersRead(s, i, d), WorkOrders) + SumFunctionOnSet(ItemsPlanned(s, i, d), Items)
  BY DEF GrossIs
<1> DEFINE f == OrdersRead(r, i, d)
           g == OrdersRead(s, i, d)
           need == NeedsOfOrder(r.orders, s.components, w, i, d)
<1>1. (\A p \in DOMAIN r.components : IsList(r.components[p])) /\ (\A p \in DOMAIN s.components : IsList(s.components[p])) /\ w \in WorkOrders
  BY DEF RunTypes, Extends
<1>2. \A x \in WorkOrders : NeedsOfOrder(r.orders, r.components, x, i, d) \in Nat /\ NeedsOfOrder(r.orders, s.components, x, i, d) \in Nat
  BY <1>1, NeedsAre
<1>3. \A x \in WorkOrders \ r.todo : NeedsOfOrder(r.orders, s.components, x, i, d) = NeedsOfOrder(r.orders, r.components, x, i, d)
  BY NeedsStay
<1>4. \A x \in WorkOrders : f[x] \in Int /\ g[x] \in Int /\ (x # w => g[x] = f[x])
  BY <1>2, <1>3 DEF OrdersRead
<1>5. f[w] = 0 /\ g[w] = need /\ need \in Nat
  BY <1>1, <1>2 DEF OrdersRead
<1>6. IsFiniteSet(WorkOrders) /\ IsFiniteSet(Items)
  BY MaterialPlanningAssumption, BillOfMaterialsAssumption
<1>7. ItemsPlanned(s, i, d) = ItemsPlanned(r, i, d)
  <2>1. \A p \in DOMAIN r.planned : NeedsOfPlan(s.components, r.planned[p], p, i, d) = NeedsOfPlan(r.components, r.planned[p], p, i, d)
    BY NeedsStay
  <2> QED
    BY <2>1 DEF ItemsPlanned
<1>8. r.gross[i][d] = Demand[i][d] + SumFunctionOnSet(f, WorkOrders) + SumFunctionOnSet(ItemsPlanned(r, i, d), Items)
  BY DEF GrossIs
<1>9. s.gross[i][d] = r.gross[i][d] + need
  OBVIOUS
<1>10. Demand[i][d] \in Nat
  BY MaterialPlanningAssumption
<1>11. SumFunctionOnSet(ItemsPlanned(r, i, d), Items) \in Int
  <2>1. \A p \in Items : ItemsPlanned(r, i, d)[p] \in Int
    <3> TAKE p \in Items
    <3>1. CASE p \in DOMAIN r.planned
      <4>1. r.planned[p] \in [Dates -> Nat]
        BY <3>1 DEF RunTypes
      <4>2. NeedsOfPlan(r.components, r.planned[p], p, i, d) \in Nat
        BY <1>1, <4>1, NeedsAre
      <4> QED
        BY <3>1, <4>2 DEF ItemsPlanned
    <3>2. CASE p \notin DOMAIN r.planned
      BY <3>2 DEF ItemsPlanned
    <3> QED
      BY <3>1, <3>2
  <2> QED
    BY <1>6, <2>1, SumType
<1> HIDE DEF f, g, need
<1>12. SumFunctionOnSet(g, WorkOrders) = SumFunctionOnSet(f, WorkOrders) - f[w] + g[w] /\ SumFunctionOnSet(f, WorkOrders) \in Int
  BY <1>1, <1>4, <1>6, SumChange, SumType
<1>13. SumFunctionOnSet(g, WorkOrders) = SumFunctionOnSet(f, WorkOrders) + need
  BY <1>5, <1>12
<1>14. s.gross[i][d] = Demand[i][d] + SumFunctionOnSet(g, WorkOrders) + SumFunctionOnSet(ItemsPlanned(s, i, d), Items)
  BY <1>5, <1>7, <1>8, <1>9, <1>10, <1>11, <1>12, <1>13
<1> QED
  BY <1>14 DEF g

LEMMA GrossOfPlan ==
    ASSUME NEW r, NEW s, RunTypes(r), AreOrders(r.orders), CacheHas(r), GrossIs(r), Extends(s.components, r.components),
           NEW p \in Items, p \notin DOMAIN r.planned, NEW receipts \in [Dates -> Nat],
           s.orders = r.orders, s.todo = r.todo, s.planned = [x \in DOMAIN r.planned \union {p} |-> IF x = p THEN receipts ELSE r.planned[x]],
           \A i \in Items : \A d \in Dates : s.gross[i][d] = r.gross[i][d] + NeedsOfPlan(s.components, receipts, p, i, d)
    PROVE  GrossIs(s)
<1> SUFFICES ASSUME NEW i \in Items, NEW d \in Dates
             PROVE  s.gross[i][d] = Demand[i][d] + SumFunctionOnSet(OrdersRead(s, i, d), WorkOrders) + SumFunctionOnSet(ItemsPlanned(s, i, d), Items)
  BY DEF GrossIs
<1> DEFINE f == ItemsPlanned(r, i, d)
           g == ItemsPlanned(s, i, d)
           need == NeedsOfPlan(s.components, receipts, p, i, d)
<1>1. (\A x \in DOMAIN r.components : IsList(r.components[x])) /\ (\A x \in DOMAIN s.components : IsList(s.components[x]))
  BY DEF RunTypes, Extends
<1>2. OrdersRead(s, i, d) = OrdersRead(r, i, d)
  <2>1. \A w \in WorkOrders \ r.todo : NeedsOfOrder(r.orders, s.components, w, i, d) = NeedsOfOrder(r.orders, r.components, w, i, d)
    BY NeedsStay
  <2> QED
    BY <2>1 DEF OrdersRead
<1>3. ASSUME NEW x \in Items PROVE f[x] \in Int /\ (x # p => g[x] = f[x])
  <2>1. CASE x \in DOMAIN r.planned
    <3>1. r.planned[x] \in [Dates -> Nat]
      BY <2>1 DEF RunTypes
    <3>2. NeedsOfPlan(r.components, r.planned[x], x, i, d) \in Nat
      BY <1>1, <3>1, NeedsAre
    <3>3. NeedsOfPlan(s.components, r.planned[x], x, i, d) = NeedsOfPlan(r.components, r.planned[x], x, i, d)
      BY <2>1, NeedsStay
    <3>4. x \in DOMAIN s.planned /\ (x # p => s.planned[x] = r.planned[x])
      BY <2>1
    <3> QED
      BY <2>1, <3>2, <3>3, <3>4 DEF ItemsPlanned
  <2>2. CASE x \notin DOMAIN r.planned
    <3>1. x # p => x \notin DOMAIN s.planned
      BY <2>2
    <3> QED
      BY <2>2, <3>1 DEF ItemsPlanned
  <2> QED
    BY <2>1, <2>2
<1>4. f[p] = 0 /\ g[p] = need
  <2>1. p \in DOMAIN s.planned /\ s.planned[p] = receipts
    OBVIOUS
  <2> QED
    BY <2>1 DEF ItemsPlanned
<1>5. need \in Nat
  BY <1>1, NeedsAre
<1>6. IsFiniteSet(WorkOrders) /\ IsFiniteSet(Items)
  BY MaterialPlanningAssumption, BillOfMaterialsAssumption
<1>7. r.gross[i][d] = Demand[i][d] + SumFunctionOnSet(OrdersRead(r, i, d), WorkOrders) + SumFunctionOnSet(f, Items)
  BY DEF GrossIs
<1>8. s.gross[i][d] = r.gross[i][d] + need
  OBVIOUS
<1>9. Demand[i][d] \in Nat
  BY MaterialPlanningAssumption
<1>10. SumFunctionOnSet(OrdersRead(r, i, d), WorkOrders) \in Int
  <2>1. \A w \in WorkOrders : NeedsOfOrder(r.orders, r.components, w, i, d) \in Nat
    BY <1>1, NeedsAre
  <2>2. \A w \in WorkOrders : OrdersRead(r, i, d)[w] \in Int
    BY <2>1 DEF OrdersRead
  <2> QED
    BY <1>6, <2>2, SumType
<1> HIDE DEF f, g, need
<1>11. \A x \in Items : f[x] \in Int /\ g[x] \in Int /\ (x # p => g[x] = f[x])
  BY <1>3, <1>4, <1>5
<1>12. SumFunctionOnSet(g, Items) = SumFunctionOnSet(f, Items) - f[p] + g[p] /\ SumFunctionOnSet(f, Items) \in Int
  BY <1>6, <1>11, SumChange, SumType
<1>13. s.gross[i][d] = Demand[i][d] + SumFunctionOnSet(OrdersRead(s, i, d), WorkOrders) + SumFunctionOnSet(g, Items)
  BY <1>2, <1>4, <1>5, <1>7, <1>8, <1>9, <1>10, <1>12
<1> QED
  BY <1>13 DEF g

LEMMA ReadWorkOrderKeeps == ASSUME PlanInv, NEW w \in run.todo, ReadWorkOrder(w) PROVE PlanInv'
<1> DEFINE wo == run.orders[w]
           open == Unfinished(run.orders)[w]
           started == wo.start < Horizon
           cache == IF started THEN Cached(wo.item) ELSE run.components
           day == [d \in Dates |-> IF d = Due(wo.start) THEN open ELSE 0]
           scheduled == IF wo.due < Horizon THEN [run.scheduled EXCEPT ![wo.item][Due(wo.due)] = @ + open] ELSE run.scheduled
           gross == IF started THEN Exploded(run.gross, day, 0, cache[wo.item]) ELSE run.gross
           todo == run.todo \ {w}
<1>1. /\ run.phase = "work" /\ UNCHANGED <<bomVars, onHand, purchases, work>>
      /\ run' = [run EXCEPT !.todo = todo, !.components = cache, !.scheduled = scheduled, !.gross = gross]
  BY DEF ReadWorkOrder
<1>2. BOMTypes'
  BY <1>1 DEF PlanInv, BOMTypes, BOMTypeOK, bomVars
<1>3. ShopTypes'
  BY <1>1, SupplyRests DEF PlanInv
<1>4. /\ RunTypes(run) /\ IsRun(run) /\ bom \in BOMs /\ AreOrders(run.orders) /\ w \in WorkOrders /\ run.todo \subseteq WorkOrders
      /\ wo.status = "RELEASED" /\ CacheHas(run) /\ GrossIs(run) /\ DOMAIN run.planned = {}
  BY <1>1 DEF PlanInv, RunTypes, RunStands, BOMTypes
<1>5. wo \in WorkOrder /\ wo.item \in Items /\ wo.start \in Int /\ wo.due \in Int /\ open \in Nat
  BY <1>4 DEF AreOrders, WorkOrder, Unfinished
<1>6. Extends(cache, run.components) /\ (started => wo.item \in DOMAIN cache)
  <2>1. CASE started
    <3> DEFINE it == wo.item
    <3>1. cache = Cached(it)
      BY <2>1
    <3>2. it \in Items
      BY <1>5
    <3> HIDE DEF it, cache
    <3>3. /\ DOMAIN cache = DOMAIN run.components \union {it}
          /\ \A p \in DOMAIN cache : IsList(cache[p])
          /\ \A p \in DOMAIN run.components : cache[p] = run.components[p]
      BY <1>4, <3>1, <3>2, CachedIs
    <3>4. DOMAIN run.components \subseteq Items
      BY <1>4 DEF RunTypes
    <3>5. Extends(cache, run.components)
      BY <3>2, <3>3, <3>4 DEF Extends
    <3> QED
      BY <3>3, <3>5 DEF it
  <2>2. CASE ~started
    <3>1. cache = run.components
      BY <2>2
    <3> HIDE DEF cache
    <3> QED
      BY <1>4, <2>2, <3>1 DEF Extends, RunTypes
  <2> QED
    BY <2>1, <2>2
<1>7. day \in [Dates -> Nat]
  BY <1>5
<1>8. /\ gross \in [Items -> [Dates -> Nat]]
      /\ \A i \in Items : \A d \in Dates : gross[i][d] = run.gross[i][d] + NeedsOfOrder(run.orders, cache, w, i, d)
  <2>1. run.gross \in [Items -> [Dates -> Nat]]
    BY <1>4 DEF RunTypes
  <2>2. CASE started
    <3> DEFINE list == cache[wo.item]
    <3>1. IsList(list) /\ wo.item \in DOMAIN cache /\ gross = Exploded(run.gross, day, 0, list)
      BY <1>6, <2>2 DEF Extends
    <3> HIDE DEF day, list, cache, gross
    <3>2. /\ gross \in [Items -> [Dates -> Nat]]
          /\ \A i \in Items : \A d \in Dates : gross[i][d] = run.gross[i][d] + IF i \in DOMAIN list THEN list[i] * ReleasedOn(day, 0, d) ELSE 0
      BY <1>7, <2>1, <3>1, ExplodedIs
    <3>3. ASSUME NEW i \in Items, NEW d \in Dates
          PROVE  (IF i \in DOMAIN list THEN list[i] * ReleasedOn(day, 0, d) ELSE 0) = NeedsOfOrder(run.orders, cache, w, i, d)
      <4>1. ReleasedOn(day, 0, d) = IF d = Due(wo.start) THEN open ELSE 0
        BY <1>5, ReleasedAtOnce DEF day
      <4>2. Per(cache, wo.item, i) = IF i \in DOMAIN list THEN list[i] ELSE 0
        BY <3>1 DEF Per, list
      <4>3. NeedsOfOrder(run.orders, cache, w, i, d) = IF Due(wo.start) = d THEN open * Per(cache, wo.item, i) ELSE 0
        BY <1>4 DEF NeedsOfOrder
      <4>4. i \in DOMAIN list => list[i] \in Nat
        BY <3>1 DEF IsList
      <4> HIDE DEF wo, open
      <4> QED
        BY <1>5, <4>1, <4>2, <4>3, <4>4
    <3> QED
      BY <3>2, <3>3
  <2>3. CASE ~started
    <3>1. gross = run.gross
      BY <2>3
    <3>2. ASSUME NEW i \in Items, NEW d \in Dates PROVE NeedsOfOrder(run.orders, cache, w, i, d) = 0
      <4>1. Due(wo.start) # d
        BY <1>5, <2>3, DatesAre
      <4> QED
        BY <4>1 DEF NeedsOfOrder
    <3>3. \A i \in Items : \A d \in Dates : run.gross[i][d] \in Nat
      BY <2>1
    <3> HIDE DEF gross, cache, wo
    <3> QED
      BY <2>1, <3>1, <3>2, <3>3
  <2> QED
    BY <2>2, <2>3
<1>9. run.scheduled \in [Items -> [Dates -> Nat]]
  BY <1>4 DEF RunTypes
<1>10. /\ scheduled \in [Items -> [Dates -> Nat]]
       /\ \A i \in Items : i # wo.item => scheduled[i] = run.scheduled[i]
       /\ wo.due < Horizon => /\ Due(wo.due) \in Dates
                                 /\ \A d \in Dates : scheduled[wo.item][d] = run.scheduled[wo.item][d] + IF d = Due(wo.due) THEN open ELSE 0
       /\ ~(wo.due < Horizon) => scheduled[wo.item] = run.scheduled[wo.item]
  <2> HIDE DEF wo, open
  <2>1. CASE wo.due < Horizon
    <3> DEFINE x == Due(wo.due)
               row == run.scheduled[wo.item]
    <3>1. x \in Dates /\ row \in [Dates -> Nat]
      BY <1>5, <1>9, <2>1, DatesAre
    <3>2. scheduled = [run.scheduled EXCEPT ![wo.item] = [row EXCEPT ![x] = @ + open]]
      BY <2>1
    <3> HIDE DEF x, scheduled, row
    <3>3. [row EXCEPT ![x] = @ + open] \in [Dates -> Nat]
      BY <1>5, <3>1
    <3>4. scheduled \in [Items -> [Dates -> Nat]] /\ (\A i \in Items : i # wo.item => scheduled[i] = run.scheduled[i])
          /\ scheduled[wo.item] = [row EXCEPT ![x] = @ + open]
      BY <1>5, <1>9, <3>2, <3>3
    <3>5. \A d \in Dates : scheduled[wo.item][d] = row[d] + IF d = x THEN open ELSE 0
      BY <1>5, <3>1, <3>4
    <3> QED
      BY <2>1, <3>1, <3>4, <3>5 DEF x, row
  <2>2. CASE ~(wo.due < Horizon)
    BY <1>9, <2>2
  <2> QED
    BY <2>1, <2>2
<1>11. todo \subseteq WorkOrders
  BY <1>4
<1> HIDE DEF cache, gross, scheduled, todo
<1>12. run' = [phase |-> "work", level |-> run.level, stock |-> run.stock, position |-> run.position, orders |-> run.orders, todo |-> todo,
              scheduled |-> scheduled, gross |-> gross, components |-> cache, planned |-> run.planned]
  BY <1>1, <1>4 DEF IsRun
<1>13. IsRun(run') /\ run'.phase = "work" /\ run'.stock = run.stock /\ run'.orders = run.orders
      /\ run'.level = run.level /\ run'.position = run.position /\ run'.todo = todo /\ run'.scheduled = scheduled
      /\ run'.gross = gross /\ run'.components = cache /\ run'.planned = run.planned
  BY <1>12 DEF IsRun
<1>14. RunTypes(run')
  BY <1>1, <1>4, <1>6, <1>8, <1>10, <1>11, <1>13 DEF RunTypes, Extends, RunPhases
<1>15. CacheHas(run')
  <2> SUFFICES ASSUME NEW x \in WorkOrders \ run'.todo, run'.orders[x].status = "RELEASED", run'.orders[x].completed < run'.orders[x].quantity,
                      run'.orders[x].start < Horizon
               PROVE  run'.orders[x].item \in DOMAIN run'.components
    BY <1>4, <1>13 DEF CacheHas
  <2>1. CASE x = w
    BY <1>6, <1>13, <2>1
  <2>2. CASE x # w
    <3>1. x \in WorkOrders \ run.todo
      BY <1>13, <2>2 DEF todo
    <3>2. run.orders[x].item \in DOMAIN run.components
      BY <1>4, <1>13, <3>1 DEF CacheHas
    <3> QED
      BY <1>6, <1>13, <3>2 DEF Extends
  <2> QED
    BY <2>1, <2>2
<1>16. GrossIs(run')
  <2>1. Extends(run'.components, run.components) /\ run'.orders = run.orders /\ run'.todo = run.todo \ {w} /\ run'.planned = run.planned
    BY <1>6, <1>13 DEF todo
  <2>2. \A i \in Items : \A d \in Dates : run'.gross[i][d] = run.gross[i][d] + NeedsOfOrder(run.orders, run'.components, w, i, d)
    BY <1>8, <1>13
  <2> QED
    BY <1>4, <2>1, <2>2, GrossOfOrder
<1>17. RunStands(run')
  <2>1. \A x \in todo : run.orders[x].status = "RELEASED"
    BY <1>1 DEF PlanInv, RunStands, todo
  <2> QED
    BY <1>4, <1>13, <1>15, <1>16, <2>1 DEF RunStands
<1>18. DeliveriesStand'
  <2> SUFFICES ASSUME NEW i \in Items PROVE CountedIn(i)' <= run'.position[i]
    BY DEF DeliveriesStand
  <2> DEFINE U == Unfinished(run.orders)
             A == {x \in run.todo : run.orders[x].item = i}
             B == {x \in todo : run.orders[x].item = i}
             old == run.scheduled[i]
             new == scheduled[i]
  <2>1. CountedIn(i) = run.stock[i] + UpTo(old, Horizon - 1) + SumFunctionOnSet(U, A)
    BY <1>1 DEF CountedIn, ToTakeUp
  <2>2. CountedIn(i)' = run.stock[i] + UpTo(new, Horizon - 1) + SumFunctionOnSet(U, B)
    BY <1>13 DEF CountedIn, ToTakeUp
  <2>3. CountedIn(i) <= run.position[i]
    BY <1>1 DEF PlanInv, DeliveriesStand
  <2>4. run.stock[i] \in Int /\ run.position[i] \in Int
    BY <1>1, <1>4 DEF RunTypes
  <2>5. IsFiniteSet(A) /\ \A x \in A : U[x] \in Nat /\ U[x] \in Int
    <3>1. A \subseteq WorkOrders /\ IsFiniteSet(WorkOrders)
      BY <1>4, MaterialPlanningAssumption
    <3>2. \A x \in WorkOrders : U[x] \in Nat
      BY <1>4 DEF AreOrders, WorkOrder, Unfinished
    <3> QED
      BY <3>1, <3>2, FS_Subset
  <2>6. (i = wo.item <=> w \in A) /\ B = A \ {w}
    BY DEF todo
  <2>7. IsFiniteSet(Dates) /\ UpTo(old, Horizon - 1) = SumFunctionOnSet(old, Dates) /\ UpTo(new, Horizon - 1) = SumFunctionOnSet(new, Dates)
    BY DatesAre DEF UpTo, Dates
  <2>8. old \in [Dates -> Nat] /\ new \in [Dates -> Nat]
    BY <1>9, <1>10
  <2>9. (\A d \in Dates : old[d] \in Int) /\ \A d \in Dates : new[d] \in Int
    BY <2>8
  <2>10. open = U[w] /\ open \in Nat
    BY <1>5
  <2>11. /\ i # wo.item => new = old
         /\ i = wo.item /\ ~(wo.due < Horizon) => new = old
         /\ i = wo.item /\ wo.due < Horizon =>
              Due(wo.due) \in Dates /\ \A d \in Dates : new[d] = old[d] + IF d = Due(wo.due) THEN open ELSE 0
    BY <1>10
  <2> HIDE DEF U, A, B, old, new, wo, open, todo
  <2>12. SumFunctionOnSet(U, A) \in Int /\ SumFunctionOnSet(old, Dates) \in Int /\ SumFunctionOnSet(new, Dates) \in Int
    BY <2>5, <2>7, <2>9, SumType
  <2>13. CASE i # wo.item
    <3>1. B = A /\ new = old
      BY <2>6, <2>11, <2>13
    <3> QED
      BY <1>13, <2>1, <2>2, <2>3, <3>1
  <2>14. CASE i = wo.item
    <3>1. SumFunctionOnSet(U, A) = open + SumFunctionOnSet(U, B)
      BY <2>5, <2>6, <2>10, <2>14, SumRemove
    <3>2. SumFunctionOnSet(U, B) \in Int
      <4>1. IsFiniteSet(B) /\ \A x \in B : U[x] \in Int
        BY <2>5, <2>6, FS_RemoveElement
      <4> QED
        BY <4>1, SumType
    <3>3. SumFunctionOnSet(new, Dates) <= SumFunctionOnSet(old, Dates) + open
      <4>1. CASE ~(wo.due < Horizon)
        BY <2>10, <2>11, <2>12, <2>14, <4>1
      <4>2. CASE wo.due < Horizon
        <5> DEFINE x == Due(wo.due)
        <5>1. x \in Dates /\ \A d \in Dates : new[d] = old[d] + IF d = x THEN open ELSE 0
          BY <2>11, <2>14, <4>2
        <5> HIDE DEF x
        <5>2. new[x] = old[x] + open /\ \A d \in Dates : old[d] \in Int /\ new[d] \in Int /\ (d # x => new[d] = old[d])
          BY <2>9, <5>1
        <5>3. SumFunctionOnSet(new, Dates) = SumFunctionOnSet(old, Dates) - old[x] + new[x]
          BY <2>7, <5>1, <5>2, SumChange
        <5>4. old[x] \in Int
          BY <5>1, <5>2
        <5> QED
          BY <2>10, <2>12, <5>2, <5>3, <5>4
      <4> QED
        BY <4>1, <4>2
    <3> QED
      BY <1>13, <2>1, <2>2, <2>3, <2>4, <2>7, <2>10, <2>12, <3>1, <3>2, <3>3
  <2> QED
    BY <2>13, <2>14
<1> QED
  BY <1>2, <1>3, <1>14, <1>17, <1>18 DEF PlanInv

LEMMA PlanItemKeeps == ASSUME PlanInv, NEW i \in Items, PlanItem(i) PROVE PlanInv'
<1> DEFINE receipts == Netted(i, Grouped(i, run.gross[i]), run.scheduled[i], run.stock[i])
           plans == \E d \in Dates : receipts[d] > 0
           cache == IF plans THEN Cached(i) ELSE run.components
           gross == IF plans THEN Exploded(run.gross, receipts, Master[i].lead, cache[i]) ELSE run.gross
           planned == [x \in DOMAIN run.planned \union {i} |-> IF x = i THEN receipts ELSE run.planned[x]]
<1>1. /\ run.phase = "netting" /\ i \notin DOMAIN run.planned /\ UNCHANGED <<bomVars, onHand, purchases, work>>
      /\ \A j \in Items \ DOMAIN run.planned : run.level[i] < run.level[j] \/ (run.level[i] = run.level[j] /\ i <= j)
      /\ run' = IF plans /\ LevelDone(i, cache[i]) THEN [BeforeRun EXCEPT !.phase = "failed"]
                ELSE [run EXCEPT !.planned = planned, !.components = cache, !.gross = gross]
  BY DEF PlanItem
<1>2. BOMTypes'
  BY <1>1 DEF PlanInv, BOMTypes, BOMTypeOK, bomVars
<1>3. ShopTypes'
  BY <1>1, SupplyRests DEF PlanInv
<1>4. /\ RunTypes(run) /\ IsRun(run) /\ bom \in BOMs /\ AreOrders(run.orders) /\ run.todo = {}
      /\ CacheHas(run) /\ GrossIs(run) /\ InOrder(run) /\ PlannedAre(run)
  BY <1>1 DEF PlanInv, RunTypes, RunStands, BOMTypes
<1>5. /\ run.gross \in [Items -> [Dates -> Nat]] /\ run.scheduled \in [Items -> [Dates -> Nat]] /\ run.stock \in [Items -> Int]
      /\ run.level \in [Items -> Nat] /\ DOMAIN run.planned \subseteq Items /\ DOMAIN run.components \subseteq Items
      /\ (\A p \in DOMAIN run.planned : run.planned[p] \in [Dates -> Nat]) /\ \A p \in DOMAIN run.components : IsList(run.components[p])
  BY <1>1, <1>4 DEF RunTypes
<1>6. receipts \in [Dates -> Nat]
  <2>1. run.gross[i] \in [Dates -> Nat] /\ run.scheduled[i] \in [Dates -> Nat] /\ run.stock[i] \in Int
    BY <1>5
  <2>2. Grouped(i, run.gross[i]) \in [Dates -> Nat]
    BY <2>1, GroupsComeNoLater
  <2> QED
    BY <2>1, <2>2, NettingHolds
<1>7. CASE plans /\ LevelDone(i, cache[i])
  <2>1. run' = [BeforeRun EXCEPT !.phase = "failed"]
    BY <1>1, <1>7
  <2>2. /\ IsRun(run') /\ run'.phase = "failed" /\ run'.todo = {} /\ run'.components = <<>> /\ run'.planned = <<>>
        /\ run'.scheduled = Zero /\ run'.gross = Zero
    BY <2>1 DEF BeforeRun, IsRun
  <2>3. Zero \in [Items -> [Dates -> Nat]] /\ DOMAIN <<>> = {}
    BY DEF Zero
  <2>4. RunTypes(run')
    BY <2>2, <2>3 DEF RunTypes, RunPhases
  <2>5. RunStands(run')
    BY <2>2, <2>3 DEF RunStands
  <2>6. DeliveriesStand'
    BY <2>2 DEF DeliveriesStand
  <2> QED
    BY <1>2, <1>3, <2>4, <2>5, <2>6 DEF PlanInv
<1>8. CASE ~(plans /\ LevelDone(i, cache[i]))
  <2>1. /\ Extends(cache, run.components)
        /\ plans => i \in DOMAIN cache
    <3>1. CASE plans
      <4>1. cache = Cached(i)
        BY <3>1
      <4> HIDE DEF cache, plans
      <4>2. /\ DOMAIN cache = DOMAIN run.components \union {i}
            /\ \A p \in DOMAIN cache : IsList(cache[p])
            /\ \A p \in DOMAIN run.components : cache[p] = run.components[p]
        BY <1>4, <4>1, CachedIs
      <4> QED
        BY <1>5, <4>2 DEF Extends
    <3>2. CASE ~plans
      <4>1. cache = run.components
        BY <3>2
      <4> HIDE DEF cache, plans
      <4> QED
        BY <1>5, <3>2, <4>1 DEF Extends
    <3> QED
      BY <3>1, <3>2
  <2>2. /\ gross \in [Items -> [Dates -> Nat]]
        /\ \A c \in Items : \A d \in Dates : gross[c][d] = run.gross[c][d] + NeedsOfPlan(cache, receipts, i, c, d)
        /\ \A j \in DOMAIN run.planned \union {i} : gross[j] = run.gross[j]
    <3>1. CASE plans
      <4> DEFINE list == cache[i]
                 lead == Master[i].lead
      <4>1. IsList(list) /\ i \in DOMAIN cache /\ gross = Exploded(run.gross, receipts, lead, list) /\ \A c \in DOMAIN list : ~(run.level[c] <= run.level[i])
        BY <1>8, <2>1, <3>1 DEF Extends, LevelDone
      <4>2. \A c \in Items : \A d \in Dates : NeedsOfPlan(cache, receipts, i, c, d) = IF c \in DOMAIN list THEN list[c] * ReleasedOn(receipts, lead, d) ELSE 0
        <5> SUFFICES ASSUME NEW c \in Items, NEW d \in Dates
                     PROVE  NeedsOfPlan(cache, receipts, i, c, d) = IF c \in DOMAIN list THEN list[c] * ReleasedOn(receipts, lead, d) ELSE 0
          OBVIOUS
        <5>1. ReleasedOn(receipts, lead, d) \in Nat
          BY <1>6, ReleasedIs
        <5>2. Per(cache, i, c) = IF c \in DOMAIN list THEN list[c] ELSE 0
          BY <4>1 DEF Per
        <5>3. NeedsOfPlan(cache, receipts, i, c, d) = Per(cache, i, c) * ReleasedOn(receipts, lead, d)
          BY DEF NeedsOfPlan
        <5> HIDE DEF receipts, list, lead, cache
        <5> QED
          BY <5>1, <5>2, <5>3
      <4> HIDE DEF receipts, list, lead, cache, gross, plans
      <4>3. /\ gross \in [Items -> [Dates -> Nat]]
            /\ \A c \in Items : \A d \in Dates : gross[c][d] = run.gross[c][d] + IF c \in DOMAIN list THEN list[c] * ReleasedOn(receipts, lead, d) ELSE 0
            /\ \A c \in Items : c \notin DOMAIN list => gross[c] = run.gross[c]
        <5> DEFINE old == run.gross
        <5>1. old \in [Items -> [Dates -> Nat]] /\ receipts \in [Dates -> Nat] /\ IsList(list) /\ gross = Exploded(old, receipts, lead, list)
          BY <1>5, <1>6, <4>1
        <5> HIDE DEF old
        <5>2. /\ gross \in [Items -> [Dates -> Nat]]
              /\ \A c \in Items : \A d \in Dates : gross[c][d] = old[c][d] + IF c \in DOMAIN list THEN list[c] * ReleasedOn(receipts, lead, d) ELSE 0
              /\ \A c \in Items : c \notin DOMAIN list => gross[c] = old[c]
          BY ONLY <5>1, ExplodedIs
        <5> QED
          BY <5>2 DEF old
      <4>4. ASSUME NEW j \in DOMAIN run.planned \union {i} PROVE gross[j] = run.gross[j]
        <5>1. j \in Items /\ run.level[j] \in Nat /\ run.level[i] \in Nat /\ run.level[j] <= run.level[i]
          BY <1>1, <1>4, <1>5 DEF InOrder
        <5>2. j \notin DOMAIN list
          BY <4>1, <5>1
        <5> QED
          BY <4>3, <5>1, <5>2
      <4> QED
        BY <4>2, <4>3, <4>4
    <3>2. CASE ~plans
      <4>1. gross = run.gross /\ \A d \in Dates : receipts[d] = 0
        <5>1. \A d \in Dates : receipts[d] \in Nat /\ ~(receipts[d] > 0)
          BY <1>6, <3>2
        <5> QED
          BY <3>2, <5>1
      <4>2. \A p \in DOMAIN cache : IsList(cache[p])
        BY <2>1 DEF Extends
      <4> HIDE DEF receipts, cache, gross, plans
      <4>3. \A c \in Items : \A d \in Dates : NeedsOfPlan(cache, receipts, i, c, d) = 0
        <5> TAKE c \in Items
        <5> TAKE d \in Dates
        <5>1. ReleasedOn(receipts, Master[i].lead, d) = 0
          BY <1>6, <4>1, ReleasedIs
        <5>2. Per(cache, i, c) \in Nat
          BY <4>2, NeedsAre
        <5> QED
          BY <5>1, <5>2 DEF NeedsOfPlan
      <4>4. \A c \in Items : \A d \in Dates : run.gross[c][d] \in Nat
        BY <1>5
      <4> QED
        BY <1>5, <4>1, <4>3, <4>4
    <3> QED
      BY <3>1, <3>2
  <2>3. plans <=> \E d \in Dates : receipts[d] > 0
    OBVIOUS
  <2>4. run' = [run EXCEPT !.planned = planned, !.components = cache, !.gross = gross]
    BY <1>1, <1>8
  <2> HIDE DEF receipts, plans, cache, gross
  <2>5. DOMAIN planned = DOMAIN run.planned \union {i} /\ planned[i] = receipts /\ \A x \in DOMAIN run.planned : planned[x] = run.planned[x]
    BY <1>1
  <2> DEFINE next == planned
  <2>6. next = planned
    OBVIOUS
  <2> HIDE DEF planned, next
  <2>7. run' = [phase |-> run.phase, level |-> run.level, stock |-> run.stock, position |-> run.position, orders |-> run.orders, todo |-> run.todo,
                scheduled |-> run.scheduled, gross |-> gross, components |-> cache, planned |-> planned]
    BY <1>4, <2>4 DEF IsRun
  <2>8. IsRun(run') /\ run'.phase = "netting" /\ run'.stock = run.stock /\ run'.orders = run.orders
        /\ run'.level = run.level /\ run'.position = run.position /\ run'.todo = run.todo /\ run'.scheduled = run.scheduled
        /\ run'.gross = gross /\ run'.components = cache /\ run'.planned = planned
    BY <1>1, <2>7 DEF IsRun
  <2>9. RunTypes(run')
    <3>1. \A p \in DOMAIN planned : planned[p] \in [Dates -> Nat]
      BY <1>5, <1>6, <2>5
    <3>2. DOMAIN planned \subseteq Items
      BY <1>5, <2>5
    <3> QED
      BY <1>1, <1>4, <2>1, <2>2, <2>8, <3>1, <3>2 DEF RunTypes, Extends, RunPhases
  <2>10. CacheHas(run')
    <3>1. \A p \in DOMAIN planned : \A d \in Dates : planned[p][d] > 0 => p \in DOMAIN cache
      BY <1>4, <2>1, <2>3, <2>5 DEF CacheHas, Extends
    <3> QED
      BY <1>4, <2>1, <2>8, <3>1 DEF CacheHas, Extends
  <2>11. GrossIs(run')
    <3>1. run'.planned = [x \in DOMAIN run.planned \union {i} |-> IF x = i THEN receipts ELSE run.planned[x]]
      BY <2>8 DEF planned
    <3>2. Extends(run'.components, run.components) /\ run'.orders = run.orders /\ run'.todo = run.todo
      BY <2>1, <2>8
    <3>3. \A c \in Items : \A d \in Dates : run'.gross[c][d] = run.gross[c][d] + NeedsOfPlan(run'.components, receipts, i, c, d)
      BY <2>2, <2>8
    <3> DEFINE r == run
               t == run'
    <3>4. /\ RunTypes(r) /\ AreOrders(r.orders) /\ CacheHas(r) /\ GrossIs(r) /\ Extends(t.components, r.components)
          /\ i \in Items /\ i \notin DOMAIN r.planned /\ receipts \in [Dates -> Nat] /\ t.orders = r.orders /\ t.todo = r.todo
          /\ t.planned = [x \in DOMAIN r.planned \union {i} |-> IF x = i THEN receipts ELSE r.planned[x]]
          /\ \A c \in Items : \A d \in Dates : t.gross[c][d] = r.gross[c][d] + NeedsOfPlan(t.components, receipts, i, c, d)
      BY <1>1, <1>4, <1>6, <3>1, <3>2, <3>3
    <3> HIDE DEF r, t
    <3>5. GrossIs(t)
      BY ONLY <3>4, GrossOfPlan
    <3> QED
      BY <3>5 DEF t
  <2>12. InOrder(run')
    <3> SUFFICES ASSUME NEW a \in DOMAIN planned, NEW b \in Items \ DOMAIN planned
                 PROVE  run.level[a] < run.level[b] \/ (run.level[a] = run.level[b] /\ a <= b)
      BY <2>8 DEF InOrder
    <3>1. b \in Items \ DOMAIN run.planned /\ (a = i \/ a \in DOMAIN run.planned)
      BY <2>5
    <3> QED
      BY <1>1, <1>4, <3>1 DEF InOrder
  <2>13. PlannedAre(run')
    <3> SUFFICES ASSUME NEW j \in DOMAIN planned
                 PROVE  planned[j] = Netted(j, Grouped(j, gross[j]), run.scheduled[j], run.stock[j])
      BY <2>8 DEF PlannedAre
    <3>1. gross[j] = run.gross[j] /\ (j = i \/ j \in DOMAIN run.planned)
      BY <2>2, <2>5
    <3>2. CASE j = i
      BY <2>5, <3>1, <3>2 DEF receipts
    <3>3. CASE j \in DOMAIN run.planned
      BY <1>4, <2>5, <3>1, <3>3 DEF PlannedAre
    <3> QED
      BY <3>1, <3>2, <3>3
  <2>14. RunStands(run')
    BY <1>4, <2>8, <2>10, <2>11, <2>12, <2>13 DEF RunStands
  <2>15. DeliveriesStand'
    BY <1>1, <2>8 DEF PlanInv, DeliveriesStand, CountedIn, ToTakeUp
  <2> QED
    BY <1>2, <1>3, <2>9, <2>14, <2>15 DEF PlanInv
<1> QED
  BY <1>7, <1>8

LEMMA PlanInvStep == PlanInv /\ [PlanningNext]_<<bomVars, planVars>> => PlanInv'
<1> SUFFICES ASSUME PlanInv, [PlanningNext]_<<bomVars, planVars>> PROVE PlanInv'
  OBVIOUS
<1>1. CASE RunSteps
  BY <1>1, StartRunKeeps, ReadStockKeeps, ReadPurchasesKeeps, ReadWorkOrdersKeeps, StartNettingKeeps, FinishRunKeeps, ReadWorkOrderKeeps, PlanItemKeeps
     DEF RunSteps
<1>2. ASSUME NEW p \in Purchases, NEW q \in 1..Remaining(purchases[p]), ReceivePurchase(p, q) PROVE PlanInv'
  BY <1>2, ReceivePurchaseKeeps
<1>3. ASSUME NEW w \in WorkOrders, NEW q \in 1..(work[w].quantity - work[w].completed),
             CompleteWorkOrder(w, q, [i \in Items |-> IF <<work[w].item, i>> \in DOMAIN bom THEN q * bom[work[w].item, i] ELSE 0])
      PROVE  PlanInv'
  <2> DEFINE used == [i \in Items |-> IF <<work[w].item, i>> \in DOMAIN bom THEN q * bom[work[w].item, i] ELSE 0]
  <2>1. q \in Nat
    <3>1. work[w] \in WorkOrder
      BY DEF PlanInv, ShopTypes, AreOrders
    <3> QED
      BY <3>1 DEF WorkOrder
  <2>2. \A e \in DOMAIN bom : bom[e] \in Nat
    BY BillOfMaterialsAssumption, BOMsAre DEF PlanInv, BOMTypes
  <2>3. \A i \in Items : used[i] \in Nat
    <3> TAKE i \in Items
    <3> DEFINE e == <<work[w].item, i>>
    <3>1. CASE e \in DOMAIN bom
      <4>1. bom[e] \in Nat /\ used[i] = q * bom[e]
        BY <2>2, <3>1
      <4> DEFINE k == bom[e]
      <4> HIDE DEF used, e, k
      <4>2. k \in Nat /\ used[i] = q * k
        BY <4>1 DEF k
      <4> QED
        BY <2>1, <4>2
    <3>2. CASE e \notin DOMAIN bom
      BY <3>2
    <3> QED
      BY <3>1, <3>2
  <2> HIDE DEF used
  <2>4. CompleteWorkOrder(w, q, used)
    BY <1>3 DEF used
  <2> QED
    BY <2>3, <2>4, CompleteWorkOrderKeeps
<1>4. CASE BOMNext /\ UNCHANGED planVars
  BY <1>4, BOMKeepsPlan
<1>5. CASE UNCHANGED <<bomVars, planVars>>
  <2>1. UNCHANGED <<bomVars, onHand, purchases, work, run>>
    BY <1>5 DEF planVars
  <2>2. BOMTypes' /\ ShopTypes' /\ RunTypes(run)' /\ RunStands(run)'
    BY <2>1, SupplyRests, RunRests DEF PlanInv, BOMTypes, BOMTypeOK, bomVars
  <2>3. \A i : CountedIn(i)' = CountedIn(i)
    BY <2>1, SupplyRests DEF CountedIn, ToTakeUp
  <2> QED
    BY <2>1, <2>2, <2>3 DEF PlanInv, DeliveriesStand
<1> QED
  BY <1>1, <1>2, <1>3, <1>4, <1>5 DEF PlanningNext, Postings

LEMMA PlanInvariant == PlanningSpec => []PlanInv
<1>1. PlanningInit => PlanInv
  BY PlanInvInit
<1>2. PlanInv /\ [PlanningNext]_<<bomVars, planVars>> => PlanInv'
  BY PlanInvStep
<1> QED
  BY <1>1, <1>2, PTL DEF PlanningSpec

-----------------------------------------------------------------------------
(* What it comes to.                                                       *)
\* Every variable of a planning run stays in its type, beside BOM changes and postings (PlanningTypeOK;
\* MRPService.run).
THEOREM PlanningTypesCorrect == PlanningSpec => []PlanningTypeOK
<1>1. PlanInv => PlanningTypeOK
  BY DEF PlanInv, ShopTypes, AreOrders, RunTypes, PlanningTypeOK
<1> QED
  BY <1>1, PlanInvariant, PTL

\* Whatever arrives or is finished while the run reads stock, purchases and work orders one after the other, it nets
\* with no more of an item than there was of it, on hand and still to come, when it began (DeliveriesCountedOnce).
THEOREM ArrivalsCountOnce == PlanningSpec => []DeliveriesCountedOnce
<1>1. ASSUME PlanInv PROVE DeliveriesCountedOnce
  <2> SUFFICES ASSUME run.phase = "netting", NEW i \in Items PROVE run.stock[i] + UpTo(run.scheduled[i], Horizon - 1) <= run.position[i]
    BY DEF DeliveriesCountedOnce
  <2>1. run.todo = {} /\ CountedIn(i) <= run.position[i] /\ RunTypes(run)
    BY <1>1 DEF PlanInv, RunStands, DeliveriesStand
  <2>2. ToTakeUp(run, i) = 0
    <3>1. {w \in run.todo : run.orders[w].item = i} = {}
      BY <2>1
    <3> QED
      BY <3>1, FS_EmptySet, SumFirst DEF ToTakeUp
  <2>3. CountedIn(i) = run.stock[i] + UpTo(run.scheduled[i], Horizon - 1) + ToTakeUp(run, i)
    BY DEF CountedIn
  <2>4. run.stock[i] \in Int /\ UpTo(run.scheduled[i], Horizon - 1) \in Int
    <3>1. run.scheduled[i] \in [Dates -> Nat] /\ run.stock[i] \in Int
      BY <2>1 DEF RunTypes
    <3>2. Horizon - 1 \in Dates
      BY DatesAre DEF Dates
    <3> QED
      BY <3>1, <3>2, UpToGrows
  <2> QED
    BY <2>1, <2>2, <2>3, <2>4
<1>2. PlanInv => DeliveriesCountedOnce
  BY <1>1
<1> QED
  BY <1>2, PlanInvariant, PTL

\* A plan that comes out has taken each requirement of every level into account once, whatever BOM changes and postings
\* met the run: no balance falls below the policy of the item, and no lot is planned that the balance did not call
\* for (PlanMeetsRequirements).
THEOREM PlansMeetRequirements == PlanningSpec => []PlanMeetsRequirements
<1>1. ASSUME PlanInv PROVE PlanMeetsRequirements
  <2> SUFFICES ASSUME run.phase = "done", NEW i \in Items, NEW d \in Dates
               PROVE  /\ BalanceAt(i, d) >= Floor(i)
                      /\ run.planned[i][d] > 0 /\ Master[i].method # "POQ" => BalanceAt(i, d) - LotOf(i) < Ceiling(i)
    BY DEF PlanMeetsRequirements
  <2> DEFINE g == run.gross[i]
             s == run.scheduled[i]
             stock == run.stock[i]
             r == run.planned[i]
             ahead == Grouped(i, g)
  <2>1. RunTypes(run) /\ run.todo = {} /\ DOMAIN run.planned = Items /\ GrossIs(run) /\ PlannedAre(run) /\ AreOrders(run.orders)
    BY <1>1 DEF PlanInv, RunStands, RunTypes
  <2>2. g \in [Dates -> Nat] /\ s \in [Dates -> Nat] /\ stock \in Int /\ r = Netted(i, ahead, s, stock)
    BY <2>1 DEF RunTypes, PlannedAre
  <2>3. Requirements(i) = g
    <3>1. \A e \in Dates : OrdersRead(run, i, e) = [w \in WorkOrders |-> OfOrder(w, i, e)] /\ ItemsPlanned(run, i, e) = [p \in Items |-> OfPlan(p, i, e)]
      BY <2>1 DEF OrdersRead, ItemsPlanned, OfOrder, OfPlan, NeedsOfOrder, NeedsOfPlan
    <3>2. \A e \in Dates : Requirements(i)[e] = g[e]
      BY <2>1, <3>1 DEF GrossIs, Requirements
    <3>3. Requirements(i) = [e \in Dates |-> Requirements(i)[e]] /\ g = [e \in Dates |-> g[e]]
      BY <2>2 DEF Requirements
    <3> QED
      BY <3>2, <3>3
  <2>4. BalanceAt(i, d) = stock + UpTo(s, d) + UpTo(r, d) - UpTo(g, d)
    BY <2>3 DEF BalanceAt
  <2>5. ahead \in [Dates -> Nat] /\ UpTo(ahead, d) >= UpTo(g, d) /\ (Master[i].method # "POQ" => ahead = g)
    BY <2>2, GroupsComeNoLater
  <2> DEFINE balance(e) == stock + UpTo(s, e) + UpTo(r, e) - UpTo(ahead, e)
             b == balance(d)
  <2>6. r \in [Dates -> Nat] /\ b >= Floor(i) /\ (r[d] > 0 => b - LotOf(i) < Ceiling(i))
    <3>1. i \in Items /\ ahead \in [Dates -> Nat] /\ s \in [Dates -> Nat] /\ stock \in Int /\ r = Netted(i, ahead, s, stock)
      BY <2>2, <2>5
    <3> HIDE DEF g, s, stock, ahead, r
    <3>2. r \in [Dates -> Nat] /\ \A e \in Dates : balance(e) >= Floor(i) /\ (r[e] > 0 => balance(e) - LotOf(i) < Ceiling(i))
      BY ONLY <3>1, NettingHolds
    <3> HIDE DEF balance
    <3> QED
      BY <3>2
  <2>7. UpTo(s, d) \in Int /\ UpTo(r, d) \in Int /\ UpTo(g, d) \in Int /\ UpTo(ahead, d) \in Int
    BY <2>2, <2>5, <2>6, UpToGrows
  <2>8. Floor(i) \in Int
    <3>1. Policy[i] \in EffectivePolicy
      BY MaterialPlanningAssumption
    <3> QED
      BY <3>1 DEF EffectivePolicy, Floor
  <2> HIDE DEF g, s, stock, ahead
  <2>9. BalanceAt(i, d) >= Floor(i)
    BY <2>2, <2>4, <2>5, <2>6, <2>7, <2>8
  <2>10. ASSUME r[d] > 0, Master[i].method # "POQ" PROVE BalanceAt(i, d) - LotOf(i) < Ceiling(i)
    <3>1. BalanceAt(i, d) = b
      BY <2>4, <2>5, <2>10
    <3> HIDE DEF b
    <3> QED
      BY <2>6, <2>10, <3>1
  <2> QED
    BY <2>9, <2>10
<1>2. PlanInv => PlanMeetsRequirements
  BY <1>1
<1> QED
  BY <1>2, PlanInvariant, PTL

-----------------------------------------------------------------------------
(* The control tower.  Every snapshot holds a row the engine evaluated, and *)
(* every case has one; the rest is what the scores make of it.              *)

\* What the engine computed of a row, from what the row says.
Scored(e) ==
    LET score == 20 * SeverityScore(e.severity) + 15 * LatenessScore(e.impact) + 20 * RevenueScore(e.order.value)
                 + 10 * CustomerScore(e.order.priority, e.order.rank) + 25 * ConstraintScore(e.case.type) + 10 * e.aging
    IN IF ForcedP1(e.case.type) THEN Max({score, 7500}) ELSE score
Evaluated(e) ==
    /\ e.case \in [order : Orders, key : Keys, type : Types]
    /\ e.severity \in Severities /\ e.impact \in Nat /\ e.order \in SalesOrder /\ e.aging \in Int
    /\ e.score = Scored(e) /\ e.band = PriorityBand(e.score)

Refreshed(v) == v = [phase |-> v.phase, asOf |-> v.asOf, created |-> v.created, rows |-> v.rows, cases |-> v.cases, hashes |-> v.hashes]
TowerInv ==
    /\ order \in [Orders -> SalesOrder] /\ exceptions \subseteq PlanningException
    /\ cases \subseteq [order : Orders, key : Keys, type : Types]
    /\ tick \in 0..LastTime
    /\ refresh = [r \in Refreshes |-> refresh[r]]
    /\ \A r \in Refreshes : /\ Refreshed(refresh[r])
                            /\ refresh[r].asOf \in 0..LastTime /\ refresh[r].created \in 0..LastTime
                            /\ \A e \in refresh[r].rows : Evaluated(e)
    /\ \A s \in snapshots : Evaluated(s.evaluation) /\ s.asOf \in 0..LastTime /\ s.created \in 0..LastTime
    /\ \A c \in cases : \E s \in snapshots : s.evaluation.case = c

LEMMA LargerOfTwo == ASSUME NEW a \in Int, NEW b \in Int PROVE Max({a, b}) = IF a >= b THEN a ELSE b
BY DEF Max

LEMMA ScoresAreNumbers ==
    /\ \A s : SeverityScore(s) \in Int
    /\ \A d \in Int : LatenessScore(d) \in Int
    /\ \A v \in Int : RevenueScore(v) \in Int
    /\ \A h \in Int : AgingScore(h) \in Int
    /\ \A t : ConstraintScore(t) \in Int
<1>1. \A s : SeverityScore(s) \in Int
  BY DEF SeverityScore
<1>2. \A d \in Int : LatenessScore(d) \in Int
  BY DEF LatenessScore
<1>3. \A v \in Int : RevenueScore(v) \in Int
  BY DEF RevenueScore
<1>4. \A h \in Int : AgingScore(h) \in Int
  BY DEF AgingScore
<1>5. \A t : ConstraintScore(t) \in Int
  BY DEF ConstraintScore
<1> QED
  BY <1>1, <1>2, <1>3, <1>4, <1>5

LEMMA CustomerIs ==
    ASSUME NEW p \in Priorities, NEW k \in 1..5
    PROVE  LET u == CASE p = "EXPEDITE" -> 100 [] p = "HIGH" -> 75 [] OTHER -> 40
               v == CASE k = 1 -> 100 [] k = 2 -> 85 [] k = 3 -> 70 [] k = 4 -> 55 [] OTHER -> 40
           IN CustomerScore(p, k) = IF u >= v THEN u ELSE v
<1> DEFINE u == CASE p = "EXPEDITE" -> 100 [] p = "HIGH" -> 75 [] OTHER -> 40
           v == CASE k = 1 -> 100 [] k = 2 -> 85 [] k = 3 -> 70 [] k = 4 -> 55 [] OTHER -> 40
<1>1. u \in Int /\ v \in Int
  OBVIOUS
<1>2. CustomerScore(p, k) = Max({u, v})
  BY DEF CustomerScore
<1> HIDE DEF u, v
<1>3. CustomerScore(p, k) = IF u >= v THEN u ELSE v
  BY <1>1, <1>2, LargerOfTwo
<1> QED
  BY <1>3 DEF u, v

\* A better customer scores no lower.
LEMMA CustomerGrows ==
    ASSUME NEW p \in Priorities, NEW q \in Priorities, NEW j \in 1..5, NEW k \in 1..5,
           j >= k, p = q \/ q = "EXPEDITE"
    PROVE  /\ CustomerScore(p, j) <= CustomerScore(q, k)
           /\ CustomerScore(p, j) \in Int /\ CustomerScore(q, k) \in Int
BY CustomerIs DEF Priorities

LEMMA RevenueGrows == ASSUME NEW u \in Nat, NEW v \in Nat, u <= v PROVE RevenueScore(u) <= RevenueScore(v)
BY DEF RevenueScore
LEMMA LatenessGrows == ASSUME NEW u \in Nat, NEW v \in Nat, u <= v PROVE LatenessScore(u) <= LatenessScore(v)
BY DEF LatenessScore
LEMMA BandFalls == ASSUME NEW u \in Int, NEW v \in Int, u <= v PROVE PriorityBand(u) >= PriorityBand(v) /\ PriorityBand(u) \in 1..4 /\ PriorityBand(v) \in 1..4
BY DEF PriorityBand

-----------------------------------------------------------------------------
(* What the engine makes of an exception.                                  *)
LEMMA EvaluationIsEvaluated ==
    ASSUME NEW x \in PlanningException, NEW o \in SalesOrder, NEW asOf \in Nat
    PROVE  Evaluated(Evaluation(x, o, asOf))
<1> DEFINE m == Max({asOf - x.detected, 0})
           h == HoursPerTick * m
           e == Evaluation(x, o, asOf)
<1>0. x.order \in Orders /\ x.key \in Keys /\ x.type \in Types /\ x.severity \in Severities /\ x.impact \in Nat /\ x.detected \in 0..LastTime
  BY DEF PlanningException
<1>1. m \in Nat
  BY <1>0, LargerOfTwo, ControlTowerAssumption
<1>2. h \in Int
  <2> HIDE DEF m
  <2> QED
    BY <1>1, ControlTowerAssumption
<1> HIDE DEF m
<1>3. AgingScore(h) \in Int
  <2> HIDE DEF h
  <2> QED
    BY <1>2, ScoresAreNumbers
<1>4. e = [case |-> CaseKey(x), run |-> x.run, severity |-> x.severity, impact |-> x.impact, order |-> o,
           aging |-> AgingScore(h), score |-> PriorityScore(x, o, h), band |-> PriorityBand(PriorityScore(x, o, h))]
  BY DEF Evaluation, m
<1> HIDE DEF h, e
<1>5. /\ e.case = CaseKey(x) /\ e.severity = x.severity /\ e.impact = x.impact /\ e.order = o
      /\ e.aging = AgingScore(h) /\ e.score = PriorityScore(x, o, h) /\ e.band = PriorityBand(e.score)
  BY <1>4
<1>6. e.case \in [order : Orders, key : Keys, type : Types] /\ e.case.type = x.type
  BY <1>0, <1>5 DEF CaseKey
<1>7. Scored(e) = PriorityScore(x, o, h)
  BY <1>5, <1>6 DEF Scored, PriorityScore
<1> QED
  BY <1>0, <1>3, <1>5, <1>6, <1>7 DEF Evaluated, e

\* What adds up to the score of a row before a hard constraint lifts it.
Added(e) == 20 * SeverityScore(e.severity) + 15 * LatenessScore(e.impact) + 20 * RevenueScore(e.order.value)
            + 10 * CustomerScore(e.order.priority, e.order.rank) + 25 * ConstraintScore(e.case.type) + 10 * e.aging
LEMMA ScoredIs ==
    ASSUME NEW e, Evaluated(e)
    PROVE  /\ Added(e) \in Int
           /\ e.score = IF ForcedP1(e.case.type) /\ Added(e) < 7500 THEN 7500 ELSE Added(e)
<1>1. e.order.priority \in Priorities /\ e.order.rank \in 1..5 /\ e.order.value \in Nat
  BY ControlTowerAssumption DEF Evaluated, SalesOrder
<1>2. CustomerScore(e.order.priority, e.order.rank) \in Int
  BY <1>1, CustomerGrows
<1>3. /\ SeverityScore(e.severity) \in Int /\ LatenessScore(e.impact) \in Int /\ RevenueScore(e.order.value) \in Int
      /\ ConstraintScore(e.case.type) \in Int /\ e.aging \in Int
  BY <1>1, ScoresAreNumbers DEF Evaluated
<1>4. Added(e) \in Int
  BY <1>2, <1>3 DEF Added
<1>5. Scored(e) = IF ForcedP1(e.case.type) THEN Max({Added(e), 7500}) ELSE Added(e)
  BY DEF Scored, Added
<1>6. Max({Added(e), 7500}) = IF Added(e) >= 7500 THEN Added(e) ELSE 7500
  BY <1>4, LargerOfTwo
<1> QED
  BY <1>4, <1>5, <1>6 DEF Evaluated

\* No weight and no tier turns the order of two rows of one cause around.
LEMMA NoWorseScoresNoHigher ==
    ASSUME NEW a, NEW b, Evaluated(a), Evaluated(b), NoWorse(a, b)
    PROVE  a.score <= b.score /\ a.score \in Int /\ b.score \in Int
<1>1. /\ a.order.priority \in Priorities /\ a.order.rank \in 1..5 /\ a.order.value \in Nat
      /\ b.order.priority \in Priorities /\ b.order.rank \in 1..5 /\ b.order.value \in Nat
  BY ControlTowerAssumption DEF Evaluated, SalesOrder
<1>2. /\ CustomerScore(a.order.priority, a.order.rank) <= CustomerScore(b.order.priority, b.order.rank)
      /\ CustomerScore(a.order.priority, a.order.rank) \in Int /\ CustomerScore(b.order.priority, b.order.rank) \in Int
  BY <1>1, CustomerGrows DEF NoWorse
<1>3. RevenueScore(a.order.value) <= RevenueScore(b.order.value) /\ RevenueScore(a.order.value) \in Int /\ RevenueScore(b.order.value) \in Int
  BY <1>1, RevenueGrows, ScoresAreNumbers DEF NoWorse
<1>4. LatenessScore(a.impact) <= LatenessScore(b.impact) /\ LatenessScore(a.impact) \in Int /\ LatenessScore(b.impact) \in Int
  BY LatenessGrows, ScoresAreNumbers DEF NoWorse, Evaluated
<1>5. /\ SeverityScore(a.severity) <= SeverityScore(b.severity) /\ SeverityScore(a.severity) \in Int /\ SeverityScore(b.severity) \in Int
      /\ a.aging <= b.aging /\ a.aging \in Int /\ b.aging \in Int
      /\ a.case.type = b.case.type /\ ConstraintScore(b.case.type) \in Int
  BY ScoresAreNumbers DEF NoWorse, Evaluated
<1>6. Added(a) <= Added(b)
  BY <1>2, <1>3, <1>4, <1>5 DEF Added
<1> QED
  BY <1>5, <1>6, ScoredIs

-----------------------------------------------------------------------------
(* The steps.                                                              *)
LEMMA TowerInitHolds == TowerInit => TowerInv
BY ControlTowerAssumption DEF TowerInit, TowerInv, NoRefresh, Refreshed

LEMMA TowerStep ==
    ASSUME TowerInv, [TowerNext]_towerVars
    PROVE  TowerInv'
<1> USE DEF TowerInv
<1>1. ASSUME NEW r \in Refreshes, RequestRefresh(r, tick) PROVE TowerInv'
  <2>1. \A q \in Refreshes : refresh'[q] = IF q = r THEN [NoRefresh EXCEPT !.phase = "requested", !.asOf = tick] ELSE refresh[q]
    BY <1>1 DEF RequestRefresh
  <2>2. [NoRefresh EXCEPT !.phase = "requested", !.asOf = tick] = [[NoRefresh EXCEPT !.phase = "requested"] EXCEPT !.asOf = tick]
    OBVIOUS
  <2>3. refresh'[r].asOf = tick /\ refresh'[r].created = 0 /\ refresh'[r].rows = {} /\ Refreshed(refresh'[r])
    BY <2>1, <2>2 DEF NoRefresh, Refreshed
  <2>4. refresh' = [q \in Refreshes |-> refresh'[q]]
    BY <1>1 DEF RequestRefresh
  <2>5. \A q \in Refreshes : /\ Refreshed(refresh'[q])
                             /\ refresh'[q].asOf \in 0..LastTime /\ refresh'[q].created \in 0..LastTime
                             /\ \A e \in refresh'[q].rows : Evaluated(e)
    BY <2>1, <2>3, ControlTowerAssumption
  <2>6. tick' \in 0..LastTime /\ UNCHANGED <<order, exceptions, cases, snapshots>>
    BY <1>1, ControlTowerAssumption DEF RequestRefresh
  <2> QED
    BY <2>4, <2>5, <2>6
<1>2. ASSUME NEW r \in Refreshes, CurrentExceptionRows(r) PROVE TowerInv'
  <2> DEFINE rows == {Evaluation(x, order[x.order], refresh[r].asOf) :
                      x \in {y \in exceptions : order[y.order].open}}
  <2>1. \A e \in rows : Evaluated(e)
    <3> SUFFICES ASSUME NEW x \in exceptions PROVE Evaluated(Evaluation(x, order[x.order], refresh[r].asOf))
      OBVIOUS
    <3> QED
      BY EvaluationIsEvaluated, ControlTowerAssumption DEF PlanningException
  <2> DEFINE e0 == refresh[r]
             e1 == [e0 EXCEPT !.phase = "evaluated"]
             e2 == [e1 EXCEPT !.created = tick]
             e3 == [e2 EXCEPT !.cases = cases]
             e4 == [e3 EXCEPT !.hashes = Hashes]
             e5 == [e4 EXCEPT !.rows = rows]
  <2>2. refresh' = [refresh EXCEPT ![r] = e5]
    BY <1>2 DEF CurrentExceptionRows
  <2> HIDE DEF e0, e1, e2, e3, e4, e5, rows
  <2>3. e5 = [phase |-> "evaluated", asOf |-> e0.asOf, created |-> tick, rows |-> rows, cases |-> cases, hashes |-> Hashes]
    <3>1. e0 = [phase |-> e0.phase, asOf |-> e0.asOf, created |-> e0.created, rows |-> e0.rows, cases |-> e0.cases, hashes |-> e0.hashes]
      BY DEF TowerInv, Refreshed, e0
    <3>2. e1 = [phase |-> "evaluated", asOf |-> e0.asOf, created |-> e0.created, rows |-> e0.rows, cases |-> e0.cases, hashes |-> e0.hashes]
      BY <3>1 DEF e1
    <3>3. e2 = [phase |-> "evaluated", asOf |-> e0.asOf, created |-> tick, rows |-> e0.rows, cases |-> e0.cases, hashes |-> e0.hashes]
      BY <3>2 DEF e2
    <3>4. e3 = [phase |-> "evaluated", asOf |-> e0.asOf, created |-> tick, rows |-> e0.rows, cases |-> cases, hashes |-> e0.hashes]
      BY <3>3 DEF e3
    <3>5. e4 = [phase |-> "evaluated", asOf |-> e0.asOf, created |-> tick, rows |-> e0.rows, cases |-> cases, hashes |-> Hashes]
      BY <3>4 DEF e4
    <3> QED
      BY <3>5 DEF e5
  <2>4. refresh'[r].asOf = refresh[r].asOf /\ refresh'[r].created = tick /\ refresh'[r].rows = rows /\ Refreshed(refresh'[r])
    <3>1. refresh'[r] = e5
      BY <2>2
    <3> HIDE DEF TowerInv
    <3> QED
      BY <2>3, <3>1 DEF e0, Refreshed
  <2> QED
    BY <1>2, <2>1, <2>2, <2>4 DEF CurrentExceptionRows
<1>3. ASSUME NEW r \in Refreshes, Store(r) PROVE TowerInv'
  <2>1. \A e \in refresh[r].rows : Evaluated(e)
    OBVIOUS
  <2>2. cases' \subseteq [order : Orders, key : Keys, type : Types]
    BY <1>3, <2>1 DEF Store, Evaluated
  <2>3. \A s \in snapshots' : Evaluated(s.evaluation) /\ s.asOf \in 0..LastTime /\ s.created \in 0..LastTime
    BY <1>3, <2>1 DEF Store
  <2>4. \A c \in cases' : \E s \in snapshots' : s.evaluation.case = c
    <3> SUFFICES ASSUME NEW c \in cases' PROVE \E s \in snapshots' : s.evaluation.case = c
      OBVIOUS
    <3>1. CASE c \in cases
      BY <1>3, <3>1 DEF Store
    <3>2. CASE \E e \in refresh[r].rows : e.case = c
      <4>1. PICK e \in refresh[r].rows : e.case = c
        BY <3>2
      <4>2. CASE e \in Hashes
        BY <1>3, <4>1, <4>2 DEF Store, Hashes
      <4>3. CASE e \notin Hashes
        <5> DEFINE s == [evaluation |-> e, asOf |-> refresh[r].asOf, created |-> refresh[r].created, recommended |-> RecommendedActions(e.case.type)]
        <5>1. s \in snapshots' /\ s.evaluation = e
          BY <1>3, <4>1, <4>3 DEF Store
        <5> QED
          BY <4>1, <5>1
      <4> QED
        BY <4>2, <4>3
    <3> QED
      BY <1>3, <3>1, <3>2 DEF Store
  <2>5. \A q \in Refreshes : /\ refresh'[q].asOf = refresh[q].asOf /\ refresh'[q].created = refresh[q].created /\ refresh'[q].rows = refresh[q].rows
                             /\ Refreshed(refresh'[q])
    BY <1>3 DEF Store, Refreshed
  <2>6. refresh' = [q \in Refreshes |-> refresh'[q]]
    BY <1>3 DEF Store
  <2>7. UNCHANGED <<order, exceptions, tick>>
    BY <1>3 DEF Store
  <2> QED
    BY <2>2, <2>3, <2>4, <2>5, <2>6, <2>7
<1>4. ASSUME NEW r \in Refreshes, Rollback(r) PROVE TowerInv'
  BY <1>4 DEF Rollback, Refreshed
<1>5. ASSUME NEW r \in Refreshes, Return(r) PROVE TowerInv'
  <2>1. Refreshed(NoRefresh) /\ NoRefresh.asOf = 0 /\ NoRefresh.created = 0 /\ NoRefresh.rows = {}
    BY DEF NoRefresh, Refreshed
  <2>2. refresh' = [q \in Refreshes |-> refresh'[q]] /\ \A q \in Refreshes : refresh'[q] = IF q = r THEN NoRefresh ELSE refresh[q]
    BY <1>5 DEF Return
  <2> QED
    BY <1>5, <2>1, <2>2, ControlTowerAssumption DEF Return
<1>6. ASSUME NEW p \in Planners, ActOnCase(p) PROVE TowerInv'
  BY <1>6 DEF ActOnCase
<1>7. ASSUME NEW p \in Planners, NEW c \in cases, NEW a, BeginAction(p, c, a) PROVE TowerInv'
  BY <1>7, ControlTowerAssumption DEF BeginAction
<1>8. ASSUME NEW o \in Orders, NEW v \in SalesOrder, SetOrder(o, v) PROVE TowerInv'
  BY <1>8 DEF SetOrder
<1>9. ASSUME NEW o \in Orders, NEW found \in SUBSET [key : Keys, type : Types, severity : Severities, impact : {0, 3, 11}], PegOrder(o, found)
      PROVE  TowerInv'
  <2>1. \A f \in found : [order |-> o, key |-> f.key, type |-> f.type, severity |-> f.severity,
                          impact |-> f.impact, run |-> tick, detected |-> tick] \in PlanningException
    BY ControlTowerAssumption DEF PlanningException
  <2>2. exceptions' \subseteq PlanningException
    BY <1>9, <2>1 DEF PegOrder
  <2> QED
    BY <1>9, <2>2, ControlTowerAssumption DEF PegOrder
<1>10. ASSUME NEW x \in exceptions, ResolveException(x) PROVE TowerInv'
  BY <1>10 DEF ResolveException
<1>11. CASE UNCHANGED towerVars
  BY <1>11 DEF towerVars
<1> QED
  BY <1>1, <1>2, <1>3, <1>4, <1>5, <1>6, <1>7, <1>8, <1>9, <1>10, <1>11 DEF TowerNext

-----------------------------------------------------------------------------
\* A case has a latest snapshot: times are bounded.
LEMMA LatestIsOfTheCase ==
    ASSUME TowerInv, NEW c \in cases
    PROVE  LatestSnapshot(c) \in snapshots /\ LatestSnapshot(c).evaluation.case = c
<1> DEFINE of == {s \in snapshots : s.evaluation.case = c}
           ages == {LastTime - s.asOf : s \in of}
<1>1. of # {} /\ \A s \in of : s.asOf \in 0..LastTime /\ s.created \in 0..LastTime
  BY DEF TowerInv
<1>2. ages \subseteq Nat /\ ages # {}
  BY <1>1, ControlTowerAssumption
<1>3. PICK n \in ages : \A m \in ages : n <= m
  <2> HIDE DEF ages
  <2> QED
    BY <1>2, SmallestNumber
<1>4. PICK s \in of : n = LastTime - s.asOf
  BY <1>3
<1>5. \A t \in of : t.asOf <= s.asOf
  <2> SUFFICES ASSUME NEW t \in of PROVE t.asOf <= s.asOf
    OBVIOUS
  <2>1. n <= LastTime - t.asOf
    BY <1>3
  <2> QED
    BY <1>1, <1>4, <2>1, ControlTowerAssumption
<1> DEFINE tied == {t \in of : t.asOf = s.asOf}
           waits == {LastTime - t.created : t \in tied}
<1>6. waits \subseteq Nat /\ waits # {}
  BY <1>1, <1>4, ControlTowerAssumption
<1>7. PICK k \in waits : \A m \in waits : k <= m
  <2> HIDE DEF waits
  <2> QED
    BY <1>6, SmallestNumber
<1>8. PICK u \in tied : k = LastTime - u.created
  BY <1>7
<1>9. \A t \in of : Newer(u, t)
  <2> SUFFICES ASSUME NEW t \in of PROVE Newer(u, t)
    OBVIOUS
  <2>1. CASE t.asOf = s.asOf
    <3>1. k <= LastTime - t.created
      BY <1>7, <2>1
    <3> QED
      BY <1>1, <1>8, <2>1, <3>1, ControlTowerAssumption DEF Newer
  <2>2. CASE t.asOf # s.asOf
    <3>1. t.asOf <= s.asOf /\ u.asOf = s.asOf
      BY <1>5, <1>8
    <3> QED
      BY <1>1, <1>4, <2>2, <3>1, ControlTowerAssumption DEF Newer
  <2> QED
    BY <2>1, <2>2
<1>10. LatestSnapshot(c) \in of
  <2>1. \E x \in of : \A t \in of : Newer(x, t)
    BY <1>8, <1>9
  <2>2. LatestSnapshot(c) = CHOOSE x \in of : \A t \in of : Newer(x, t)
    BY DEF LatestSnapshot
  <2> HIDE DEF of
  <2> QED
    BY <2>1, <2>2
<1> QED
  BY <1>10

LEMMA TowerInvOrders == TowerInv => WorstComesFirst
<1> SUFFICES ASSUME TowerInv, NEW c \in Dashboard, NEW d \in Dashboard
             PROVE  LET a == LatestSnapshot(c).evaluation  b == LatestSnapshot(d).evaluation IN
                    /\ NoWorse(a, b) => ~Sooner(a, b)
                    /\ ForcedP1(a.case.type) => a.band = 1
  BY DEF WorstComesFirst
<1> DEFINE a == LatestSnapshot(c).evaluation
           b == LatestSnapshot(d).evaluation
<1>1. Evaluated(a) /\ Evaluated(b)
  <2>1. c \in cases /\ d \in cases
    BY DEF Dashboard
  <2>2. LatestSnapshot(c) \in snapshots /\ LatestSnapshot(d) \in snapshots
    BY <2>1, LatestIsOfTheCase
  <2> QED
    BY <2>2 DEF TowerInv
<1> HIDE DEF a, b
<1>2. NoWorse(a, b) => ~Sooner(a, b)
  <2> SUFFICES ASSUME NoWorse(a, b) PROVE ~Sooner(a, b)
    OBVIOUS
  <2>1. a.score <= b.score /\ a.score \in Int /\ b.score \in Int
    BY <1>1, NoWorseScoresNoHigher
  <2>2. a.band >= b.band /\ a.band \in 1..4 /\ b.band \in 1..4
    <3>1. a.band = PriorityBand(a.score) /\ b.band = PriorityBand(b.score)
      BY <1>1 DEF Evaluated
    <3> QED
      BY <2>1, <3>1, BandFalls
  <2>3. a.order.value <= b.order.value /\ a.order.value \in Nat /\ b.order.value \in Nat
    BY <1>1, ControlTowerAssumption DEF NoWorse, Evaluated, SalesOrder
  <2> QED
    BY <2>1, <2>2, <2>3 DEF Sooner
<1>3. ForcedP1(a.case.type) => a.band = 1
  <2> SUFFICES ASSUME ForcedP1(a.case.type) PROVE a.band = 1
    OBVIOUS
  <2>1. a.score \in Int /\ a.score >= 7500
    BY <1>1, ScoredIs
  <2> QED
    BY <1>1, <2>1 DEF Evaluated, PriorityBand
<1> QED
  BY <1>2, <1>3 DEF a, b

\* Orders, exceptions and cases stay what their tables hold, and the band of a snapshot one of the four
\* (control_tower_cases, control_tower_case_snapshots).
THEOREM TowerTypesCorrect == TowerSpec => []TowerTypeOK
<1>1. TowerInv => TowerTypeOK
  <2>1. \A e : Evaluated(e) => e.band \in 1..4
    BY ScoredIs, BandFalls DEF Evaluated
  <2> QED
    BY <2>1 DEF TowerInv, TowerTypeOK
<1> QED
  BY <1>1, TowerInitHolds, TowerStep, PTL DEF TowerSpec

\* Among the cases of one cause the board never puts one before another that is worse or as bad in every respect,
\* and every hard constraint is of the first band, whatever the tiers and weights make of the rest
\* (ScoreControlTowerPriority).
THEOREM BoardShowsWorstFirst == TowerSpec => []WorstComesFirst
BY TowerInitHolds, TowerStep, TowerInvOrders, PTL DEF TowerSpec

-----------------------------------------------------------------------------
(* Migrations.  The argument is the lock: between reading the history and the *)
(* last record nobody else writes it, so what the holder has validated stays   *)
(* valid until it leaves, and afterwards the history only grows.              *)

Holding == {"reading", "inspecting", "baselining", "applying"}
Phases == Holding \cup {"down", "waiting", "refused", "serving"}

MigrationTypeOK ==
    /\ schema \subseteq Nat
    /\ lockedBy \in Servers \cup {NoServer}
    /\ server \in [Servers -> [phase : Phases, applied : SUBSET Nat, detected : SUBSET Nat]]

\* Whoever is past the lock holds it.
LockHeld == \A s \in Servers : server[s].phase \in Holding => lockedBy = s

\* A database without a history is an old deployment as it was, or empty.
BeforeHistory ==
    DOMAIN recorded = {} => schema \subseteq Fingerprints \cup ReplaySafe /\ (schema = {} \/ 1 \in schema)
HistoryInEffect ==
    DOMAIN recorded # {} => DOMAIN recorded \subseteq schema /\ schema \ DOMAIN recorded \subseteq ReplaySafe

\* Nothing is recorded over a gap, but for what may run again.
NoGap == \A v \in DOMAIN recorded : \A u \in 1..v - 1 : u \in DOMAIN recorded \cup ReplaySafe

Known(s) == \A v \in DOMAIN recorded : v \in Versions(s) /\ recorded[v] = Embedded[s][v]

\* What each phase has found, and what holds while it has the lock.
PhaseKnows(s) ==
    /\ server[s].phase \in {"down", "waiting", "reading", "inspecting", "baselining"} => server[s].applied = {}
    /\ server[s].phase \in {"inspecting", "baselining"} => DOMAIN recorded = {}
    /\ server[s].phase = "baselining" => 1 \in schema /\ server[s].detected = Detected /\ Contiguous(Detected)
    /\ server[s].phase = "applying" =>
          Known(s) /\ server[s].applied = DOMAIN recorded /\ (DOMAIN recorded = {} => schema = {})

Serves(s) ==
    server[s].phase = "serving" =>
        \A v \in Versions(s) : v \in schema /\ v \in DOMAIN recorded /\ recorded[v] = Embedded[s][v]

MigrationInv ==
    /\ MigrationTypeOK /\ LockHeld /\ BeforeHistory /\ HistoryInEffect /\ NoGap
    /\ \A s \in Servers : PhaseKnows(s) /\ Serves(s)

LEMMA InvImplies == MigrationInv => MigratedServes
  BY DEF MigrationInv, HistoryInEffect, Serves, MigratedServes

LEMMA Binaries ==
    ASSUME NEW s \in Servers
    PROVE  Versions(s) \subseteq Nat /\ Versions(s) # {} /\ Fingerprints \subseteq Versions(s)
  BY MigrationsAssumption DEF MigrationsAssumption, Versions

LEMMA InitInv == ASSUME MigrationInit PROVE MigrationInv
<1>1. DOMAIN recorded = {}
  BY DEF MigrationInit
<1>2. schema \subseteq Fingerprints \cup ReplaySafe /\ (schema = {} \/ 1 \in schema)
  BY MigrationsAssumption DEF MigrationInit, MigrationsAssumption
<1>3. MigrationTypeOK
  BY <1>2, MigrationsAssumption DEF MigrationsAssumption, MigrationInit, MigrationTypeOK, Down, Phases
<1>4. LockHeld
  BY DEF MigrationInit, LockHeld, Down, Holding
<1>5. ASSUME NEW s \in Servers PROVE PhaseKnows(s) /\ Serves(s)
  BY <1>1 DEF MigrationInit, PhaseKnows, Serves, Down
<1> QED
  BY <1>1, <1>2, <1>3, <1>4, <1>5 DEF MigrationInv, BeforeHistory, HistoryInEffect, NoGap

\* What an instance knows or serves, another's step leaves alone.
LEMMA Unmoved ==
    ASSUME MigrationInv, NEW s \in Servers, NEW t \in Servers, t # s, lockedBy = s,
           server'[t] = server[t],
           \A v \in DOMAIN recorded : v \in DOMAIN recorded' /\ recorded'[v] = recorded[v],
           schema \subseteq schema'
    PROVE  PhaseKnows(t)' /\ Serves(t)'
<1>1. server[t].phase \notin Holding
  BY DEF MigrationInv, LockHeld
<1>2. PhaseKnows(t)'
  BY <1>1 DEF MigrationInv, PhaseKnows, Holding
<1>3. Serves(t)'
  BY DEF MigrationInv, Serves, Versions
<1> QED
  BY <1>2, <1>3

\* A step that writes no database: what others know stays.
LEMMA Reading ==
    ASSUME MigrationInv, NEW t \in Servers, server'[t] = server[t], UNCHANGED <<schema, recorded>>
    PROVE  PhaseKnows(t)' /\ Serves(t)'
  BY DEF MigrationInv, PhaseKnows, Serves, Versions, Known, Detected

LEMMA BeginInv == ASSUME MigrationInv, NEW s \in Servers, Begin(s) PROVE MigrationInv'
<1>1. server' = [server EXCEPT ![s].phase = "waiting"] /\ UNCHANGED <<schema, recorded, lockedBy>> /\ server[s].phase = "down"
  BY DEF Begin, Moves
<1>2. MigrationTypeOK'
  BY <1>1 DEF MigrationInv, MigrationTypeOK, Phases
<1>3. LockHeld'
  BY <1>1 DEF MigrationInv, MigrationTypeOK, LockHeld, Holding
<1>4. PhaseKnows(s)' /\ Serves(s)'
  BY <1>1 DEF MigrationInv, MigrationTypeOK, PhaseKnows, Serves
<1>5. \A t \in Servers : t # s => PhaseKnows(t)' /\ Serves(t)'
  BY <1>1, Reading DEF MigrationInv, MigrationTypeOK
<1> QED
  BY <1>1, <1>2, <1>3, <1>4, <1>5 DEF MigrationInv, BeforeHistory, HistoryInEffect, NoGap

\* A step of one instance that writes neither the database nor what it has found.
LEMMA PhaseOnly ==
    ASSUME MigrationInv, NEW s \in Servers, NEW phase \in Phases, Moves(s, phase), UNCHANGED <<schema, recorded>>,
           lockedBy' \in Servers \cup {NoServer},
           \A t \in Servers : server'[t].phase \in Holding => lockedBy' = t,
           PhaseKnows(s)' /\ Serves(s)'
    PROVE  MigrationInv'
<1>1. server' = [server EXCEPT ![s].phase = phase]
  BY DEF Moves
<1>2. MigrationTypeOK'
  BY <1>1 DEF MigrationInv, MigrationTypeOK
<1>3. \A t \in Servers : t # s => PhaseKnows(t)' /\ Serves(t)'
  BY <1>1, Reading DEF MigrationInv, MigrationTypeOK
<1> QED
  BY <1>2, <1>3 DEF MigrationInv, BeforeHistory, HistoryInEffect, NoGap, LockHeld

LEMMA AcquireLockInv == ASSUME MigrationInv, NEW s \in Servers, AcquireLock(s) PROVE MigrationInv'
<1>1. server' = [server EXCEPT ![s].phase = "reading"] /\ lockedBy = NoServer /\ lockedBy' = s
      /\ UNCHANGED <<schema, recorded>> /\ server[s].phase = "waiting"
  BY DEF AcquireLock, Moves, Unheld
<1>2. \A t \in Servers : server'[t].phase \in Holding => lockedBy' = t
  BY <1>1, MigrationsAssumption DEF MigrationInv, MigrationTypeOK, LockHeld, MigrationsAssumption
<1>3. PhaseKnows(s)' /\ Serves(s)'
  BY <1>1 DEF MigrationInv, MigrationTypeOK, PhaseKnows, Serves
<1> QED
  BY <1>1, <1>2, <1>3, PhaseOnly DEF Moves, Phases, Holding

\* Leaving, refused: whoever holds the lock may.
LEMMA RefusedInv ==
    ASSUME MigrationInv, NEW s \in Servers, server[s].phase \in Holding, Leaves(s, "refused"), UNCHANGED <<schema, recorded>>
    PROVE  MigrationInv'
<1>1. server' = [server EXCEPT ![s].phase = "refused"] /\ lockedBy' = NoServer
  BY DEF Leaves, Moves
<1>2. \A t \in Servers : server'[t].phase \in Holding => lockedBy' = t
  BY <1>1 DEF MigrationInv, MigrationTypeOK, LockHeld, Holding
<1>3. PhaseKnows(s)' /\ Serves(s)'
  BY <1>1 DEF MigrationInv, MigrationTypeOK, PhaseKnows, Serves
<1> QED
  BY <1>1, <1>2, <1>3, PhaseOnly DEF Leaves, Phases, Holding

LEMMA ReadAppliedInv == ASSUME MigrationInv, NEW s \in Servers, ReadApplied(s) PROVE MigrationInv'
<1>1. server[s].phase = "reading" /\ UNCHANGED <<schema, recorded>>
  BY DEF ReadApplied
<1>2. CASE DOMAIN recorded = {}
  <2>1. server' = [server EXCEPT ![s].phase = "inspecting"] /\ UNCHANGED lockedBy
    BY <1>2 DEF ReadApplied, Moves
  <2>2. \A t \in Servers : server'[t].phase \in Holding => lockedBy' = t
    BY <1>1, <2>1 DEF MigrationInv, MigrationTypeOK, LockHeld, Holding
  <2>3. PhaseKnows(s)' /\ Serves(s)'
    BY <1>1, <1>2, <2>1 DEF MigrationInv, MigrationTypeOK, PhaseKnows, Serves
  <2> QED
    BY <1>1, <2>1, <2>2, <2>3, PhaseOnly DEF MigrationInv, MigrationTypeOK, Moves, Phases, Holding
<1>3. CASE DOMAIN recorded # {} /\ ValidHistory(s, recorded)
  <2>1. server' = [server EXCEPT ![s] = [@ EXCEPT !.phase = "applying", !.applied = DOMAIN recorded]] /\ UNCHANGED lockedBy
    BY <1>3 DEF ReadApplied
  <2>2. Known(s)
    BY <1>3 DEF ValidHistory, Known
  <2>3. DOMAIN recorded \subseteq Nat
    BY <2>2, Binaries DEF Known
  <2>4. MigrationTypeOK'
    BY <1>1, <2>1, <2>3 DEF MigrationInv, MigrationTypeOK, Phases, Holding
  <2>5. LockHeld'
    BY <1>1, <2>1 DEF MigrationInv, MigrationTypeOK, LockHeld, Holding
  <2>6. PhaseKnows(s)' /\ Serves(s)'
    BY <1>1, <1>3, <2>1, <2>2 DEF MigrationInv, MigrationTypeOK, PhaseKnows, Serves, Known, Versions
  <2>7. \A t \in Servers : t # s => PhaseKnows(t)' /\ Serves(t)'
    BY <1>1, <2>1, Reading DEF MigrationInv, MigrationTypeOK
  <2> QED
    BY <1>1, <2>4, <2>5, <2>6, <2>7 DEF MigrationInv, BeforeHistory, HistoryInEffect, NoGap
<1>4. CASE DOMAIN recorded # {} /\ ~ValidHistory(s, recorded)
  BY <1>1, <1>4, RefusedInv DEF ReadApplied, Holding
<1> QED
  BY <1>2, <1>3, <1>4

LEMMA BootstrapInv == ASSUME MigrationInv, NEW s \in Servers, BootstrapLegacyDatabase(s) PROVE MigrationInv'
<1>1. server[s].phase = "inspecting" /\ UNCHANGED <<schema, recorded>> /\ DOMAIN recorded = {}
  BY DEF BootstrapLegacyDatabase, MigrationInv, PhaseKnows
<1>2. CASE 1 \notin schema
  <2>1. server' = [server EXCEPT ![s].phase = "applying"] /\ UNCHANGED lockedBy
    BY <1>2 DEF BootstrapLegacyDatabase, Moves
  <2>2. \A t \in Servers : server'[t].phase \in Holding => lockedBy' = t
    BY <1>1, <2>1 DEF MigrationInv, MigrationTypeOK, LockHeld, Holding
  <2>3. PhaseKnows(s)' /\ Serves(s)'
    BY <1>1, <1>2, <2>1 DEF MigrationInv, MigrationTypeOK, BeforeHistory, PhaseKnows, Serves, Known
  <2> QED
    BY <1>1, <2>1, <2>2, <2>3, PhaseOnly DEF MigrationInv, MigrationTypeOK, Moves, Phases, Holding
<1>3. CASE 1 \in schema /\ Contiguous(Detected)
  <2>1. server' = [server EXCEPT ![s] = [@ EXCEPT !.phase = "baselining", !.detected = Detected]] /\ UNCHANGED lockedBy
    BY <1>3 DEF BootstrapLegacyDatabase
  <2>2. MigrationTypeOK'
    BY <1>1, <2>1 DEF MigrationInv, MigrationTypeOK, Phases, Holding, Detected
  <2>3. LockHeld'
    BY <1>1, <2>1 DEF MigrationInv, MigrationTypeOK, LockHeld, Holding
  <2>4. PhaseKnows(s)' /\ Serves(s)'
    BY <1>1, <1>3, <2>1 DEF MigrationInv, MigrationTypeOK, PhaseKnows, Serves, Detected
  <2>5. \A t \in Servers : t # s => PhaseKnows(t)' /\ Serves(t)'
    BY <1>1, <2>1, Reading DEF MigrationInv, MigrationTypeOK
  <2> QED
    BY <1>1, <2>2, <2>3, <2>4, <2>5 DEF MigrationInv, BeforeHistory, HistoryInEffect, NoGap
<1>4. CASE 1 \in schema /\ ~Contiguous(Detected)
  BY <1>1, <1>4, RefusedInv DEF BootstrapLegacyDatabase, Holding
<1> QED
  BY <1>2, <1>3, <1>4

\* Records are added and none is changed.
LEMMA RecordingKeeps ==
    ASSUME NEW s \in Servers, NEW versions, Recording(s, versions)
    PROVE  /\ DOMAIN recorded' = DOMAIN recorded \cup versions
           /\ \A v \in DOMAIN recorded : v \in DOMAIN recorded' /\ recorded'[v] = recorded[v]
           /\ \A v \in versions \ DOMAIN recorded : recorded'[v] = Embedded[s][v]
  BY DEF Recording

LEMMA BaselineInv == ASSUME MigrationInv, NEW s \in Servers, Baseline(s) PROVE MigrationInv'
<1>1. /\ server[s].phase = "baselining" /\ UNCHANGED <<schema, lockedBy>>
      /\ DOMAIN recorded = {} /\ 1 \in schema /\ server[s].detected = Detected /\ server[s].applied = {}
      /\ Contiguous(Detected) /\ server' = [server EXCEPT ![s].phase = "reading"] /\ lockedBy = s
  BY DEF Baseline, MigrationInv, PhaseKnows, LockHeld, Holding, Moves
<1>2. DOMAIN recorded' = Detected
  BY <1>1, RecordingKeeps DEF Baseline
<1>3. MigrationTypeOK'
  BY <1>1 DEF MigrationInv, MigrationTypeOK, Phases, Holding
<1>4. LockHeld'
  BY <1>1 DEF MigrationInv, MigrationTypeOK, LockHeld, Holding
<1>5. BeforeHistory' /\ HistoryInEffect'
  BY <1>1, <1>2, MigrationsAssumption DEF MigrationInv, BeforeHistory, HistoryInEffect, NoGap, Detected, MigrationsAssumption
<1>6. PhaseKnows(s)' /\ Serves(s)'
  BY <1>1 DEF MigrationInv, MigrationTypeOK, PhaseKnows, Serves
<1>7. ASSUME NEW t \in Servers, t # s PROVE PhaseKnows(t)' /\ Serves(t)'
  BY <1>1, <1>7, Unmoved DEF MigrationInv, MigrationTypeOK
<1>8. NoGap'
  BY <1>1, <1>2, MigrationsAssumption DEF NoGap, Contiguous, Detected, MigrationsAssumption
<1> QED
  BY <1>3, <1>4, <1>5, <1>6, <1>7, <1>8 DEF MigrationInv

LEMMA ApplyOneInv == ASSUME MigrationInv, NEW s \in Servers, ApplyOne(s) PROVE MigrationInv'
<1>1. PICK v \in Missing(s) :
         /\ \A later \in Missing(s) : v <= later
         /\ IF Executes(v)
            THEN Committed(s, v) /\ server' = [server EXCEPT ![s].applied = @ \cup {v}] /\ UNCHANGED lockedBy
            ELSE Leaves(s, "refused") /\ UNCHANGED <<schema, recorded>>
  BY DEF ApplyOne
<1>2. /\ server[s].phase = "applying" /\ Known(s) /\ server[s].applied = DOMAIN recorded
      /\ (DOMAIN recorded = {} => schema = {}) /\ lockedBy = s
      /\ v \in Versions(s) /\ v \in Nat
  BY Binaries DEF ApplyOne, MigrationInv, PhaseKnows, LockHeld, Holding, Missing
<1>3. CASE Executes(v)
  <2>1. /\ schema' = schema \cup {v} /\ Recording(s, {v}) /\ v \notin DOMAIN recorded
        /\ server' = [server EXCEPT ![s].applied = @ \cup {v}] /\ UNCHANGED lockedBy
    BY <1>1, <1>3 DEF Committed, Executes
  <2>2. /\ DOMAIN recorded' = DOMAIN recorded \cup {v} /\ recorded'[v] = Embedded[s][v]
        /\ \A u \in DOMAIN recorded : u \in DOMAIN recorded' /\ recorded'[u] = recorded[u]
    BY <2>1, RecordingKeeps
  <2>3. MigrationTypeOK'
    BY <1>2, <2>1 DEF MigrationInv, MigrationTypeOK
  <2>4. LockHeld'
    BY <1>2, <2>1 DEF MigrationInv, MigrationTypeOK, LockHeld
  <2>5. BeforeHistory' /\ HistoryInEffect'
    BY <1>2, <2>1, <2>2 DEF MigrationInv, BeforeHistory, HistoryInEffect, NoGap
  <2>6. Known(s)'
    BY <1>2, <2>2 DEF Known, Versions
  <2>7. PhaseKnows(s)' /\ Serves(s)'
    BY <1>2, <2>1, <2>2, <2>6 DEF MigrationInv, MigrationTypeOK, PhaseKnows, Serves
  <2>8. ASSUME NEW t \in Servers, t # s PROVE PhaseKnows(t)' /\ Serves(t)'
    BY <1>2, <2>1, <2>2, <2>8, Unmoved DEF MigrationInv, MigrationTypeOK
  <2>9. NoGap'
    <3>1. \A u \in 1..v - 1 : u \in DOMAIN recorded
      <4>1. Versions(s) = 1..Len(Embedded[s]) /\ Len(Embedded[s]) \in Nat
        BY MigrationsAssumption DEF MigrationsAssumption, Versions
      <4> QED
        BY <1>1, <1>2, <4>1 DEF Missing
    <3> QED
      BY <2>2, <3>1 DEF MigrationInv, NoGap
  <2> QED
    BY <2>3, <2>4, <2>5, <2>7, <2>8, <2>9 DEF MigrationInv
<1>4. CASE ~Executes(v)
  BY <1>1, <1>2, <1>4, RefusedInv DEF Holding
<1> QED
  BY <1>3, <1>4

LEMMA VerifyInv == ASSUME MigrationInv, NEW s \in Servers, VerifyLatestState(s) PROVE MigrationInv'
<1>1. /\ server[s].phase = "applying" /\ Missing(s) = {} /\ UNCHANGED <<schema, recorded>>
      /\ Known(s) /\ server[s].applied = DOMAIN recorded
  BY DEF VerifyLatestState, MigrationInv, PhaseKnows
<1>2. CASE Leaves(s, "serving")
  <2>1. server' = [server EXCEPT ![s].phase = "serving"] /\ lockedBy' = NoServer
    BY <1>2 DEF Leaves, Moves
  <2>2. Versions(s) \subseteq DOMAIN recorded /\ DOMAIN recorded \subseteq schema
    BY <1>1, Binaries DEF Missing, MigrationInv, HistoryInEffect
  <2>3. \A t \in Servers : server'[t].phase \in Holding => lockedBy' = t
    BY <1>1, <2>1 DEF MigrationInv, MigrationTypeOK, LockHeld, Holding
  <2>4. PhaseKnows(s)' /\ Serves(s)'
    BY <1>1, <2>1, <2>2 DEF MigrationInv, MigrationTypeOK, PhaseKnows, Serves, Known, Versions
  <2> QED
    BY <1>1, <2>1, <2>3, <2>4, <1>2, PhaseOnly DEF Leaves, Phases, Holding
<1>3. CASE Leaves(s, "refused")
  BY <1>1, <1>3, RefusedInv DEF Holding
<1> QED
  BY <1>2, <1>3 DEF VerifyLatestState

LEMMA StopInv == ASSUME MigrationInv, NEW s \in Servers, StopServer(s) PROVE MigrationInv'
<1>1. /\ server' = [server EXCEPT ![s] = Down] /\ UNCHANGED <<schema, recorded>>
      /\ lockedBy' = IF lockedBy = s THEN NoServer ELSE lockedBy
  BY DEF StopServer
<1>2. MigrationTypeOK'
  BY <1>1 DEF MigrationInv, MigrationTypeOK, Down, Phases
<1>3. LockHeld'
  BY <1>1 DEF MigrationInv, MigrationTypeOK, LockHeld, Down, Holding
<1>4. PhaseKnows(s)' /\ Serves(s)'
  BY <1>1 DEF MigrationInv, MigrationTypeOK, PhaseKnows, Serves, Down
<1>5. \A t \in Servers : t # s => PhaseKnows(t)' /\ Serves(t)'
  BY <1>1, Reading DEF MigrationInv, MigrationTypeOK
<1> QED
  BY <1>1, <1>2, <1>3, <1>4, <1>5 DEF MigrationInv, BeforeHistory, HistoryInEffect, NoGap

LEMMA NextInv == ASSUME MigrationInv, [MigrationNext]_migrationVars PROVE MigrationInv'
<1>1. ASSUME NEW s \in Servers,
             Begin(s) \/ AcquireLock(s) \/ ReadApplied(s) \/ BootstrapLegacyDatabase(s) \/ Baseline(s) \/ ApplyOne(s)
             \/ VerifyLatestState(s) \/ StopServer(s)
      PROVE  MigrationInv'
  BY <1>1, BeginInv, AcquireLockInv, ReadAppliedInv, BootstrapInv, BaselineInv, ApplyOneInv, VerifyInv, StopInv
<1>2. CASE UNCHANGED migrationVars
  BY <1>2 DEF migrationVars, MigrationInv, MigrationTypeOK, LockHeld, BeforeHistory, HistoryInEffect, NoGap, PhaseKnows, Serves, Known, Versions, Detected
<1> QED
  BY <1>1, <1>2 DEF MigrationNext

\* For any number of instances and binaries, wherever they stop (Migrate, applyOne, baseline: migration/manager.go):
\* what has found its way past the gate serves over its own schema, recorded as it is.
THEOREM ServesMigrated == MigrationSpec => []MigratedServes
<1>1. MigrationInit => MigrationInv
  BY InitInv
<1>2. MigrationInv /\ [MigrationNext]_migrationVars => MigrationInv'
  BY NextInv
<1>3. MigrationInv => MigratedServes
  BY InvImplies
<1> QED
  BY <1>1, <1>2, <1>3, PTL DEF MigrationSpec

\* A finite set of numbers has a largest one, which is its Max.
LEMMA Largest ==
    ASSUME NEW n \in Nat, NEW S \in SUBSET (0..n), S # {}
    PROVE  Max(S) \in S /\ \A m \in S : m <= Max(S)
<1> DEFINE room == {n - m : m \in S}
<1>1. room \subseteq Nat /\ room # {}
  <2>1. PICK m \in S : TRUE
    OBVIOUS
  <2>2. \A j \in S : j \in Nat /\ j <= n
    OBVIOUS
  <2>3. \A j \in S : n - j \in Nat
    BY <2>2
  <2> QED
    BY <2>1, <2>3
<1>2. PICK k \in room : \A j \in room : k <= j
  <2> HIDE DEF room
  <2> QED
    BY <1>1, SmallestNumber
<1>3. PICK m \in S : k = n - m
  OBVIOUS
<1>4. \A j \in S : j <= m
  BY <1>2, <1>3
<1> QED
  BY <1>3, <1>4 DEF Max

\* A history an instance knows passes its check: records are written in order.
LEMMA KnownIsValid == ASSUME MigrationInv, NEW s \in Servers, Known(s) PROVE ValidHistory(s, recorded)
<1>1. Embedded[s] \in Seq(STRING) /\ Versions(s) = 1..Len(Embedded[s]) /\ Len(Embedded[s]) \in Nat
  BY MigrationsAssumption DEF MigrationsAssumption, Versions
<1> DEFINE S == {0} \cup DOMAIN recorded
<1>2. S \in SUBSET (0..Len(Embedded[s])) /\ S # {}
  BY <1>1 DEF Known
<1>3. Max(S) \in S /\ \A m \in S : m <= Max(S)
  <2> HIDE DEF S
  <2> QED
    BY <1>1, <1>2, Largest
<1>4. ASSUME NEW v \in 1..Max(S) PROVE v \in DOMAIN recorded \cup ReplaySafe
  <2>1. Max(S) \in DOMAIN recorded /\ v \in Nat /\ Max(S) \in Nat /\ v <= Max(S)
    BY <1>1, <1>2, <1>3
  <2>2. CASE v = Max(S)
    BY <2>1, <2>2
  <2>3. CASE v # Max(S)
    BY <2>1, <2>3 DEF MigrationInv, NoGap
  <2> QED
    BY <2>2, <2>3
<1> QED
  BY <1>4 DEF ValidHistory, Known

\* The next script of an instance that has read the history finds what it needs.
LEMMA NextExecutes ==
    ASSUME MigrationInv, NEW s \in Servers, server[s].phase = "applying",
           NEW v \in Missing(s), \A later \in Missing(s) : v <= later
    PROVE  Executes(v)
<1>1. Known(s) /\ server[s].applied = DOMAIN recorded /\ (DOMAIN recorded = {} => schema = {})
  BY DEF MigrationInv, PhaseKnows
<1>2. Versions(s) = 1..Len(Embedded[s]) /\ Len(Embedded[s]) \in Nat
  BY MigrationsAssumption DEF MigrationsAssumption, Versions
<1>3. v \in Versions(s) /\ v \notin DOMAIN recorded /\ v \in Nat
  BY <1>1, <1>2 DEF Missing
<1>4. \A u \in 1..v - 1 : u \in DOMAIN recorded
  BY <1>1, <1>2, <1>3 DEF Missing
<1>5. DOMAIN recorded \subseteq schema /\ schema \ DOMAIN recorded \subseteq ReplaySafe
  BY <1>1 DEF MigrationInv, HistoryInEffect
<1> QED
  BY <1>3, <1>4, <1>5 DEF Executes

\* An instance is turned away by what it finds, never by others that start or stop beside
\* it (validateHistory, bootstrapLegacyDatabase, applyOne, verifyLatestState: migration/manager.go).
THEOREM RefusalsExplained == MigrationSpec => RefusesOnlyUnknown
<1>1. ASSUME MigrationInv, NEW s \in Servers, [MigrationNext]_migrationVars,
             server'[s].phase = "refused", server[s].phase # "refused"
      PROVE  Unknown(s)
  <2>1. PICK t \in Servers :
           Begin(t) \/ AcquireLock(t) \/ ReadApplied(t) \/ BootstrapLegacyDatabase(t) \/ Baseline(t) \/ ApplyOne(t)
           \/ VerifyLatestState(t) \/ StopServer(t)
    BY <1>1 DEF MigrationNext, migrationVars
  <2>2. server \in [Servers -> [phase : Phases, applied : SUBSET Nat, detected : SUBSET Nat]]
    BY <1>1 DEF MigrationInv, MigrationTypeOK
  <2>3. CASE Begin(t) \/ AcquireLock(t) \/ Baseline(t) \/ StopServer(t)
    BY <1>1, <2>2, <2>3 DEF Begin, AcquireLock, Baseline, StopServer, Moves, Down
  <2>4. CASE ReadApplied(t)
    <3>1. t = s /\ ~ValidHistory(s, recorded)
      BY <1>1, <2>2, <2>4 DEF ReadApplied, Moves, Leaves
    <3>2. ~Known(s)
      BY <1>1, <3>1, KnownIsValid
    <3> QED
      BY <3>2 DEF Known, Unknown
  <2>5. CASE BootstrapLegacyDatabase(t)
    <3>1. t = s /\ ~Contiguous(Detected) /\ DOMAIN recorded = {}
      BY <1>1, <2>2, <2>5 DEF BootstrapLegacyDatabase, Moves, Leaves, MigrationInv, PhaseKnows
    <3> QED
      BY <3>1 DEF Unknown
  <2>6. CASE ApplyOne(t)
    <3>1. PICK v \in Missing(t) :
             /\ \A later \in Missing(t) : v <= later
             /\ IF Executes(v)
                THEN Committed(t, v) /\ server' = [server EXCEPT ![t].applied = @ \cup {v}] /\ UNCHANGED lockedBy
                ELSE Leaves(t, "refused") /\ UNCHANGED <<schema, recorded>>
      BY <2>6 DEF ApplyOne
    <3>2. Executes(v)
      BY <1>1, <2>6, <3>1, NextExecutes DEF ApplyOne
    <3> QED
      BY <1>1, <2>2, <3>1, <3>2
  <2>7. CASE VerifyLatestState(t)
    <3>1. server[t].phase = "applying" /\ Missing(t) = {}
      BY <2>7 DEF VerifyLatestState
    <3>2. Known(t) /\ server[t].applied = DOMAIN recorded
      BY <1>1, <3>1 DEF MigrationInv, PhaseKnows
    <3>3. DOMAIN recorded = 1..Len(Embedded[t]) /\ Len(Embedded[t]) \in Nat
      <4>1. Versions(t) = 1..Len(Embedded[t]) /\ Len(Embedded[t]) \in Nat
        BY MigrationsAssumption DEF MigrationsAssumption, Versions
      <4>2. DOMAIN recorded \subseteq Versions(t) /\ Versions(t) \subseteq DOMAIN recorded
        BY <3>1, <3>2 DEF Known, Missing
      <4> QED
        BY <4>1, <4>2
    <3>4. Cardinality(DOMAIN recorded) = Len(Embedded[t])
      BY <3>3, FS_Interval
    <3> QED
      BY <1>1, <2>2, <2>7, <3>4 DEF VerifyLatestState, Leaves, Moves
  <2> QED
    BY <2>1, <2>3, <2>4, <2>5, <2>6, <2>7
<1>2. MigrationInit => MigrationInv
  BY InitInv
<1>3. MigrationInv /\ [MigrationNext]_migrationVars => MigrationInv'
  BY NextInv
<1>4. MigrationInv /\ [MigrationNext]_migrationVars =>
        [\A s \in Servers : server'[s].phase = "refused" /\ server[s].phase # "refused" => Unknown(s)]_migrationVars
  BY <1>1
<1> QED
  BY <1>2, <1>3, <1>4, PTL DEF MigrationSpec, RefusesOnlyUnknown

-----------------------------------------------------------------------------
(* The active schedule.  A run that may become active has been built and is    *)
(* written by nobody else (RunsApart), so what was compared with the source    *)
(* stays true until the pointer is switched from it; and what a signal tells   *)
(* stays true, so a candidate built after it was read contains it.            *)

Signal == [kind : {"op"}, at : Ops, status : Executed] \cup [kind : {"maintenance"}, at : Events, no : Nat]
SignalRow == [of : Signal, by : Runs \cup {None}]
Activation == [previous : Runs \cup {None}, active : Runs, policy : Policies, rescheduled : BOOLEAN]

\* The state of the plant, or the one a schedule was built for, contains what a signal tells.
Shows(state, s) ==
    IF s.kind = "maintenance" THEN state.revision[s.at].no >= s.no ELSE state.op[s.at] \in Executed
Plant == [op |-> op, revision |-> revision]

Built(r) == schedule[r] \in Schedule

\* The run r keeps what the schedule it is compared with has planned in its frozen time.
KeepsTimes(x, old, new) ==
    \A o \in DOMAIN old :
        old[o] \in Times \intersect (x.asOf..(x.asOf + Freeze[x.policy] - 1)) => o \in DOMAIN new /\ new[o] = old[o]
KeepsFrozen(r) == KeepsTimes(reschedule[r], schedule[reschedule[r].source].start, schedule[r].start)

Evaluating == {"evaluate", "compare", "finish"}
Working == Evaluating \cup {"build", "first", "acknowledge"}

RowsOK ==
    /\ signals \in Seq(SignalRow)
    /\ history \in Seq(Activation)
    /\ req = [q \in Requests |-> req[q]]
    /\ \E p \in Policies : policy[p] = "ACTIVE"
    /\ active # None => Built(active)

\* What a request knows at each of its steps.
RequestAt(q) ==
    /\ req[q].pc = "build" =>
          req[q] = [pc |-> "build", kind |-> req[q].kind, run |-> req[q].run, source |-> req[q].source]
    /\ req[q].pc = "evaluate" =>
          req[q] = [pc |-> "evaluate", kind |-> req[q].kind, run |-> req[q].run, source |-> req[q].source, read |-> req[q].read]
    /\ req[q].pc \in Working => req[q].run \in Runs
    /\ req[q].pc \in {"build", "first"} => Built(req[q].run) /\ req[q].kind = "direct"
    /\ req[q].pc \in {"begin", "acknowledge"} \cup Evaluating => req[q].read \subseteq DOMAIN signals
    /\ req[q].pc \in Evaluating =>
          /\ reschedule[req[q].run] \in Reschedule
          /\ reschedule[req[q].run].source = req[q].source
          /\ Built(req[q].source)
    /\ req[q].pc = "evaluate" => schedule[req[q].run] = NoRow
    /\ req[q].pc \in {"compare", "finish", "acknowledge"} =>
          Built(req[q].run) /\ \A k \in req[q].read : Shows(schedule[req[q].run], signals[k].of)
    /\ req[q].pc = "begin" => \A k \in req[q].read : Shows(Plant, signals[k].of)
    /\ req[q].pc = "finish" =>
          /\ req[q].outcome \in {"ACTIVATED", "BLOCKED", "NO_CHANGE"}
          /\ req[q].outcome = "ACTIVATED" => KeepsFrozen(req[q].run)

RunsApart ==
    \A q, u \in Requests : q # u /\ req[q].pc \in Working /\ req[u].pc \in Working => req[q].run # req[u].run

SignalAt(k) ==
    /\ Shows(Plant, signals[k].of)
    /\ signals[k].by # None => Built(signals[k].by) /\ Shows(schedule[signals[k].by], signals[k].of)

ReschedulingInv ==
    /\ TypeOK /\ RowsOK /\ RunsApart
    /\ \A q \in Requests : RequestAt(q)
    /\ \A k \in DOMAIN signals : SignalAt(k)

LEMMA NoRowApart == NoRow \notin Schedule /\ NoRow \notin Reschedule
<1>1. ASSUME NoRow \in Schedule PROVE FALSE
  <2>1. DOMAIN NoRow = {"start", "op", "revision"} /\ DOMAIN NoRow = {"status"}
    BY <1>1 DEF Schedule, NoRow
  <2> QED
    BY <2>1
<1>2. ASSUME NoRow \in Reschedule PROVE FALSE
  BY <1>2 DEF Reschedule, NoRow
<1> QED
  BY <1>1, <1>2

LEMMA PolicyInForce == ASSUME RowsOK PROVE CurrentPolicy \in Policies
  BY DEF RowsOK, CurrentPolicy

LEMMA CandidateBuilt ==
    ASSUME TypeOK, NEW asOf, NEW c \in Candidates(asOf)
    PROVE  c \in Schedule /\ c.op = op /\ c.revision = revision
<1> DEFINE S == {o \in Ops : op[o] # "COMPLETED"}
<1>1. PICK f \in [S -> {t \in Times : t >= asOf} \union {Unplanned}] : c = [start |-> f, op |-> op, revision |-> revision]
  BY DEF Candidates
<1>2. f \in [S -> Times \union {Unplanned}] /\ S \in SUBSET Ops
  BY <1>1
<1> HIDE DEF S
<1>3. f \in Plan
  BY <1>2 DEF Plan
<1> QED
  BY <1>1, <1>3 DEF Schedule, TypeOK

\* A signal tells of what is not taken back.
LEMMA SignalsAppend ==
    ASSUME RowsOK, NEW s \in Signal, signals' = Append(signals, [of |-> s, by |-> None])
    PROVE  /\ signals' \in Seq(SignalRow)
           /\ \A k \in DOMAIN signals : k \in DOMAIN signals' /\ signals'[k] = signals[k]
           /\ \A k \in DOMAIN signals' : k \in DOMAIN signals \/ signals'[k] = [of |-> s, by |-> None]
<1> DEFINE row == [of |-> s, by |-> None]
<1>1. signals \in Seq(SignalRow) /\ row \in SignalRow
  BY DEF RowsOK, SignalRow
<1> HIDE DEF row
<1>2. signals' = Append(signals, row)
  BY DEF row
<1>3. /\ signals' \in Seq(SignalRow) /\ Len(signals') = Len(signals) + 1
      /\ \A k \in 1..Len(signals) : signals'[k] = signals[k]
      /\ signals'[Len(signals) + 1] = row
  BY <1>1, <1>2
<1>4. \A k \in DOMAIN signals' : k \in DOMAIN signals \/ k = Len(signals) + 1
  BY <1>1, <1>3
<1>5. \A k \in DOMAIN signals : k \in DOMAIN signals'
  BY <1>1, <1>3
<1> QED
  BY <1>1, <1>3, <1>4, <1>5 DEF row

LEMMA ReschedulingStart == ASSUME Init PROVE ReschedulingInv
<1>1. TypeOK
  <2>1. PICK p \in Policies : policy = [q \in Policies |-> IF q = p THEN "ACTIVE" ELSE "DRAFT"]
    BY DEF Init
  <2>2. clock \in Times /\ op \in [Ops -> OpStatus] /\ revision \in [Events -> Revision]
    BY ReschedulingAssumption DEF Init, Times, OpStatus, Revision, ReschedulingAssumption
  <2> QED
    BY <2>1, <2>2 DEF Init, TypeOK
<1>2. RowsOK
  BY DEF Init, RowsOK
<1>3. RunsApart /\ \A q \in Requests : RequestAt(q)
  BY DEF Init, RunsApart, RequestAt, Idle, Working, Evaluating
<1>4. \A k \in DOMAIN signals : SignalAt(k)
  BY DEF Init
<1> QED
  BY <1>1, <1>2, <1>3, <1>4 DEF ReschedulingInv

-----------------------------------------------------------------------------
\* What a request knows survives every step that leaves it, its run and what was built alone.
LEMMA RequestKept ==
    ASSUME ReschedulingInv, NEW q \in Requests, req'[q] = req[q],
           \A r \in Runs : Built(r) => schedule'[r] = schedule[r],
           req[q].pc \in Working => schedule'[req[q].run] = schedule[req[q].run] /\ reschedule'[req[q].run] = reschedule[req[q].run],
           \A k \in DOMAIN signals : k \in DOMAIN signals' /\ signals'[k].of = signals[k].of,
           \A s \in Signal : Shows(Plant, s) => Shows(Plant', s)
    PROVE  RequestAt(q)'
<1>1. RequestAt(q) /\ \A k \in DOMAIN signals : signals[k].of \in Signal
  <2>1. signals \in Seq(SignalRow)
    BY DEF ReschedulingInv, RowsOK
  <2>2. \A k \in DOMAIN signals : signals[k] \in SignalRow
    BY <2>1
  <2> QED
    BY <2>2 DEF ReschedulingInv, SignalRow
<1>2. req[q].pc \in Evaluating => reschedule[req[q].run].source \in Runs
  BY <1>1 DEF RequestAt, Reschedule
<1>3. req[q].pc = "finish" /\ req[q].outcome = "ACTIVATED" => KeepsFrozen(req[q].run)'
  <2>1. req[q].pc = "finish" => /\ schedule'[reschedule'[req[q].run].source] = schedule[reschedule[req[q].run].source]
                                /\ schedule'[req[q].run] = schedule[req[q].run]
                                /\ reschedule'[req[q].run] = reschedule[req[q].run]
    BY <1>1, <1>2 DEF RequestAt, Working, Evaluating
  <2> QED
    BY <1>1, <2>1 DEF RequestAt, KeepsFrozen
<1>4. req[q].pc \in Evaluating => schedule'[req[q].source] = schedule[req[q].source]
  BY <1>1, <1>2 DEF RequestAt
<1>5. req[q].pc \in {"begin", "acknowledge"} \cup Evaluating => \A k \in req[q].read : k \in DOMAIN signals /\ k \in DOMAIN signals' /\ signals'[k].of = signals[k].of /\ signals[k].of \in Signal
  BY <1>1 DEF RequestAt
<1>6. req[q].pc = "begin" => \A k \in req[q].read : Shows(Plant', signals'[k].of)
  BY <1>1, <1>5 DEF RequestAt
<1>7. req[q].pc \in {"compare", "finish", "acknowledge"} =>
        Built(req[q].run)' /\ \A k \in req[q].read : Shows(schedule'[req[q].run], signals'[k].of)
  BY <1>1, <1>5 DEF RequestAt, Working, Evaluating, Built
<1> QED
  BY <1>1, <1>3, <1>4, <1>5, <1>6, <1>7 DEF RequestAt, Working, Evaluating, Built

\* So does what is known of a signal, whoever has acknowledged it.
LEMMA SignalKept ==
    ASSUME ReschedulingInv, NEW k \in DOMAIN signals, k \in DOMAIN signals', signals'[k] = signals[k],
           \A r \in Runs : Built(r) => schedule'[r] = schedule[r],
           \A s \in Signal : Shows(Plant, s) => Shows(Plant', s)
    PROVE  SignalAt(k)'
<1>1. signals \in Seq(SignalRow) /\ SignalAt(k)
  BY DEF ReschedulingInv, RowsOK
<1>2. signals[k] \in SignalRow
  BY <1>1
<1>5. signals[k].of \in Signal /\ signals[k].by \in Runs \cup {None}
  BY <1>2 DEF SignalRow
<1>3. signals[k].by # None => signals[k].by \in Runs /\ schedule'[signals[k].by] = schedule[signals[k].by]
  BY <1>1, <1>5 DEF SignalAt
<1>4. Shows(Plant', signals'[k].of)
  BY <1>1, <1>5 DEF SignalAt
<1> QED
  BY <1>1, <1>3, <1>4 DEF SignalAt, Built

\* A step of the plant: time goes by, work proceeds, maintenance or a policy is revised.
LEMMA PlantKeeps ==
    ASSUME ReschedulingInv, UNCHANGED <<scheduleVars, reschedule, req>>,
           clock' \in Times, op' \in [Ops -> OpStatus], revision' \in [Events -> Revision],
           policy' \in [Policies -> {"DRAFT", "ACTIVE", "ARCHIVED"}], \E p \in Policies : policy'[p] = "ACTIVE",
           \A s \in Signal : Shows(Plant, s) => Shows(Plant', s),
           \/ UNCHANGED signals
           \/ \E s \in Signal : Shows(Plant', s) /\ signals' = Append(signals, [of |-> s, by |-> None])
    PROVE  ReschedulingInv'
<1>1. schedule' = schedule /\ active' = active /\ history' = history /\ reschedule' = reschedule /\ req' = req
  BY DEF scheduleVars
<1>2. /\ signals' \in Seq(SignalRow)
      /\ \A k \in DOMAIN signals : k \in DOMAIN signals' /\ signals'[k] = signals[k]
      /\ \A k \in DOMAIN signals' : k \in DOMAIN signals \/ (Shows(Plant', signals'[k].of) /\ signals'[k].by = None)
  <2> signals \in Seq(SignalRow)
    BY DEF ReschedulingInv, RowsOK
  <2>1. CASE UNCHANGED signals
    BY <2>1
  <2>2. CASE ~UNCHANGED signals
    <3>1. PICK s \in Signal : Shows(Plant', s) /\ signals' = Append(signals, [of |-> s, by |-> None])
      BY <2>2
    <3> DEFINE row == [of |-> s, by |-> None]
    <3>2. /\ signals' \in Seq(SignalRow)
          /\ \A k \in DOMAIN signals : k \in DOMAIN signals' /\ signals'[k] = signals[k]
          /\ \A k \in DOMAIN signals' : k \in DOMAIN signals \/ signals'[k] = row
      BY <3>1, SignalsAppend DEF ReschedulingInv
    <3>3. row.of = s /\ row.by = None
      OBVIOUS
    <3> HIDE DEF row
    <3>4. ASSUME NEW k \in DOMAIN signals', k \notin DOMAIN signals
          PROVE  Shows(Plant', signals'[k].of) /\ signals'[k].by = None
      <4>1. signals'[k] = row
        BY <3>2, <3>4
      <4> QED
        BY <3>1, <3>3, <4>1
    <3> QED
      BY <3>2, <3>4
  <2> QED
    BY <2>1, <2>2
<1>3. TypeOK'
  <2>1. \A k \in DOMAIN signals' : signals'[k] \in SignalRow
    BY <1>2
  <2>2. \A k \in DOMAIN signals' : signals'[k].by \in Runs \union {None}
    BY <2>1 DEF SignalRow
  <2> QED
    BY <1>1, <2>2 DEF ReschedulingInv, TypeOK
<1>4. RowsOK'
  BY <1>1, <1>2 DEF ReschedulingInv, RowsOK, Built
<1>5. RunsApart'
  BY <1>1 DEF ReschedulingInv, RunsApart
<1>6. ASSUME NEW q \in Requests PROVE RequestAt(q)'
  BY <1>1, <1>2, RequestKept
<1>7. ASSUME NEW k \in DOMAIN signals' PROVE SignalAt(k)'
  <2>1. CASE k \in DOMAIN signals
    BY <1>1, <1>2, <2>1, SignalKept
  <2>2. CASE k \notin DOMAIN signals
    BY <1>2, <2>2 DEF SignalAt
  <2> QED
    BY <2>1, <2>2
<1> QED
  BY <1>3, <1>4, <1>5, <1>6, <1>7 DEF ReschedulingInv

\* A step of request q.
LEMMA RequestStep ==
    ASSUME ReschedulingInv, NEW q \in Requests, req' = [req EXCEPT ![q] = req'[q]], UNCHANGED <<plantVars, signals>>,
           schedule' \in [Runs -> Schedule \union {NoRow}], reschedule' \in [Runs -> Reschedule \union {NoRow}],
           active' \in Runs \union {None}, active' # None => schedule'[active'] \in Schedule,
           history' \in Seq(Activation),
           \A r \in Runs : Built(r) => schedule'[r] = schedule[r],
           \A u \in Requests : u # q /\ req[u].pc \in Working =>
               /\ schedule'[req[u].run] = schedule[req[u].run]
               /\ reschedule'[req[u].run] = reschedule[req[u].run]
               /\ req'[q].pc \in Working => req'[q].run # req[u].run,
           RequestAt(q)'
    PROVE  ReschedulingInv'
<1>1. clock' = clock /\ op' = op /\ revision' = revision /\ policy' = policy /\ signals' = signals /\ Plant' = Plant
  BY DEF plantVars, Plant
<1>2. req = [u \in Requests |-> req[u]] /\ \A u \in Requests : u # q => req'[u] = req[u]
  BY DEF ReschedulingInv, RowsOK
<1>3. TypeOK'
  BY <1>1 DEF ReschedulingInv, TypeOK
<1>4. RowsOK'
  BY <1>1, <1>2 DEF ReschedulingInv, RowsOK, Built
<1>5. RunsApart'
  BY <1>2 DEF ReschedulingInv, RunsApart
<1>6. ASSUME NEW u \in Requests PROVE RequestAt(u)'
  <2>1. CASE u # q
    BY <1>1, <1>2, <2>1, RequestKept
  <2> QED
    BY <2>1
<1>7. ASSUME NEW k \in DOMAIN signals' PROVE SignalAt(k)'
  BY <1>1, SignalKept
<1> QED
  BY <1>3, <1>4, <1>5, <1>6, <1>7 DEF ReschedulingInv

-----------------------------------------------------------------------------
(* The actions of the plant.                                                  *)

LEMMA TickStep == ASSUME ReschedulingInv, Tick PROVE ReschedulingInv'
<1>1. clock' \in Times /\ UNCHANGED <<op, revision, policy, scheduleVars, reschedule, signals, req>>
  BY ReschedulingAssumption DEF ReschedulingInv, TypeOK, Tick, Times, ReschedulingAssumption
<1>2. /\ op' \in [Ops -> OpStatus] /\ revision' \in [Events -> Revision]
      /\ policy' \in [Policies -> {"DRAFT", "ACTIVE", "ARCHIVED"}]
  BY <1>1 DEF ReschedulingInv, TypeOK
<1>3. (\E p \in Policies : policy'[p] = "ACTIVE") /\ \A s \in Signal : Shows(Plant, s) => Shows(Plant', s)
  BY <1>1 DEF ReschedulingInv, RowsOK, Plant
<1> QED
  BY <1>1, <1>2, <1>3, PlantKeeps

\* Work that has begun has begun for good.
LEMMA ProgressStep ==
    ASSUME ReschedulingInv, NEW o \in Ops, NEW from, NEW to \in Executed, Progress(o, from, to)
    PROVE  ReschedulingInv'
<1>1. op' = [op EXCEPT ![o] = to] /\ UNCHANGED <<clock, revision, policy, scheduleVars, reschedule, req>>
  BY DEF Progress
<1>2. /\ clock' \in Times /\ revision' \in [Events -> Revision]
      /\ policy' \in [Policies -> {"DRAFT", "ACTIVE", "ARCHIVED"}] /\ \E p \in Policies : policy'[p] = "ACTIVE"
  BY <1>1 DEF ReschedulingInv, RowsOK, TypeOK
<1>3. op' \in [Ops -> OpStatus] /\ op'[o] = to /\ \A x \in Ops : x # o => op'[x] = op[x]
  BY <1>1 DEF ReschedulingInv, TypeOK, OpStatus, Executed
<1>4. ASSUME NEW s \in Signal, Shows(Plant, s) PROVE Shows(Plant', s)
  <2>1. CASE s.kind = "maintenance"
    BY <1>1, <1>4, <2>1 DEF Shows, Plant
  <2>2. CASE s.kind # "maintenance"
    <3>1. s.at \in Ops /\ op[s.at] \in Executed
      BY <1>4, <2>2 DEF Signal, Shows, Plant
    <3> QED
      BY <1>3, <2>2, <3>1 DEF Shows, Plant
  <2> QED
    BY <2>1, <2>2
<1>5. \/ UNCHANGED signals
      \/ \E s \in Signal : Shows(Plant', s) /\ signals' = Append(signals, [of |-> s, by |-> None])
  <2> DEFINE s == [kind |-> "op", at |-> o, status |-> to]
  <2>1. s \in Signal /\ s.kind = "op" /\ s.at = o
    BY DEF Signal
  <2>2. UNCHANGED signals \/ signals' = Append(signals, [of |-> s, by |-> None])
    BY DEF Progress, Raise
  <2> HIDE DEF s
  <2>3. Shows(Plant', s)
    BY <1>3, <2>1 DEF Shows, Plant
  <2> QED
    BY <2>1, <2>2, <2>3
<1> QED
  BY <1>1, <1>2, <1>3, <1>4, <1>5, PlantKeeps

\* Revisions of an event are numbered upwards.
LEMMA ReviseStep ==
    ASSUME ReschedulingInv, NEW e \in Events, NEW s \in MaintenanceStatus, Revise(e, s)
    PROVE  ReschedulingInv'
<1> DEFINE no == revision[e].no + 1
<1>1. /\ revision' = [revision EXCEPT ![e] = [no |-> no, status |-> s]]
      /\ UNCHANGED <<clock, op, policy, scheduleVars, reschedule, req>>
  BY DEF Revise
<1>2. /\ clock' \in Times /\ op' \in [Ops -> OpStatus]
      /\ policy' \in [Policies -> {"DRAFT", "ACTIVE", "ARCHIVED"}] /\ \E p \in Policies : policy'[p] = "ACTIVE"
  BY <1>1 DEF ReschedulingInv, RowsOK, TypeOK
<1>3. revision[e].no \in Nat /\ no \in Nat /\ no > revision[e].no
  BY DEF ReschedulingInv, TypeOK, Revision
<1>4. [no |-> no, status |-> s] \in Revision
  BY <1>3 DEF Revision
<1>5. revision' \in [Events -> Revision] /\ revision'[e].no = no /\ \A x \in Events : x # e => revision'[x] = revision[x]
  BY <1>1, <1>4 DEF ReschedulingInv, TypeOK
<1>6. ASSUME NEW x \in Signal, Shows(Plant, x) PROVE Shows(Plant', x)
  <2>1. CASE x.kind = "maintenance"
    <3>1. x.at \in Events /\ x.no \in Nat /\ revision[x.at].no >= x.no
      BY <1>6, <2>1 DEF Signal, Shows, Plant
    <3>2. revision'[x.at].no >= x.no
      BY <1>3, <1>5, <3>1
    <3> QED
      BY <2>1, <3>2 DEF Shows, Plant
  <2>2. CASE x.kind # "maintenance"
    BY <1>1, <1>6, <2>2 DEF Shows, Plant
  <2> QED
    BY <2>1, <2>2
<1>7. \/ UNCHANGED signals
      \/ \E x \in Signal : Shows(Plant', x) /\ signals' = Append(signals, [of |-> x, by |-> None])
  <2> DEFINE x == [kind |-> "maintenance", at |-> e, no |-> no]
  <2>1. x \in Signal /\ x.kind = "maintenance" /\ x.at = e /\ x.no = no
    BY <1>3 DEF Signal
  <2>2. UNCHANGED signals \/ signals' = Append(signals, [of |-> x, by |-> None])
    BY DEF Revise, Raise
  <2> HIDE DEF x
  <2>3. Shows(Plant', x)
    BY <1>3, <1>5, <2>1 DEF Shows, Plant
  <2> QED
    BY <2>1, <2>2, <2>3
<1> HIDE DEF no
<1> QED
  BY <1>1, <1>2, <1>5, <1>6, <1>7, PlantKeeps

LEMMA ActivatePolicyStep ==
    ASSUME ReschedulingInv, NEW p \in Policies, ActivatePolicy(p)
    PROVE  ReschedulingInv'
<1>1. UNCHANGED <<clock, op, revision, scheduleVars, reschedule, signals, req>>
  BY DEF ActivatePolicy
<1>2. clock' \in Times /\ op' \in [Ops -> OpStatus] /\ revision' \in [Events -> Revision]
  BY <1>1 DEF ReschedulingInv, TypeOK
<1>3. policy' \in [Policies -> {"DRAFT", "ACTIVE", "ARCHIVED"}] /\ policy'[p] = "ACTIVE"
  BY DEF ReschedulingInv, TypeOK, ActivatePolicy
<1>4. \A s \in Signal : Shows(Plant, s) => Shows(Plant', s)
  BY <1>1 DEF Plant
<1> QED
  BY <1>1, <1>2, <1>3, <1>4, PlantKeeps

LEMMA PlantStep == ASSUME ReschedulingInv, PlantNext PROVE ReschedulingInv'
<1>1. ASSUME NEW o \in Ops, Start(o) \/ Stop(o) \/ Complete(o) PROVE ReschedulingInv'
  BY <1>1, ProgressStep DEF Start, Stop, Complete, Executed
<1> QED
  BY <1>1, TickStep, ReviseStep, ActivatePolicyStep DEF PlantNext

-----------------------------------------------------------------------------
(* The actions of a request.                                                  *)

\* A run that is not used yet, or is this request's, is no other request's.
LEMMA OthersApart ==
    ASSUME ReschedulingInv, NEW q \in Requests, NEW u \in Requests, u # q, req[u].pc \in Working,
           NEW r, r \in Unused \/ (req[q].pc \in Working /\ r = req[q].run)
    PROVE  req[u].run \in Runs /\ req[u].run # r
<1>1. RequestAt(u) /\ RunsApart
  BY DEF ReschedulingInv
<1>2. req[u].run \in Runs /\ (schedule[req[u].run] # NoRow \/ reschedule[req[u].run] # NoRow)
  BY <1>1, NoRowApart DEF RequestAt, Working, Evaluating, Built
<1>3. CASE r \in Unused
  BY <1>2, <1>3 DEF Unused
<1>4. CASE req[q].pc \in Working /\ r = req[q].run
  BY <1>1, <1>2, <1>4 DEF RunsApart
<1> QED
  BY <1>3, <1>4

\* A step of request q that at most builds a run nobody has built.
LEMMA PlanStep ==
    ASSUME ReschedulingInv, NEW q \in Requests, req' = [req EXCEPT ![q] = req'[q]],
           UNCHANGED <<plantVars, active, history, signals, reschedule>>,
           \/ UNCHANGED schedule
           \/ \E r \in Runs, c \in Schedule :
                  /\ schedule' = [schedule EXCEPT ![r] = c]
                  /\ schedule[r] = NoRow
                  /\ r \in Unused \/ (req[q].pc \in Working /\ r = req[q].run),
           \/ req'[q].pc \notin Working
           \/ req[q].pc \in Working /\ req'[q].run = req[q].run
           \/ req'[q].run \in Unused,
           RequestAt(q)'
    PROVE  ReschedulingInv'
<1>1. /\ schedule \in [Runs -> Schedule \union {NoRow}] /\ reschedule \in [Runs -> Reschedule \union {NoRow}]
      /\ active \in Runs \union {None} /\ history \in Seq(Activation)
      /\ active # None => active \in Runs /\ Built(active)
  BY ReschedulingAssumption DEF ReschedulingInv, RowsOK, TypeOK, ReschedulingAssumption
<1>2. /\ schedule' \in [Runs -> Schedule \union {NoRow}]
      /\ \A x \in Runs : schedule[x] # NoRow => schedule'[x] = schedule[x]
      /\ \A u \in Requests : u # q /\ req[u].pc \in Working => schedule'[req[u].run] = schedule[req[u].run]
  <2>1. CASE UNCHANGED schedule
    BY <1>1, <2>1
  <2>2. CASE ~UNCHANGED schedule
    <3>1. PICK r \in Runs, c \in Schedule :
                  /\ schedule' = [schedule EXCEPT ![r] = c]
                  /\ schedule[r] = NoRow
                  /\ r \in Unused \/ (req[q].pc \in Working /\ r = req[q].run)
      BY <2>2
    <3>2. schedule' \in [Runs -> Schedule \union {NoRow}] /\ \A x \in Runs : x # r => schedule'[x] = schedule[x]
      BY <1>1, <3>1
    <3>3. \A u \in Requests : u # q /\ req[u].pc \in Working => req[u].run \in Runs /\ req[u].run # r
      BY <3>1, OthersApart
    <3> QED
      BY <3>1, <3>2, <3>3
  <2> QED
    BY <2>1, <2>2
<1>3. \A r \in Runs : Built(r) => schedule'[r] = schedule[r]
  BY <1>2, NoRowApart DEF Built
<1>4. \A u \in Requests : u # q /\ req[u].pc \in Working => (req'[q].pc \in Working => req'[q].run # req[u].run)
  BY OthersApart
<1>5. active' # None => schedule'[active'] \in Schedule
  BY <1>1, <1>3 DEF Built
<1> QED
  BY <1>1, <1>2, <1>3, <1>4, <1>5, RequestStep

LEMMA BuildScheduleStep ==
    ASSUME ReschedulingInv, NEW q \in Requests, NEW r \in Runs, BuildSchedule(q, r)
    PROVE  ReschedulingInv'
<1> DEFINE row == [pc |-> "build", kind |-> "direct", run |-> r, source |-> active]
<1>1. PICK c \in Candidates(clock) : schedule' = [schedule EXCEPT ![r] = c]
  BY DEF BuildSchedule
<1>2. c \in Schedule
  BY CandidateBuilt DEF ReschedulingInv
<1>3. /\ req' = [req EXCEPT ![q] = row] /\ r \in Unused
      /\ UNCHANGED <<plantVars, active, history, signals, reschedule>>
  BY DEF BuildSchedule
<1>4. row.pc = "build" /\ row.kind = "direct" /\ row.run = r
      /\ row = [pc |-> "build", kind |-> row.kind, run |-> row.run, source |-> row.source]
  OBVIOUS
<1> HIDE DEF row
<1>5. req'[q] = row
  BY <1>3 DEF ReschedulingInv, RowsOK
<1>6. schedule[r] = NoRow /\ schedule'[r] = c
  BY <1>1, <1>3 DEF Unused, ReschedulingInv, TypeOK
<1>7. RequestAt(q)'
  BY <1>2, <1>4, <1>5, <1>6 DEF RequestAt, Working, Evaluating, Built
<1> QED
  BY <1>1, <1>2, <1>3, <1>4, <1>5, <1>6, <1>7, PlanStep

LEMMA FindNoScheduleStep ==
    ASSUME ReschedulingInv, NEW q \in Requests, FindNoSchedule(q)
    PROVE  ReschedulingInv'
<1>1. /\ req[q].pc = "build" /\ req' = [req EXCEPT ![q].pc = "first"]
      /\ UNCHANGED <<plantVars, active, history, signals, reschedule, schedule>>
  BY DEF FindNoSchedule, scheduleVars
<1>2. RequestAt(q) /\ req = [u \in Requests |-> req[u]]
  BY DEF ReschedulingInv, RowsOK
<1>3. req[q] = [pc |-> "build", kind |-> req[q].kind, run |-> req[q].run, source |-> req[q].source]
  BY <1>1, <1>2 DEF RequestAt
<1>4. req' = [req EXCEPT ![q] = [req[q] EXCEPT !.pc = "first"]]
  BY <1>1, <1>2
<1>5. req'[q].pc = "first" /\ req'[q].kind = req[q].kind /\ req'[q].run = req[q].run
  BY <1>2, <1>3, <1>4
<1>6. req' = [req EXCEPT ![q] = req'[q]]
  BY <1>2, <1>4
<1>7. RequestAt(q)'
  BY <1>1, <1>2, <1>5 DEF RequestAt, Working, Evaluating, Built
<1> QED
  BY <1>1, <1>5, <1>6, <1>7, PlanStep DEF Working

LEMMA AbandonStep ==
    ASSUME ReschedulingInv, NEW q \in Requests, Abandon(q)
    PROVE  ReschedulingInv'
<1>1. req' = [req EXCEPT ![q] = Idle] /\ UNCHANGED <<plantVars, active, history, signals, reschedule, schedule>>
  BY DEF Abandon, scheduleVars
<1>2. req'[q] = Idle /\ Idle.pc = "idle"
  BY <1>1 DEF ReschedulingInv, RowsOK, Idle
<1>3. RequestAt(q)'
  BY <1>2 DEF RequestAt, Working, Evaluating
<1> QED
  BY <1>1, <1>2, <1>3, PlanStep DEF Working, Evaluating

\* The signals read are those pending; they tell what is so.
LEMMA ReadSignalsStep ==
    ASSUME ReschedulingInv, NEW q \in Requests, ReadSignals(q)
    PROVE  ReschedulingInv'
<1> DEFINE row == [pc |-> "begin", read |-> Pending]
<1>1. req' = [req EXCEPT ![q] = row] /\ UNCHANGED <<plantVars, active, history, signals, reschedule, schedule>>
  BY DEF ReadSignals, scheduleVars
<1>2. row.pc = "begin" /\ row.read = Pending
  OBVIOUS
<1> HIDE DEF row
<1>3. req'[q] = row
  BY <1>1 DEF ReschedulingInv, RowsOK
<1>4. signals' = signals /\ Plant' = Plant
  BY <1>1 DEF Plant, plantVars
<1>5. Pending \subseteq DOMAIN signals /\ \A k \in DOMAIN signals : Shows(Plant, signals[k].of)
  BY DEF Pending, ReschedulingInv, SignalAt
<1>6. \A k \in req'[q].read : Shows(Plant', signals'[k].of)
  BY <1>2, <1>3, <1>4, <1>5
<1>7. RequestAt(q)'
  BY <1>2, <1>3, <1>4, <1>5, <1>6 DEF RequestAt, Working, Evaluating
<1> QED
  BY <1>1, <1>2, <1>3, <1>7, PlanStep DEF Working, Evaluating

\* The candidate is built of the plant as it is, which shows all that was read.
LEMMA BuildCandidateStep ==
    ASSUME ReschedulingInv, NEW q \in Requests, BuildCandidate(q)
    PROVE  ReschedulingInv'
<1> DEFINE r == req[q].run
<1>1. PICK c \in Candidates(reschedule[req[q].run].asOf) : schedule' = [schedule EXCEPT ![req[q].run] = c]
  BY DEF BuildCandidate
<1>2. /\ req[q].pc = "evaluate" /\ req' = [req EXCEPT ![q].pc = "compare"]
      /\ UNCHANGED <<plantVars, active, history, signals, reschedule>>
  BY DEF BuildCandidate
<1>3. RequestAt(q) /\ req = [u \in Requests |-> req[u]]
  BY DEF ReschedulingInv, RowsOK
<1>4. req[q] = [pc |-> "evaluate", kind |-> req[q].kind, run |-> req[q].run, source |-> req[q].source, read |-> req[q].read]
  BY <1>2, <1>3 DEF RequestAt
<1>5. req' = [req EXCEPT ![q] = [req[q] EXCEPT !.pc = "compare"]]
  BY <1>2, <1>3
<1>6. req'[q].pc = "compare" /\ req'[q].run = req[q].run /\ req'[q].source = req[q].source /\ req'[q].read = req[q].read
  BY <1>3, <1>4, <1>5
<1>7. req' = [req EXCEPT ![q] = req'[q]]
  BY <1>3, <1>5
<1>8. c \in Schedule /\ c.op = op /\ c.revision = revision
  BY CandidateBuilt DEF ReschedulingInv
<1>9. /\ r \in Runs /\ req[q].read \subseteq DOMAIN signals /\ schedule[r] = NoRow
      /\ reschedule[r] \in Reschedule /\ reschedule[r].source = req[q].source /\ Built(req[q].source)
  BY <1>2, <1>3 DEF RequestAt, Working, Evaluating
<1>10. schedule'[r] = c /\ \A x \in Runs : x # r => schedule'[x] = schedule[x]
  BY <1>1, <1>9 DEF ReschedulingInv, TypeOK
<1>11. \A k \in req[q].read : Shows(c, signals[k].of)
  <2>1. \A k \in DOMAIN signals : Shows(Plant, signals[k].of)
    BY DEF ReschedulingInv, SignalAt
  <2> QED
    BY <1>8, <1>9, <2>1 DEF Shows, Plant
<1>12. req[q].source \in Runs /\ schedule'[req[q].source] = schedule[req[q].source]
  <2>1. req[q].source \in Runs
    BY <1>9 DEF Reschedule
  <2> QED
    BY <1>9, <1>10, <2>1, NoRowApart DEF Built
<1>13. RequestAt(q)'
  BY <1>2, <1>6, <1>8, <1>9, <1>10, <1>11, <1>12 DEF RequestAt, Working, Evaluating, Built
<1> QED
  BY <1>1, <1>2, <1>6, <1>7, <1>8, <1>9, <1>13, PlanStep DEF Working, Evaluating

\* A step of request q that writes its own row of reschedules, or switches the pointer, and builds nothing.
LEMMA OutcomeStep ==
    ASSUME ReschedulingInv, NEW q \in Requests, req' = [req EXCEPT ![q] = req'[q]],
           UNCHANGED <<plantVars, schedule, signals>>,
           active' \in Runs \union {None}, active' # None => Built(active'), history' \in Seq(Activation),
           \/ UNCHANGED reschedule
           \/ \E r \in Runs, x \in Reschedule :
                  /\ reschedule' = [reschedule EXCEPT ![r] = x]
                  /\ r \in Unused \/ (req[q].pc \in Working /\ r = req[q].run),
           \/ req'[q].pc \notin Working
           \/ req[q].pc \in Working /\ req'[q].run = req[q].run
           \/ req'[q].run \in Unused,
           RequestAt(q)'
    PROVE  ReschedulingInv'
<1>1. schedule \in [Runs -> Schedule \union {NoRow}] /\ reschedule \in [Runs -> Reschedule \union {NoRow}]
  BY DEF ReschedulingInv, TypeOK
<1>2. /\ reschedule' \in [Runs -> Reschedule \union {NoRow}]
      /\ \A u \in Requests : u # q /\ req[u].pc \in Working => reschedule'[req[u].run] = reschedule[req[u].run]
  <2>1. CASE UNCHANGED reschedule
    BY <1>1, <2>1
  <2>2. CASE ~UNCHANGED reschedule
    <3>1. PICK r \in Runs, x \in Reschedule :
                  /\ reschedule' = [reschedule EXCEPT ![r] = x]
                  /\ r \in Unused \/ (req[q].pc \in Working /\ r = req[q].run)
      BY <2>2
    <3>2. reschedule' \in [Runs -> Reschedule \union {NoRow}] /\ \A y \in Runs : y # r => reschedule'[y] = reschedule[y]
      BY <1>1, <3>1
    <3>3. \A u \in Requests : u # q /\ req[u].pc \in Working => req[u].run \in Runs /\ req[u].run # r
      BY <3>1, OthersApart
    <3> QED
      BY <3>2, <3>3
  <2> QED
    BY <2>1, <2>2
<1>3. schedule' = schedule /\ (active' # None => schedule'[active'] \in Schedule)
  BY DEF Built
<1>4. \A u \in Requests : u # q /\ req[u].pc \in Working => (req'[q].pc \in Working => req'[q].run # req[u].run)
  BY OthersApart
<1> QED
  BY <1>1, <1>2, <1>3, <1>4, RequestStep

LEMMA BeginRescheduleStep ==
    ASSUME ReschedulingInv, NEW q \in Requests, NEW r \in Runs, NEW t \in Times, BeginReschedule(q, r, t)
    PROVE  ReschedulingInv'
<1> DEFINE read == IF req[q] = Idle THEN {} ELSE req[q].read
           row == [pc |-> "evaluate", kind |-> "reschedule", run |-> r, source |-> active, read |-> read]
           mine == [source |-> active, policy |-> CurrentPolicy, asOf |-> t, finished |-> clock,
                   system |-> req[q] # Idle, status |-> "EVALUATING"]
<1>1. /\ req' = [req EXCEPT ![q] = row] /\ reschedule' = [reschedule EXCEPT ![r] = mine]
      /\ active # None /\ r \in Unused /\ UNCHANGED <<plantVars, scheduleVars, signals>>
  BY DEF BeginReschedule
<1>2. active \in Runs /\ Built(active) /\ active' = active /\ history' = history /\ schedule' = schedule /\ signals' = signals
  BY <1>1 DEF ReschedulingInv, TypeOK, RowsOK, scheduleVars
<1>3. mine \in Reschedule /\ mine.source = active
  BY <1>2, PolicyInForce DEF ReschedulingInv, TypeOK, Reschedule
<1>4. read \subseteq DOMAIN signals
  <2>1. CASE req[q] = Idle
    BY <2>1
  <2>2. CASE req[q] # Idle
    BY <2>2 DEF BeginReschedule, ReschedulingInv, RequestAt
  <2> QED
    BY <2>1, <2>2
<1> HIDE DEF read, mine
<1>5. /\ row = [pc |-> "evaluate", kind |-> row.kind, run |-> row.run, source |-> row.source, read |-> row.read]
      /\ row.pc = "evaluate" /\ row.run = r /\ row.source = active /\ row.read = read
  OBVIOUS
<1> HIDE DEF row
<1>6. req'[q] = row /\ reschedule'[r] = mine /\ schedule[r] = NoRow
  BY <1>1 DEF ReschedulingInv, RowsOK, TypeOK, Unused
<1>7. RequestAt(q)'
  BY <1>2, <1>3, <1>4, <1>5, <1>6 DEF RequestAt, Working, Evaluating, Built
<1>8. active' \in Runs \union {None} /\ Built(active') /\ history' \in Seq(Activation)
  BY <1>2 DEF ReschedulingInv, RowsOK
<1> QED
  BY <1>1, <1>2, <1>3, <1>5, <1>6, <1>7, <1>8, OutcomeStep

\* What may not move is compared with the source, in the frozen time of the policy.
LEMMA FrozenConflicts ==
    ASSUME ReschedulingAssumption, NEW p \in Policies, NEW asOf \in Times, NEW statuses, NEW old \in Plan, NEW new \in Plan,
           NEW o \in DOMAIN old, old[o] \in Times \intersect (asOf..(asOf + Freeze[p] - 1)),
           ~(o \in DOMAIN new /\ new[o] = old[o])
    PROVE  o \in Conflicts(p, asOf, statuses, old, new)
<1>1. Freeze[p] \in Nat /\ Firm[p] \in Nat /\ asOf \in Nat /\ MaxTime \in Nat
  BY DEF ReschedulingAssumption, Times
<1>2. old[o] \in Nat /\ old[o] # Unplanned /\ old[o] >= asOf /\ old[o] < asOf + Freeze[p]
  BY <1>1 DEF Times, Unplanned
<1>3. Changed(old, new, o)
  BY DEF Changed
<1>4. Anchor(old, new, o) = old[o]
  BY <1>2 DEF Anchor
<1>5. Fence(p, asOf, statuses[o], old[o]) \in {"FROZEN", "EXECUTED"}
  BY <1>2 DEF Fence
<1> QED
  BY <1>3, <1>4, <1>5 DEF Conflicts

LEMMA CompareSchedulesStep ==
    ASSUME ReschedulingInv, NEW q \in Requests, CompareSchedules(q)
    PROVE  ReschedulingInv'
<1> DEFINE r == reschedule[req[q].run]
           old == schedule[r.source].start
           new == schedule[req[q].run].start
           outcome == IF \A o \in Ops : ~Changed(old, new, o) THEN "NO_CHANGE"
                      ELSE IF Conflicts(r.policy, r.asOf, op, old, new) # {} THEN "BLOCKED" ELSE "ACTIVATED"
           row == [pc |-> "finish", kind |-> req[q].kind, run |-> req[q].run, source |-> req[q].source,
                   read |-> req[q].read, outcome |-> outcome]
<1>1. /\ req[q].pc = "compare" /\ req' = [req EXCEPT ![q] = row]
      /\ UNCHANGED <<plantVars, scheduleVars, reschedule, signals>>
  BY DEF CompareSchedules, ReschedulingInv, RowsOK
<1>2. /\ active' = active /\ history' = history /\ schedule' = schedule /\ signals' = signals /\ reschedule' = reschedule
  BY <1>1 DEF scheduleVars
<1>3. RequestAt(q) /\ req = [u \in Requests |-> req[u]]
  BY DEF ReschedulingInv, RowsOK
<1>4. /\ req[q].run \in Runs /\ r \in Reschedule /\ r.source = req[q].source /\ Built(req[q].source) /\ Built(req[q].run)
      /\ req[q].read \subseteq DOMAIN signals /\ \A k \in req[q].read : Shows(schedule[req[q].run], signals[k].of)
  BY <1>1, <1>3 DEF RequestAt, Working, Evaluating
<1>5. r.policy \in Policies /\ r.asOf \in Times /\ old \in Plan /\ new \in Plan
  BY <1>4 DEF Reschedule, Schedule, Built
<1>6. outcome = "ACTIVATED" => KeepsTimes(r, old, new)
  <2>1. outcome = "ACTIVATED" => Conflicts(r.policy, r.asOf, op, old, new) = {}
    OBVIOUS
  <2> HIDE DEF outcome, old, new, r
  <2> QED
    BY <1>5, <2>1, FrozenConflicts, ReschedulingAssumption DEF KeepsTimes
<1>outcome. outcome \in {"ACTIVATED", "BLOCKED", "NO_CHANGE"}
  OBVIOUS
<1> HIDE DEF outcome
<1>7. /\ row.pc = "finish" /\ row.run = req[q].run /\ row.source = req[q].source
      /\ row.outcome \in {"ACTIVATED", "BLOCKED", "NO_CHANGE"} /\ row.read = req[q].read /\ row.outcome = outcome
  BY <1>outcome
<1> HIDE DEF row
<1>8. req'[q] = row
  BY <1>1, <1>3
<1>9. RequestAt(q)'
  <2>1. row.outcome = "ACTIVATED" => KeepsFrozen(req[q].run)'
    BY <1>2, <1>6, <1>7, <1>8 DEF KeepsFrozen
  <2> QED
    BY <1>1, <1>2, <1>4, <1>7, <1>8, <2>1 DEF RequestAt, Working, Evaluating, Built
<1>10. active' \in Runs \union {None} /\ history' \in Seq(Activation) /\ (active' # None => Built(active'))
  BY <1>2 DEF ReschedulingInv, RowsOK, TypeOK
<1> QED
  BY <1>1, <1>2, <1>7, <1>8, <1>9, <1>10, OutcomeStep DEF Working, Evaluating

LEMMA ActivationRecorded ==
    ASSUME ReschedulingInv, NEW previous \in Runs \cup {None}, NEW r \in Runs, NEW rescheduled \in BOOLEAN,
           history' = Append(history, [previous |-> previous, active |-> r, policy |-> CurrentPolicy, rescheduled |-> rescheduled])
    PROVE  /\ history' \in Seq(Activation)
           /\ history'[Len(history')] = [previous |-> previous, active |-> r, policy |-> CurrentPolicy, rescheduled |-> rescheduled]
<1> DEFINE row == [previous |-> previous, active |-> r, policy |-> CurrentPolicy, rescheduled |-> rescheduled]
<1>1. row \in Activation /\ history \in Seq(Activation)
  BY PolicyInForce DEF ReschedulingInv, RowsOK, Activation
<1> HIDE DEF row
<1>2. history' = Append(history, row)
  BY DEF row
<1>3. history' \in Seq(Activation) /\ history'[Len(history')] = row
  BY <1>1, <1>2
<1> QED
  BY <1>3 DEF row

LEMMA ActivateScheduleStep ==
    ASSUME ReschedulingInv, NEW q \in Requests, ActivateSchedule(q)
    PROVE  ReschedulingInv' /\ history'[Len(history')].rescheduled = FALSE
<1>1. /\ req[q].pc \in {"build", "first"} /\ req' = [req EXCEPT ![q] = Idle] /\ active' = req[q].run
      /\ UNCHANGED <<plantVars, schedule, reschedule, signals>>
  BY DEF ActivateSchedule, Activated
<1>2. RequestAt(q) /\ req = [u \in Requests |-> req[u]] /\ active \in Runs \cup {None}
  BY DEF ReschedulingInv, RowsOK, TypeOK
<1>3. req[q].run \in Runs /\ Built(req[q].run) /\ req[q].kind = "direct"
  BY <1>1, <1>2 DEF RequestAt, Working
<1>4. \E previous \in Runs \cup {None} :
         history' = Append(history, [previous |-> previous, active |-> req[q].run, policy |-> CurrentPolicy, rescheduled |-> FALSE])
  BY <1>2, <1>3 DEF ActivateSchedule, Activated, Previous
<1>5. history' \in Seq(Activation) /\ history'[Len(history')].rescheduled = FALSE
  <2>1. PICK previous \in Runs \cup {None} :
           history' = Append(history, [previous |-> previous, active |-> req[q].run, policy |-> CurrentPolicy, rescheduled |-> FALSE])
    BY <1>4
  <2>2. FALSE \in BOOLEAN
    OBVIOUS
  <2>3. history' \in Seq(Activation) /\ history'[Len(history')] =
           [previous |-> previous, active |-> req[q].run, policy |-> CurrentPolicy, rescheduled |-> FALSE]
    BY <1>3, <2>1, <2>2, ActivationRecorded
  <2> QED
    BY <2>3
<1>6. req'[q] = Idle /\ Idle.pc = "idle"
  BY <1>1, <1>2 DEF Idle
<1>7. RequestAt(q)'
  BY <1>6 DEF RequestAt, Working, Evaluating
<1>8. ReschedulingInv'
  BY <1>1, <1>3, <1>5, <1>6, <1>7, OutcomeStep DEF Working, Evaluating
<1> QED
  BY <1>5, <1>8

\* A run keeps its source, its time and its policy when it ends.
LEMMA EndedRow ==
    ASSUME ReschedulingInv, NEW r \in Runs, reschedule[r] \in Reschedule,
           NEW status \in {"ACTIVATED", "BLOCKED", "NO_CHANGE", "FAILED"}, Ended(r, status)
    PROVE  \E x \in Reschedule : /\ reschedule' = [reschedule EXCEPT ![r] = x] /\ reschedule'[r] = x
                                 /\ x.source = reschedule[r].source /\ x.policy = reschedule[r].policy
                                 /\ x.asOf = reschedule[r].asOf
<1> DEFINE x == [reschedule[r] EXCEPT !.status = status, !.finished = clock]
<1>1. /\ x \in Reschedule /\ x.source = reschedule[r].source /\ x.policy = reschedule[r].policy
      /\ x.asOf = reschedule[r].asOf
  BY DEF ReschedulingInv, TypeOK, Reschedule
<1>2. reschedule' = [reschedule EXCEPT ![r].status = status, ![r].finished = clock]
  BY DEF Ended
<1>3. reschedule = [y \in Runs |-> reschedule[y]]
  BY DEF ReschedulingInv, TypeOK
<1>4. reschedule' = [reschedule EXCEPT ![r] = x]
  BY <1>2, <1>3
<1> HIDE DEF x
<1> QED
  BY <1>1, <1>3, <1>4

LEMMA FailRescheduleStep ==
    ASSUME ReschedulingInv, NEW q \in Requests, FailReschedule(q)
    PROVE  ReschedulingInv'
<1>1. /\ req[q].pc \in Evaluating /\ req' = [req EXCEPT ![q] = Idle] /\ Ended(req[q].run, "FAILED")
      /\ UNCHANGED <<plantVars, scheduleVars, signals>>
  BY DEF FailReschedule, Evaluating
<1>2. RequestAt(q) /\ req = [u \in Requests |-> req[u]]
  BY DEF ReschedulingInv, RowsOK
<1>3. req[q].run \in Runs /\ reschedule[req[q].run] \in Reschedule
  BY <1>1, <1>2 DEF RequestAt, Working
<1>4. \E x \in Reschedule : reschedule' = [reschedule EXCEPT ![req[q].run] = x]
  BY <1>1, <1>3, EndedRow
<1>5. active' \in Runs \union {None} /\ history' \in Seq(Activation) /\ (active' # None => Built(active'))
      /\ UNCHANGED <<plantVars, schedule, signals>>
  BY <1>1 DEF ReschedulingInv, RowsOK, TypeOK, scheduleVars
<1>6. req'[q] = Idle /\ Idle.pc = "idle"
  BY <1>1, <1>2 DEF Idle
<1>7. RequestAt(q)'
  BY <1>6 DEF RequestAt, Working, Evaluating
<1> QED
  BY <1>1, <1>3, <1>4, <1>5, <1>6, <1>7, OutcomeStep DEF Working, Evaluating

\* A reschedule takes over from the schedule it was compared with.
LEMMA FinishRescheduleStep ==
    ASSUME ReschedulingInv, NEW q \in Requests, FinishReschedule(q)
    PROVE  /\ ReschedulingInv'
           /\ active' # active => /\ req[q].pc = "finish" /\ req[q].outcome = "ACTIVATED" /\ active' = req[q].run
                                  /\ active = req[q].source /\ reschedule'[active'].asOf = reschedule[active'].asOf
                                  /\ reschedule'[active'].policy = reschedule[active'].policy
<1> DEFINE r == req[q].run
           row == [pc |-> "acknowledge", run |-> r, read |-> req[q].read]
<1>1. /\ req[q].pc = "finish" /\ Ended(r, req[q].outcome)
      /\ req' = [req EXCEPT ![q] = IF req[q].read = {} THEN Idle ELSE row]
      /\ UNCHANGED <<plantVars, schedule, signals>>
      /\ \/ req[q].outcome = "ACTIVATED" /\ active = req[q].source /\ Activated(q, r)
         \/ req[q].outcome # "ACTIVATED" /\ UNCHANGED <<active, history>>
  BY DEF FinishReschedule, StillActive
<1>2. RequestAt(q) /\ req = [u \in Requests |-> req[u]] /\ active \in Runs \cup {None}
  BY DEF ReschedulingInv, RowsOK, TypeOK
<1>3. /\ r \in Runs /\ reschedule[r] \in Reschedule /\ Built(r)
      /\ req[q].read \subseteq DOMAIN signals /\ \A k \in req[q].read : Shows(schedule[r], signals[k].of)
  BY <1>1, <1>2 DEF RequestAt, Working, Evaluating
<1>4. req[q].outcome \in {"ACTIVATED", "BLOCKED", "NO_CHANGE"}
  BY <1>1, <1>2 DEF RequestAt
<1>5. PICK x \in Reschedule : /\ reschedule' = [reschedule EXCEPT ![r] = x] /\ reschedule'[r] = x
                              /\ x.policy = reschedule[r].policy /\ x.asOf = reschedule[r].asOf
  BY <1>1, <1>3, <1>4, EndedRow
<1>6. /\ active' \in Runs \union {None} /\ (active' # None => Built(active')) /\ history' \in Seq(Activation)
      /\ active' # active => req[q].outcome = "ACTIVATED" /\ active = req[q].source /\ active' = r
  <2>1. CASE req[q].outcome = "ACTIVATED"
    <3>1. /\ active' = r /\ active = req[q].source
          /\ history' = Append(history, [previous |-> active, active |-> r, policy |-> CurrentPolicy,
                                         rescheduled |-> req[q].kind # "direct"])
      BY <1>1, <2>1 DEF Activated, Previous
    <3>2. history' \in Seq(Activation)
      BY <1>2, <1>3, <3>1, ActivationRecorded
    <3> QED
      BY <1>3, <2>1, <3>1, <3>2
  <2>2. CASE req[q].outcome # "ACTIVATED"
    BY <1>1, <2>2 DEF ReschedulingInv, RowsOK, TypeOK
  <2> QED
    BY <2>1, <2>2
<1>7. /\ row.pc = "acknowledge" /\ row.run = r /\ row.read = req[q].read /\ Idle.pc = "idle"
  BY DEF Idle
<1> HIDE DEF row
<1>8. req'[q] = IF req[q].read = {} THEN Idle ELSE row
  BY <1>1, <1>2
<1>9. RequestAt(q)'
  <2>1. CASE req[q].read = {}
    BY <1>7, <1>8, <2>1 DEF RequestAt, Working, Evaluating
  <2>2. CASE req[q].read # {}
    <3>1. schedule' = schedule /\ signals' = signals
      BY <1>1
    <3> QED
      BY <1>3, <1>7, <1>8, <2>2, <3>1 DEF RequestAt, Working, Evaluating, Built
  <2> QED
    BY <2>1, <2>2
<1>10. req' = [req EXCEPT ![q] = req'[q]] /\ (req'[q].pc \notin Working \/ (req[q].pc \in Working /\ req'[q].run = r))
  BY <1>1, <1>2, <1>7, <1>8 DEF Working, Evaluating
<1>11. ReschedulingInv'
  BY <1>1, <1>3, <1>5, <1>6, <1>9, <1>10, OutcomeStep DEF Working, Evaluating
<1> QED
  BY <1>1, <1>5, <1>6, <1>11

\* Signals are acknowledged by the run whose candidate was built after they were read.
LEMMA AcknowledgeSignalsStep ==
    ASSUME ReschedulingInv, NEW q \in Requests, AcknowledgeSignals(q)
    PROVE  ReschedulingInv'
<1> DEFINE r == req[q].run
<1>1. /\ req[q].pc = "acknowledge" /\ req' = [req EXCEPT ![q] = Idle] /\ UNCHANGED <<plantVars, scheduleVars, reschedule>>
      /\ signals' = [k \in DOMAIN signals |->
             IF k \in req[q].read \intersect Pending THEN [signals[k] EXCEPT !.by = r] ELSE signals[k]]
  BY DEF AcknowledgeSignals, Read
<1>2. RequestAt(q) /\ req = [u \in Requests |-> req[u]] /\ signals \in Seq(SignalRow)
  BY DEF ReschedulingInv, RowsOK
<1>3. /\ r \in Runs /\ Built(r)
      /\ req[q].read \subseteq DOMAIN signals /\ \A k \in req[q].read : Shows(schedule[r], signals[k].of)
  BY <1>1, <1>2 DEF RequestAt, Working, Evaluating
<1>4. /\ schedule' = schedule /\ reschedule' = reschedule /\ active' = active /\ history' = history
      /\ clock' = clock /\ op' = op /\ revision' = revision /\ policy' = policy /\ Plant' = Plant
  BY <1>1 DEF scheduleVars, plantVars, Plant
<1>5. \A k \in DOMAIN signals : signals[k] \in SignalRow
  BY <1>2
<1>6. DOMAIN signals' = DOMAIN signals
  BY <1>1
<1>7. ASSUME NEW k \in DOMAIN signals
      PROVE  /\ signals'[k] \in SignalRow /\ signals'[k].of = signals[k].of
             /\ signals'[k] = signals[k] \/ (k \in req[q].read /\ signals'[k].by = r)
  <2>1. CASE k \in req[q].read \intersect Pending
    <3>1. signals'[k] = [signals[k] EXCEPT !.by = r]
      BY <1>1, <2>1
    <3> QED
      BY <1>3, <1>5, <2>1, <3>1 DEF SignalRow
  <2>2. CASE k \notin req[q].read \intersect Pending
    BY <1>1, <1>5, <2>2
  <2> QED
    BY <2>1, <2>2
<1>8. signals' \in Seq(SignalRow)
  <2>1. DOMAIN signals = 1..Len(signals) /\ Len(signals) \in Nat
    BY <1>2
  <2>2. signals' = [k \in 1..Len(signals) |-> signals'[k]] /\ \A k \in 1..Len(signals) : signals'[k] \in SignalRow
    BY <1>1, <1>7, <2>1
  <2> HIDE DEF r
  <2> QED
    BY <2>1, <2>2
<1>9. TypeOK'
  <2>1. \A k \in DOMAIN signals' : signals'[k].by \in Runs \union {None}
    BY <1>6, <1>7 DEF SignalRow
  <2> QED
    BY <1>4, <2>1 DEF ReschedulingInv, TypeOK
<1>10. req' = [u \in Requests |-> req'[u]] /\ req'[q] = Idle /\ \A u \in Requests : u # q => req'[u] = req[u]
  BY <1>1, <1>2
<1>11. RowsOK'
  BY <1>4, <1>8, <1>10 DEF ReschedulingInv, RowsOK, Built
<1>12. RunsApart'
  BY <1>10 DEF ReschedulingInv, RunsApart, Idle, Working, Evaluating
<1>13. ASSUME NEW u \in Requests PROVE RequestAt(u)'
  <2>1. CASE u = q
    BY <1>10, <2>1 DEF RequestAt, Idle, Working, Evaluating
  <2>2. CASE u # q
    BY <1>4, <1>6, <1>7, <1>10, <2>2, RequestKept
  <2> QED
    BY <2>1, <2>2
<1>14. ASSUME NEW k \in DOMAIN signals' PROVE SignalAt(k)'
  <2>1. CASE signals'[k] = signals[k]
    BY <1>4, <1>6, <2>1, SignalKept
  <2>2. CASE k \in req[q].read /\ signals'[k].by = r
    <3>1. Shows(Plant', signals'[k].of) /\ Shows(schedule'[r], signals'[k].of)
      <4>1. k \in DOMAIN signals /\ SignalAt(k)
        BY <1>6 DEF ReschedulingInv
      <4> QED
        BY <1>3, <1>4, <1>7, <2>2, <4>1 DEF SignalAt
    <3> QED
      BY <1>3, <1>4, <2>2, <3>1 DEF SignalAt, Built
  <2> QED
    BY <1>6, <1>7, <2>1, <2>2
<1> QED
  BY <1>9, <1>11, <1>12, <1>13, <1>14 DEF ReschedulingInv

-----------------------------------------------------------------------------
LEMMA ReschedulingStep == ASSUME ReschedulingInv, [Next]_vars PROVE ReschedulingInv'
<1>1. CASE PlantNext
  BY <1>1, PlantStep
<1>2. CASE RequestNext
  <2>1. PICK q \in Requests :
           \/ \E r \in Runs : BuildSchedule(q, r) \/ \E t \in Times : BeginReschedule(q, r, t)
           \/ FindNoSchedule(q) \/ ActivateSchedule(q)
           \/ ReadSignals(q) \/ BuildCandidate(q) \/ CompareSchedules(q)
           \/ FinishReschedule(q) \/ FailReschedule(q) \/ AcknowledgeSignals(q) \/ Abandon(q)
    BY <1>2 DEF RequestNext
  <2> QED
    BY <2>1, BuildScheduleStep, BeginRescheduleStep, FindNoScheduleStep, ActivateScheduleStep, ReadSignalsStep,
       BuildCandidateStep, CompareSchedulesStep, FinishRescheduleStep, FailRescheduleStep, AcknowledgeSignalsStep, AbandonStep
<1>3. CASE UNCHANGED vars
  <2>1. /\ clock' = clock /\ op' = op /\ revision' = revision /\ policy' = policy /\ schedule' = schedule /\ active' = active
        /\ history' = history /\ reschedule' = reschedule /\ signals' = signals /\ req' = req
    BY <1>3 DEF vars
  <2>2. UNCHANGED <<scheduleVars, reschedule, req>> /\ Plant' = Plant
    BY <2>1 DEF scheduleVars, Plant
  <2>3. /\ clock' \in Times /\ op' \in [Ops -> OpStatus] /\ revision' \in [Events -> Revision]
        /\ policy' \in [Policies -> {"DRAFT", "ACTIVE", "ARCHIVED"}] /\ \E p \in Policies : policy'[p] = "ACTIVE"
    BY <2>1 DEF ReschedulingInv, RowsOK, TypeOK
  <2> QED
    BY <2>1, <2>2, <2>3, PlantKeeps
<1> QED
  BY <1>1, <1>2, <1>3 DEF Next

\* Between its transactions a request knows what stays true: of its run, of the schedule it compared it
\* with, and of the signals it read (BuildSchedule, Reschedule, ProcessPendingSignals: dispatch_rescheduling.go).
THEOREM ReschedulingInductive == Spec => []ReschedulingInv
<1> QED
  BY ReschedulingStart, ReschedulingStep, PTL DEF Spec

\* No signal is acknowledged by a run that was planned without what it tells, however late it was
\* raised (ProcessPendingSignals: dispatch_rescheduling.go).
THEOREM SignalsAnswered == Spec => []AcknowledgedWereSeen
<1>1. ReschedulingInv => AcknowledgedWereSeen
  BY DEF ReschedulingInv, SignalAt, Shows, AcknowledgedWereSeen
<1> QED
  BY <1>1, ReschedulingInductive, PTL

\* The pointer leaves a schedule only for one that was planned directly, or compared with it.
LEMMA SwitchKeepsFrozen ==
    ASSUME ReschedulingInv, [Next]_vars, active' # active, history'[Len(history')].rescheduled
    PROVE  KeepsTimes(reschedule[active'], schedule[active].start, schedule[active'].start)
<1>1. PICK q \in Requests : FinishReschedule(q)
  <2>1. ~PlantNext /\ ~UNCHANGED vars
    BY DEF PlantNext, Tick, Start, Stop, Complete, Progress, Revise, ActivatePolicy, scheduleVars, vars
  <2>2. PICK q \in Requests :
           \/ \E r \in Runs : BuildSchedule(q, r) \/ \E t \in Times : BeginReschedule(q, r, t)
           \/ FindNoSchedule(q) \/ ActivateSchedule(q)
           \/ ReadSignals(q) \/ BuildCandidate(q) \/ CompareSchedules(q)
           \/ FinishReschedule(q) \/ FailReschedule(q) \/ AcknowledgeSignals(q) \/ Abandon(q)
    BY <2>1 DEF Next, RequestNext
  <2>3. ~ActivateSchedule(q)
    BY ActivateScheduleStep
  <2> QED
    BY <2>2, <2>3, ZenonT(30) DEF BuildSchedule, BeginReschedule, FindNoSchedule, ReadSignals, BuildCandidate, CompareSchedules,
       FailReschedule, AcknowledgeSignals, Abandon, scheduleVars
<1>2. /\ req[q].pc = "finish" /\ req[q].outcome = "ACTIVATED" /\ active' = req[q].run /\ active = req[q].source
  BY <1>1, FinishRescheduleStep
<1>3. KeepsFrozen(req[q].run) /\ reschedule[req[q].run].source = req[q].source
  BY <1>2 DEF ReschedulingInv, RequestAt, Working, Evaluating
<1>4. active = reschedule[active'].source /\ KeepsFrozen(active')
  BY <1>2, <1>3
<1> QED
  BY <1>4 DEF KeepsFrozen

\* Whatever requests race, what the schedule in force has planned in the frozen time stays as planned
\* (compareSchedules, and the switch of the pointer: dispatch_rescheduling.go).
THEOREM FrozenStaysPlanned == Spec => FrozenHorizonKept
<1>1. ReschedulingInv /\ [Next]_vars =>
        [(active' # active /\ history'[Len(history')].rescheduled) =>
          LET r == reschedule[active']
              old == schedule[active].start
              new == schedule[active'].start
          IN  \A o \in DOMAIN old :
                 old[o] \in Times \intersect (r.asOf..(r.asOf + Freeze[r.policy] - 1)) =>
                     o \in DOMAIN new /\ new[o] = old[o]]_vars
  BY SwitchKeepsFrozen DEF KeepsTimes
<1> QED
  BY <1>1, ReschedulingInductive, PTL DEF Spec, FrozenHorizonKept

-----------------------------------------------------------------------------
(* The active version of an inventory policy.  A refresh holds its versions    *)
(* from the moment it has checked that they are still active, so none of them  *)
(* is archived before its figures are stored.                                 *)

History == [days : Nat, average : Nat, lead : Nat, spread : Nat]
RefreshRun == [phase : {"idle", "reading", "locked", "failed", "complete"}, asOf : 0..LastDate, started : Nat,
               found : SUBSET PolicyVersions, statistics : [Stocked -> History]]

Ordered(f) == f.safety \in Int /\ f.min \in Int /\ f.max \in Int /\ f.safety <= f.min /\ f.min <= f.max

StartedRuns == {r \in PolicyRuns : policyRun[r].phase # "idle"}

OneActive ==
    \A v, w \in PolicyVersions :
        version[v].status = "ACTIVE" /\ version[w].status = "ACTIVE" /\ version[v].item = version[w].item => v = w

LockedAreActive == \A r \in PolicyRuns : policyRun[r].phase = "locked" => Lockable(r)

ResultsOrdered == \A x \in results : policyRun[x.run].phase = "complete" /\ Ordered(x.figures)

PolicyInv ==
    /\ PolicyTypeOK
    /\ policyRun \in [PolicyRuns -> RefreshRun]
    /\ IsFiniteSet(StartedRuns)
    /\ OneActive /\ LockedAreActive /\ ResultsOrdered

LEMMA HistoriesTyped == \A i \in Stocked : PolicyTypeOK => statistics[i] \in History
BY InventoryPolicyAssumption DEF InventoryPolicyAssumption, PolicyTypeOK, History

LEMMA PolicyStart == ASSUME PolicyInit PROVE PolicyInv
<1>1. PolicyTypeOK
  <2>1. (CHOOSE i \in Stocked : TRUE) \in Stocked /\ 0 \in 0..LastDate
    BY InventoryPolicyAssumption DEF InventoryPolicyAssumption
  <2> DEFINE row == [item |-> CHOOSE i \in Stocked : TRUE, status |-> "NONE", fixed |-> -1, minMax |-> FALSE, effective |-> 0]
  <2>2. row \in InventoryPolicyVersion
    BY <2>1 DEF InventoryPolicyVersion
  <2>3. version = [v \in PolicyVersions |-> row] /\ results = {} /\ statistics \in [Stocked -> Histories]
    BY DEF PolicyInit
  <2> HIDE DEF row
  <2> QED
    BY <2>2, <2>3 DEF PolicyTypeOK
<1>2. NoRun \in RefreshRun /\ NoRun.phase = "idle"
  BY InventoryPolicyAssumption DEF InventoryPolicyAssumption, NoRun, RefreshRun, History
<1>3. policyRun = [r \in PolicyRuns |-> NoRun]
  BY DEF PolicyInit
<1>4. policyRun \in [PolicyRuns -> RefreshRun] /\ StartedRuns = {} /\ LockedAreActive
  BY <1>2, <1>3 DEF StartedRuns, LockedAreActive
<1>5. OneActive /\ ResultsOrdered
  BY DEF PolicyInit, OneActive, ResultsOrdered
<1> QED
  BY <1>1, <1>4, <1>5, FS_EmptySet DEF PolicyInv

\* A maximum is never below the minimum, nor that below the safety stock.
LEMMA FiguresOrdered ==
    ASSUME PolicyInv, NEW v \in PolicyVersions, NEW h \in History
    PROVE  Ordered(Figures(v, h))
<1> DEFINE use == h.average * h.lead
           safety == Safety(v, h)
           cycle == IF version[v].minMax THEN h.average * OrderCycle ELSE 0
<1>1. h.average \in Nat /\ h.lead \in Nat /\ h.spread \in Nat /\ h.days \in Nat /\ OrderCycle \in Nat /\ SafetyStock \in Nat
  BY InventoryPolicyAssumption DEF InventoryPolicyAssumption, History
<1>2. use \in Nat /\ h.spread * h.lead \in Nat /\ h.average * OrderCycle \in Nat
  BY <1>1
<1>3. version[v].fixed \in {-1, 2}
  BY DEF PolicyInv, PolicyTypeOK, InventoryPolicyVersion
<1>4. safety \in Nat
  BY <1>1, <1>2, <1>3 DEF Safety, StatisticalSafetyStock
<1>5. cycle \in Nat
  BY <1>2
<1>6. Figures(v, h) = [safety |-> safety, min |-> use + safety, max |-> (use + safety) + cycle]
  BY DEF Figures
<1> HIDE DEF use, safety, cycle
<1>7. use + safety \in Int /\ safety <= use + safety /\ (use + safety) + cycle \in Int /\ use + safety <= (use + safety) + cycle
  BY <1>2, <1>4, <1>5
<1> QED
  BY <1>4, <1>6, <1>7 DEF Ordered

-----------------------------------------------------------------------------
(* The actions.                                                               *)

\* A step that writes versions and leaves active those that a refresh holds.
LEMMA VersionStep ==
    ASSUME PolicyInv, version' \in [PolicyVersions -> InventoryPolicyVersion], UNCHANGED <<statistics, policyRun, results>>,
           OneActive', \A v \in PolicyVersions : version[v].status = "ACTIVE" /\ Shared(v) => version'[v].status = "ACTIVE"
    PROVE  PolicyInv'
<1>1. PolicyTypeOK' /\ ResultsOrdered' /\ StartedRuns' = StartedRuns
  BY DEF PolicyInv, PolicyTypeOK, ResultsOrdered, Ordered, StartedRuns
<1>2. LockedAreActive'
  <2>1. \A r \in PolicyRuns : policyRun[r].phase = "locked" =>
           \A v \in policyRun[r].found : v \in PolicyVersions /\ Shared(v) /\ version[v].status = "ACTIVE"
    BY DEF PolicyInv, RefreshRun, LockedAreActive, Lockable, Shared
  <2> QED
    BY <2>1 DEF LockedAreActive, Lockable
<1> QED
  BY <1>1, <1>2 DEF PolicyInv

LEMMA CreateVersionStep ==
    ASSUME PolicyInv, NEW v \in PolicyVersions, NEW i \in Stocked, NEW fixed \in {-1, 2}, NEW minMax \in BOOLEAN,
           NEW from \in 0..LastDate, CreateVersion(v, i, fixed, minMax, from)
    PROVE  PolicyInv'
<1> DEFINE row == [item |-> i, status |-> "DRAFT", fixed |-> fixed, minMax |-> minMax, effective |-> from]
<1>1. version[v].status = "NONE" /\ version' = [version EXCEPT ![v] = row] /\ UNCHANGED <<statistics, policyRun, results>>
  BY DEF CreateVersion
<1>2. row \in InventoryPolicyVersion /\ row.status = "DRAFT"
  BY DEF InventoryPolicyVersion
<1> HIDE DEF row
<1>3. version \in [PolicyVersions -> InventoryPolicyVersion] /\ OneActive
  BY DEF PolicyInv, PolicyTypeOK
<1>4. /\ version' \in [PolicyVersions -> InventoryPolicyVersion] /\ version'[v].status = "DRAFT"
      /\ \A w \in PolicyVersions : w # v => version'[w] = version[w]
  BY <1>1, <1>2, <1>3
<1>5. OneActive'
  BY <1>3, <1>4 DEF OneActive
<1> QED
  BY <1>1, <1>4, <1>5, VersionStep

LEMMA ActivateVersionStep ==
    ASSUME PolicyInv, NEW v \in PolicyVersions, ActivateVersion(v)
    PROVE  PolicyInv'
<1> DEFINE old == ActiveOf(version[v].item)
<1>1. /\ version[v].status = "DRAFT" /\ \A w \in old : ~Shared(w)
      /\ version' = [w \in PolicyVersions |-> IF w = v THEN [version[w] EXCEPT !.status = "ACTIVE"]
                                              ELSE IF w \in old THEN [version[w] EXCEPT !.status = "ARCHIVED"]
                                              ELSE version[w]]
      /\ UNCHANGED <<statistics, policyRun, results>>
  BY DEF ActivateVersion
<1>2. version \in [PolicyVersions -> InventoryPolicyVersion] /\ OneActive
  BY DEF PolicyInv, PolicyTypeOK
<1>3. old = {w \in PolicyVersions : version[w].item = version[v].item /\ version[w].status = "ACTIVE"}
  BY DEF ActiveOf
<1> HIDE DEF old
<1>4. ASSUME NEW w \in PolicyVersions
      PROVE  /\ version'[w] \in InventoryPolicyVersion /\ version'[w].item = version[w].item
             /\ version'[w].status = IF w = v THEN "ACTIVE" ELSE IF w \in old THEN "ARCHIVED" ELSE version[w].status
  BY <1>1, <1>2 DEF InventoryPolicyVersion
<1>5. version' \in [PolicyVersions -> InventoryPolicyVersion]
  BY <1>1, <1>4
<1>6. OneActive'
  BY <1>2, <1>3, <1>4 DEF OneActive
<1>7. \A w \in PolicyVersions : version[w].status = "ACTIVE" /\ Shared(w) => version'[w].status = "ACTIVE"
  BY <1>1, <1>4
<1> QED
  BY <1>1, <1>5, <1>6, <1>7, VersionStep

LEMMA ArchiveVersionStep ==
    ASSUME PolicyInv, NEW v \in PolicyVersions, ArchiveVersion(v)
    PROVE  PolicyInv'
<1>1. ~Shared(v) /\ version' = [version EXCEPT ![v].status = "ARCHIVED"] /\ UNCHANGED <<statistics, policyRun, results>>
  BY DEF ArchiveVersion
<1>2. version \in [PolicyVersions -> InventoryPolicyVersion] /\ OneActive
  BY DEF PolicyInv, PolicyTypeOK
<1>3. /\ version' \in [PolicyVersions -> InventoryPolicyVersion] /\ version'[v].status = "ARCHIVED"
      /\ \A w \in PolicyVersions : w # v => version'[w] = version[w]
  BY <1>1, <1>2 DEF InventoryPolicyVersion
<1>4. OneActive'
  BY <1>2, <1>3 DEF OneActive
<1> QED
  BY <1>1, <1>3, <1>4, VersionStep

\* A step of refresh r.
LEMMA RefreshStep ==
    ASSUME PolicyInv, NEW r \in PolicyRuns, NEW mine \in RefreshRun, policyRun' = [policyRun EXCEPT ![r] = mine],
           UNCHANGED <<version, statistics>>, mine.phase = "locked" => \A v \in mine.found : version[v].status = "ACTIVE",
           policyRun[r].phase # "complete", mine.phase # "idle",
           \A x \in results' : /\ x.run \in PolicyRuns /\ x.version \in PolicyVersions
                               /\ x \in results \/ (x.run = r /\ mine.phase = "complete" /\ Ordered(x.figures))
    PROVE  PolicyInv'
<1>1. policyRun \in [PolicyRuns -> RefreshRun]
  BY DEF PolicyInv
<1>2. /\ policyRun' \in [PolicyRuns -> RefreshRun] /\ policyRun'[r] = mine
      /\ \A y \in PolicyRuns : y # r => policyRun'[y] = policyRun[y]
  BY <1>1
<1>3. StartedRuns' = StartedRuns \cup {r}
  BY <1>2 DEF StartedRuns
<1>4. IsFiniteSet(StartedRuns')
  BY <1>3, FS_AddElement DEF PolicyInv
<1>5. PolicyTypeOK' /\ OneActive'
  BY DEF PolicyInv, PolicyTypeOK, OneActive
<1>6. LockedAreActive'
  BY <1>2 DEF PolicyInv, LockedAreActive, Lockable
<1>7. ResultsOrdered'
  BY <1>2 DEF PolicyInv, ResultsOrdered
<1> QED
  BY <1>2, <1>4, <1>5, <1>6, <1>7 DEF PolicyInv

LEMMA BeginRefreshStep ==
    ASSUME PolicyInv, NEW r \in PolicyRuns, NEW asOf \in 0..LastDate, BeginRefresh(r, asOf)
    PROVE  PolicyInv'
<1> DEFINE found == {v \in PolicyVersions : version[v].status = "ACTIVE" /\ version[v].effective <= asOf}
           mine == [phase |-> "reading", asOf |-> asOf, started |-> Starts + 1, statistics |-> statistics, found |-> found]
<1>1. /\ policyRun[r].phase = "idle" /\ policyRun' = [policyRun EXCEPT ![r] = mine]
      /\ UNCHANGED <<version, statistics, results>>
  BY DEF BeginRefresh
<1>2. Starts \in Nat
  BY FS_CardinalityType DEF Starts, StartedRuns, PolicyInv
<1>3. statistics \in [Stocked -> History] /\ found \in SUBSET PolicyVersions
  BY InventoryPolicyAssumption DEF InventoryPolicyAssumption, PolicyInv, PolicyTypeOK, History
<1> HIDE DEF found
<1>4. mine \in RefreshRun /\ mine.phase = "reading"
  BY <1>2, <1>3 DEF RefreshRun
<1> HIDE DEF mine
<1>5. \A x \in results' : x.run \in PolicyRuns /\ x.version \in PolicyVersions /\ x \in results
  BY <1>1 DEF PolicyInv, PolicyTypeOK
<1> QED
  BY <1>1, <1>4, <1>5, RefreshStep

LEMMA LockPoliciesStep ==
    ASSUME PolicyInv, NEW r \in PolicyRuns, LockPolicies(r)
    PROVE  PolicyInv'
<1> DEFINE mine == [policyRun[r] EXCEPT !.phase = IF Lockable(r) THEN "locked" ELSE "failed"]
<1>1. policyRun \in [PolicyRuns -> RefreshRun] /\ policyRun[r].phase = "reading" /\ UNCHANGED <<version, statistics, results>>
  BY DEF PolicyInv, LockPolicies
<1>2. policyRun' = [policyRun EXCEPT ![r] = mine]
  BY <1>1 DEF LockPolicies
<1>3. /\ mine \in RefreshRun /\ mine.phase \in {"locked", "failed"} /\ mine.found = policyRun[r].found
      /\ mine.phase = "locked" => Lockable(r)
  BY <1>1 DEF RefreshRun
<1> HIDE DEF mine
<1>4. \A x \in results' : x.run \in PolicyRuns /\ x.version \in PolicyVersions /\ x \in results
  BY <1>1 DEF PolicyInv, PolicyTypeOK
<1> QED
  BY <1>1, <1>2, <1>3, <1>4, RefreshStep DEF Lockable

LEMMA StoreResultsStep ==
    ASSUME PolicyInv, NEW r \in PolicyRuns, Refresh(r)
    PROVE  /\ PolicyInv'
           /\ \A x \in results' \ results : version[x.version].status = "ACTIVE"
<1> DEFINE mine == [policyRun[r] EXCEPT !.phase = "complete"]
           Row(v) == [run |-> r, version |-> v, figures |-> Figures(v, policyRun[r].statistics[version[v].item])]
<1>1. /\ policyRun[r].phase = "locked" /\ UNCHANGED <<version, statistics>>
      /\ results' = results \cup {Row(v) : v \in policyRun[r].found}
  BY DEF Refresh
<1>2. policyRun \in [PolicyRuns -> RefreshRun] /\ version \in [PolicyVersions -> InventoryPolicyVersion]
  BY DEF PolicyInv, PolicyTypeOK
<1>3. policyRun' = [policyRun EXCEPT ![r] = mine]
  BY <1>2 DEF Refresh
<1>4. mine \in RefreshRun /\ mine.phase = "complete"
  BY <1>2 DEF RefreshRun
<1>5. ASSUME NEW v \in policyRun[r].found
      PROVE  v \in PolicyVersions /\ version[v].status = "ACTIVE" /\ Ordered(Figures(v, policyRun[r].statistics[version[v].item]))
  <2>1. policyRun[r].found \in SUBSET PolicyVersions /\ policyRun[r].statistics \in [Stocked -> History]
    BY <1>2 DEF RefreshRun
  <2>2. v \in PolicyVersions /\ version[v].item \in Stocked
    BY <1>2, <2>1 DEF InventoryPolicyVersion
  <2>3. version[v].status = "ACTIVE"
    BY <1>1 DEF PolicyInv, LockedAreActive, Lockable
  <2> QED
    BY <2>1, <2>2, <2>3, FiguresOrdered
<1>6. ASSUME NEW x \in results', x \notin results
      PROVE  /\ x.run = r /\ x.version \in PolicyVersions /\ version[x.version].status = "ACTIVE" /\ Ordered(x.figures)
  <2>1. PICK v \in policyRun[r].found : x = Row(v)
    BY <1>1, <1>6
  <2>2. x.run = r /\ x.version = v /\ x.figures = Figures(v, policyRun[r].statistics[version[v].item])
    BY <2>1
  <2> HIDE DEF Row
  <2> QED
    BY <1>5, <2>2
<1> HIDE DEF mine, Row
<1>7. \A x \in results : x.run \in PolicyRuns /\ x.version \in PolicyVersions
  BY DEF PolicyInv, PolicyTypeOK
<1>8. \A x \in results' :
         /\ x.run \in PolicyRuns /\ x.version \in PolicyVersions
         /\ x \in results \/ (x.run = r /\ mine.phase = "complete" /\ Ordered(x.figures))
  BY <1>4, <1>6, <1>7
<1>9. /\ policyRun[r].phase # "complete" /\ mine.phase # "idle"
      /\ mine.phase = "locked" => \A v \in mine.found : version[v].status = "ACTIVE"
  BY <1>1, <1>4
<1>10. PolicyInv'
  BY <1>1, <1>3, <1>4, <1>8, <1>9, RefreshStep
<1> QED
  BY <1>6, <1>10

LEMMA PolicyStep == ASSUME PolicyInv, [PolicyNext]_policyVars PROVE PolicyInv'
<1>1. ASSUME NEW i \in Stocked, NEW h \in Histories, HistoryGrows(i, h) PROVE PolicyInv'
  <2>1. statistics' = [statistics EXCEPT ![i] = h] /\ version' = version /\ policyRun' = policyRun /\ results' = results
    BY <1>1 DEF HistoryGrows
  <2>2. statistics' \in [Stocked -> Histories]
    BY <2>1 DEF PolicyInv, PolicyTypeOK
  <2> QED
    BY <2>1, <2>2 DEF PolicyInv, PolicyTypeOK, StartedRuns, OneActive, LockedAreActive, Lockable, ResultsOrdered
<1>2. ASSUME NextDate \/ UNCHANGED policyVars PROVE PolicyInv'
  <2>1. statistics' = statistics /\ version' = version /\ policyRun' = policyRun /\ results' = results
    BY <1>2 DEF NextDate, policyVars
  <2> QED
    BY <2>1 DEF PolicyInv, PolicyTypeOK, StartedRuns, OneActive, LockedAreActive, Lockable, ResultsOrdered
<1> QED
  BY <1>1, <1>2, CreateVersionStep, ActivateVersionStep, ArchiveVersionStep, BeginRefreshStep, LockPoliciesStep, StoreResultsStep
  DEF PolicyNext

-----------------------------------------------------------------------------
\* Of finitely many started runs one started last.
LEMMA LastExists ==
    ASSUME PolicyInv, NEW S \in SUBSET results, S # {}
    PROVE  LastStarted(S) \in S
<1> DEFINE At(x) == policyRun[x.run].started
           Later(x) == {r \in StartedRuns : At(x) < policyRun[r].started}
           C == {Later(x) : x \in S}
<1>1. C \subseteq SUBSET StartedRuns /\ C # {}
  OBVIOUS
<1>2. \A x \in S : x.run \in StartedRuns /\ At(x) \in Nat
  BY DEF PolicyInv, PolicyTypeOK, ResultsOrdered, StartedRuns, RefreshRun
<1>3. PICK T \in C : \A U \in C : U \subseteq T => U = T
  <2> HIDE DEF C
  <2> QED
    BY <1>1, SmallestSet DEF PolicyInv
<1>4. PICK x \in S : T = Later(x)
  OBVIOUS
<1>5. ASSUME NEW y \in S, ~(At(y) <= At(x)) PROVE FALSE
  <2>1. At(x) \in Nat /\ At(y) \in Nat /\ At(x) < At(y)
    BY <1>2, <1>5
  <2>2. \A r \in StartedRuns : policyRun[r].started \in Nat
    BY DEF PolicyInv, StartedRuns, RefreshRun
  <2>3. Later(y) \subseteq Later(x)
    BY <2>1, <2>2
  <2>4. Later(y) = Later(x)
    BY <1>3, <1>4, <2>3
  <2>5. y.run \in Later(x) /\ y.run \notin Later(y)
    BY <1>2, <2>1
  <2> QED
    BY <2>4, <2>5
<1>6. \E z \in S : \A y \in S : policyRun[y.run].started <= policyRun[z.run].started
  BY <1>5
<1> QED
  BY <1>6 DEF LastStarted

FiguresMakeSense ==
    \A i \in Stocked :
        Cardinality(ActiveOf(i)) <= 1 /\ LET f == Effective(i).figures IN f.safety <= f.min /\ f.min <= f.max

LEMMA PlanningFigures == PolicyInv => FiguresMakeSense
<1> SUFFICES ASSUME PolicyInv, NEW i \in Stocked
             PROVE  /\ Cardinality(ActiveOf(i)) <= 1
                    /\ LET f == Effective(i).figures IN f.safety <= f.min /\ f.min <= f.max
  BY DEF FiguresMakeSense
<1>1. ActiveOf(i) \subseteq PolicyVersions /\ \A v, w \in ActiveOf(i) : v = w
  BY DEF PolicyInv, OneActive, ActiveOf
<1>2. Cardinality(ActiveOf(i)) <= 1
  <2>1. CASE ActiveOf(i) = {}
    BY <2>1, FS_EmptySet
  <2>2. CASE ActiveOf(i) # {}
    <3>1. PICK v \in ActiveOf(i) : ActiveOf(i) = {v}
      BY <1>1, <2>2
    <3> QED
      BY <3>1, FS_Singleton
  <2> QED
    BY <2>1, <2>2
<1>3. ASSUME NEW q \in Nat PROVE Ordered(Flat(q))
  BY DEF Flat, Ordered
<1>4. SafetyStock \in Nat
  BY InventoryPolicyAssumption DEF InventoryPolicyAssumption
<1>5. Ordered(Effective(i).figures)
  <2> DEFINE current == {v \in ActiveOf(i) : version[v].effective <= date}
             u == CHOOSE v \in current : TRUE
             fixed == IF version[u].fixed >= 0 THEN version[u].fixed ELSE SafetyStock
  <2>1. CASE current = {}
    BY <1>3, <1>4, <2>1 DEF Effective
  <2>2. CASE current # {} /\ ResultsOf(u) = {}
    <3>1. u \in PolicyVersions
      BY <1>1, <2>2
    <3>2. version[u].fixed \in {-1, 2}
      BY <3>1 DEF PolicyInv, PolicyTypeOK, InventoryPolicyVersion
    <3>3. fixed \in Nat
      BY <1>4, <3>2
    <3>4. Effective(i).figures = Flat(fixed)
      BY <2>2 DEF Effective
    <3> HIDE DEF fixed
    <3> QED
      BY <1>3, <3>3, <3>4
  <2>3. CASE current # {} /\ ResultsOf(u) # {}
    <3>1. ResultsOf(u) \in SUBSET results
      BY DEF ResultsOf
    <3>2. LastStarted(ResultsOf(u)) \in results
      BY <2>3, <3>1, LastExists
    <3>3. Effective(i).figures = LastStarted(ResultsOf(u)).figures
      BY <2>3 DEF Effective
    <3> QED
      BY <3>2, <3>3 DEF PolicyInv, ResultsOrdered
  <2> QED
    BY <2>1, <2>2, <2>3
<1> QED
  BY <1>2, <1>5 DEF Ordered

\* An item has one active version, and what a refresh has locked is active (ActivateVersion,
\* ArchiveVersion, Refresh: inventory_policy.go).
THEOREM PoliciesInductive == PolicySpec => []PolicyInv
<1> QED
  BY PolicyStart, PolicyStep, PTL DEF PolicySpec

\* Figures are only ever stored for versions in force, of which an item has one,
\* and what planning uses of them is in order (Refresh, Effective: inventory_policy.go).
THEOREM FiguresFollowPolicy == PolicySpec => FiguresForActive
<1>1. PolicyInv /\ [PolicyNext]_policyVars => [\A x \in results' \ results : version[x.version].status = "ACTIVE"]_policyVars
  <2> SUFFICES ASSUME PolicyInv, PolicyNext, NEW x \in results' \ results PROVE version[x.version].status = "ACTIVE"
    OBVIOUS
  <2>1. CASE \E r \in PolicyRuns : Refresh(r)
    BY <2>1, StoreResultsStep
  <2>2. CASE ~\E r \in PolicyRuns : Refresh(r)
    BY <2>2 DEF PolicyNext, ActivateVersion, ArchiveVersion, CreateVersion, LockPolicies, BeginRefresh, HistoryGrows, NextDate
  <2> QED
    BY <2>1, <2>2
<1>2. PolicyInv /\ [PolicyNext]_policyVars => FiguresMakeSense'
  BY PolicyStep, PlanningFigures, PTL
<1>3. PolicyInv /\ [PolicyNext]_policyVars =>
        [/\ \A x \in results' \ results : version[x.version].status = "ACTIVE"
         /\ \A i \in Stocked : Cardinality(ActiveOf(i)') <= 1 /\ LET f == Effective(i)'.figures IN f.safety <= f.min /\ f.min <= f.max]_policyVars
  BY <1>1, <1>2 DEF FiguresMakeSense
<1> QED
  BY <1>3, PoliciesInductive, PTL DEF PolicySpec, FiguresForActive

=============================================================================
