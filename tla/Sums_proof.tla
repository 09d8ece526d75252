----------------------------- MODULE Sums_proof -----------------------------
(* Induction over finite sets, and what follows for the sums the modules      *)
(* are built from: SumFunctionOnSet(f, S) adds f[x] over the members x of S.  *)
(* The induction theorems of the library take an operator; the well-founded   *)
(* ordering they rest on does not, so a proof by induction is one by a least  *)
(* counterexample (SmallestSet).  At the end the two forms of induction that  *)
(* need no operator (of a set of numbers, of a set of sets), a sum taken key  *)
(* by key, and the existence of a function defined by recursion.              *)
EXTENDS Integers, FiniteSets, Functions, FiniteSetTheorems, WellFoundedInduction, TLAPS

\* Among subsets of a finite set there is one that contains no other of them.
LEMMA SmallestSet ==
    ASSUME NEW S, IsFiniteSet(S), NEW C, C \subseteq SUBSET S, C # {}
    PROVE  \E T \in C : \A U \in C : U \subseteq T => U = T
<1>1. C \subseteq FiniteSubsetsOf(S)
    BY FS_Subset DEF FiniteSubsetsOf
<1>2. \E T \in C : \A U \in C : ~(<<U, T>> \in StrictSubsetOrdering(S))
    BY <1>1, FS_StrictSubsetOrderingWellFounded, WFMin
<1> QED
    BY <1>2 DEF StrictSubsetOrdering

\* The same for numbers.
LEMMA SmallestNumber ==
    ASSUME NEW C, C \subseteq Nat, C # {}
    PROVE  \E n \in C : \A m \in C : n <= m
<1>1. PICK k \in C : TRUE
    OBVIOUS
<1>2. IsFiniteSet(0..k)
    BY <1>1, FS_Interval
<1> DEFINE below == {0..n : n \in {m \in C : m <= k}}
<1>3. below \subseteq SUBSET (0..k) /\ below # {}
    BY <1>1
<1>4. PICK T \in below : \A U \in below : U \subseteq T => U = T
  <2> DEFINE R == 0..k
  <2>1. IsFiniteSet(R) /\ below \subseteq SUBSET R /\ below # {}
      BY <1>2, <1>3
  <2> HIDE DEF below, R
  <2> QED
      BY <2>1, SmallestSet
<1>5. PICK n \in C : n <= k /\ T = 0..n
    BY <1>4
<1>6. ASSUME NEW m \in C, m < n
      PROVE  FALSE
  <2>1. 0..m \in below /\ 0..m \subseteq T
      BY <1>1, <1>5, <1>6
  <2>2. T = 0..m
      BY <1>4, <2>1
  <2>3. n \in T /\ n \notin 0..m
      BY <1>5, <1>6
  <2> QED
      BY <2>2, <2>3
<1> QED
    BY <1>5, <1>6

-----------------------------------------------------------------------------
(* The fold that defines a sum.                                              *)

Chosen(T) == CHOOSE x \in T : TRUE
FoldStep(f, T, g) == IF T = {} THEN 0 ELSE f[Chosen(T)] + g[T \ {Chosen(T)}]
IsFold(f, S, g) == g = [T \in SUBSET S |-> FoldStep(f, T, g)]
FoldOf(f, S) == CHOOSE g : IsFold(f, S, g)

LEMMA SumUnfolds == ASSUME NEW f, NEW S PROVE SumFunctionOnSet(f, S) = FoldOf(f, S)[S]
BY DEF SumFunctionOnSet, FoldFunctionOnSet, MapThenFoldSet, FoldOf, IsFold, FoldStep, Chosen

LEMMA FoldsAgree ==
    ASSUME NEW f, NEW A, NEW B, IsFiniteSet(A), NEW g, IsFold(f, A, g), NEW h, IsFold(f, B, h)
    PROVE  \A T \in SUBSET (A \intersect B) : g[T] = h[T]
<1> DEFINE C == {T \in SUBSET (A \intersect B) : g[T] # h[T]}
<1> SUFFICES ASSUME C # {} PROVE FALSE
    OBVIOUS
<1>1. PICK T \in C : \A U \in C : U \subseteq T => U = T
  <2>1. C \subseteq SUBSET A
      OBVIOUS
  <2> HIDE DEF C
  <2> QED
      BY <2>1, SmallestSet
<1>2. g[T] = FoldStep(f, T, g) /\ h[T] = FoldStep(f, T, h)
    BY <1>1 DEF IsFold
<1>3. T # {}
    BY <1>1, <1>2 DEF FoldStep
<1>4. Chosen(T) \in T
    BY <1>3 DEF Chosen
<1>5. g[T \ {Chosen(T)}] = h[T \ {Chosen(T)}]
    BY <1>1, <1>4
<1> QED
    BY <1>1, <1>2, <1>5 DEF FoldStep

LEMMA FoldExists ==
    ASSUME NEW f, NEW S, IsFiniteSet(S)
    PROVE  IsFold(f, S, FoldOf(f, S))
<1> DEFINE C == {T \in SUBSET S : ~ \E g : IsFold(f, T, g)}
<1> SUFFICES ASSUME C # {} PROVE FALSE
    BY DEF FoldOf
<1>1. PICK T \in C : \A U \in C : U \subseteq T => U = T
  <2>1. C \subseteq SUBSET S
      OBVIOUS
  <2> HIDE DEF C
  <2> QED
      BY <2>1, SmallestSet
<1>2. \A U \in SUBSET T : IsFiniteSet(U) /\ (U # T => IsFold(f, U, FoldOf(f, U)))
    BY <1>1, FS_Subset DEF FoldOf
<1> DEFINE h == [U \in SUBSET T |-> IF U # T THEN FoldOf(f, U)[U]
                 ELSE IF T = {} THEN 0 ELSE f[Chosen(T)] + FoldOf(f, T \ {Chosen(T)})[T \ {Chosen(T)}]]
<1>3. ASSUME NEW U \in SUBSET T
      PROVE  h[U] = FoldStep(f, U, h)
  <2>1. CASE U = {}
      BY <2>1, <1>2 DEF FoldStep, IsFold
  <2>2. CASE U # {}
    <3> DEFINE V == U \ {Chosen(U)}
    <3>1. Chosen(U) \in U /\ V \in SUBSET T /\ V # T /\ V # U
        BY <2>2 DEF Chosen
    <3>2. h[V] = FoldOf(f, V)[V]
        BY <3>1
    <3>3. CASE U = T
        BY <3>2, <3>3, <2>2 DEF FoldStep
    <3>4. CASE U # T
      <4>1. h[U] = f[Chosen(U)] + FoldOf(f, U)[V]
          BY <3>4, <2>2, <1>2 DEF IsFold, FoldStep
      <4>2. FoldOf(f, U)[V] = FoldOf(f, V)[V]
          BY <3>1, <3>4, <1>2, FoldsAgree
      <4> QED
          BY <4>1, <4>2, <3>2, <2>2 DEF FoldStep
    <3> QED
        BY <3>3, <3>4
  <2> QED
      BY <2>1, <2>2
<1>4. IsFold(f, T, h)
    BY <1>3 DEF IsFold
<1> QED
    BY <1>1, <1>4

\* A sum is that of one member and that of the others.
LEMMA SumFirst ==
    ASSUME NEW f, NEW S, IsFiniteSet(S)
    PROVE  /\ S = {} => SumFunctionOnSet(f, S) = 0
           /\ S # {} => \E x \in S : SumFunctionOnSet(f, S) = f[x] + SumFunctionOnSet(f, S \ {x})
<1>1. IsFold(f, S, FoldOf(f, S)) /\ SumFunctionOnSet(f, S) = FoldOf(f, S)[S]
    BY FoldExists, SumUnfolds
<1>2. CASE S = {}
    BY <1>1, <1>2 DEF IsFold, FoldStep
<1>3. CASE S # {}
  <2> DEFINE V == S \ {Chosen(S)}
  <2>1. Chosen(S) \in S /\ IsFiniteSet(V)
      BY <1>3, FS_RemoveElement DEF Chosen
  <2>2. IsFold(f, V, FoldOf(f, V)) /\ SumFunctionOnSet(f, V) = FoldOf(f, V)[V]
      BY <2>1, FoldExists, SumUnfolds
  <2>3. FoldOf(f, S)[V] = FoldOf(f, V)[V]
    <3>1. V \in SUBSET (S \intersect V)
        OBVIOUS
    <3> HIDE DEF V
    <3> QED
        BY <1>1, <2>2, <3>1, FoldsAgree
  <2>4. FoldOf(f, S)[S] = f[Chosen(S)] + FoldOf(f, S)[V]
      BY <1>1, <1>3 DEF IsFold, FoldStep
  <2> QED
      BY <1>1, <1>3, <2>1, <2>2, <2>3, <2>4
<1> QED
    BY <1>2, <1>3

-----------------------------------------------------------------------------
(* What sums of integers have in common.                                     *)

LEMMA SumType ==
    ASSUME NEW f, NEW S, IsFiniteSet(S), \A x \in S : f[x] \in Int
    PROVE  SumFunctionOnSet(f, S) \in Int
<1> DEFINE C == {T \in SUBSET S : SumFunctionOnSet(f, T) \notin Int}
<1> SUFFICES ASSUME C # {} PROVE FALSE
    OBVIOUS
<1>1. PICK T \in C : \A U \in C : U \subseteq T => U = T
  <2>1. C \subseteq SUBSET S
      OBVIOUS
  <2> HIDE DEF C
  <2> QED
      BY <2>1, SmallestSet
<1>2. IsFiniteSet(T)
    BY <1>1, FS_Subset
<1>3. T # {}
    BY <1>1, <1>2, SumFirst
<1>4. PICK x \in T : SumFunctionOnSet(f, T) = f[x] + SumFunctionOnSet(f, T \ {x})
    BY <1>2, <1>3, SumFirst
<1>5. SumFunctionOnSet(f, T \ {x}) \in Int
    BY <1>1, <1>4
<1> QED
    BY <1>1, <1>4, <1>5

\* The order in which the members are added does not matter.
LEMMA SumRemove ==
    ASSUME NEW f, NEW S, IsFiniteSet(S), \A x \in S : f[x] \in Int
    PROVE  \A x \in S : SumFunctionOnSet(f, S) = f[x] + SumFunctionOnSet(f, S \ {x})
<1> DEFINE Splits(T) == \A x \in T : SumFunctionOnSet(f, T) = f[x] + SumFunctionOnSet(f, T \ {x})
           C == {T \in SUBSET S : ~Splits(T)}
<1> SUFFICES ASSUME C # {} PROVE FALSE
    OBVIOUS
<1>1. PICK T \in C : \A U \in C : U \subseteq T => U = T
  <2>1. C \subseteq SUBSET S
      OBVIOUS
  <2> HIDE DEF C
  <2> QED
      BY <2>1, SmallestSet
<1>2. \A U \in SUBSET T : IsFiniteSet(U) /\ SumFunctionOnSet(f, U) \in Int
    BY <1>1, FS_Subset, SumType
<1>3. PICK y \in T : SumFunctionOnSet(f, T) = f[y] + SumFunctionOnSet(f, T \ {y})
    BY <1>1, <1>2, SumFirst
<1>4. PICK x \in T : SumFunctionOnSet(f, T) # f[x] + SumFunctionOnSet(f, T \ {x})
    BY <1>1
<1>5. Splits(T \ {x}) /\ Splits(T \ {y})
    BY <1>1
<1>6. x # y /\ (T \ {x}) \ {y} = (T \ {y}) \ {x}
    BY <1>3, <1>4
<1>7. SumFunctionOnSet(f, T \ {x}) = f[y] + SumFunctionOnSet(f, (T \ {x}) \ {y})
    BY <1>5, <1>6
<1>8. SumFunctionOnSet(f, T \ {y}) = f[x] + SumFunctionOnSet(f, (T \ {x}) \ {y})
    BY <1>5, <1>6
<1>9. SumFunctionOnSet(f, (T \ {x}) \ {y}) \in Int /\ f[x] \in Int /\ f[y] \in Int
    BY <1>1, <1>2
<1> QED
    BY <1>3, <1>4, <1>7, <1>8, <1>9

\* What is not a member does not count.
LEMMA SumSame ==
    ASSUME NEW f, NEW g, NEW S, IsFiniteSet(S), \A x \in S : f[x] \in Int /\ g[x] = f[x]
    PROVE  SumFunctionOnSet(g, S) = SumFunctionOnSet(f, S)
<1> DEFINE C == {T \in SUBSET S : SumFunctionOnSet(g, T) # SumFunctionOnSet(f, T)}
<1> SUFFICES ASSUME C # {} PROVE FALSE
    OBVIOUS
<1>1. PICK T \in C : \A U \in C : U \subseteq T => U = T
  <2>1. C \subseteq SUBSET S
      OBVIOUS
  <2> HIDE DEF C
  <2> QED
      BY <2>1, SmallestSet
<1>2. IsFiniteSet(T) /\ \A x \in T : f[x] \in Int /\ g[x] = f[x]
    BY <1>1, FS_Subset
<1>3. PICK x \in T : TRUE
    BY <1>1, <1>2, SumFirst
<1>4. SumFunctionOnSet(g, T \ {x}) = SumFunctionOnSet(f, T \ {x})
    BY <1>1, <1>3
<1>5. SumFunctionOnSet(f, T) = f[x] + SumFunctionOnSet(f, T \ {x})
    BY <1>2, SumRemove
<1>6. SumFunctionOnSet(g, T) = g[x] + SumFunctionOnSet(g, T \ {x})
  <2>1. \A z \in T : g[z] \in Int
      BY <1>2
  <2> QED
      BY <1>2, <2>1, SumRemove
<1> QED
    BY <1>1, <1>2, <1>4, <1>5, <1>6

\* One summand changes.
LEMMA SumChange ==
    ASSUME NEW f, NEW g, NEW S, IsFiniteSet(S), NEW x \in S,
           \A y \in S : f[y] \in Int /\ g[y] \in Int /\ (y # x => g[y] = f[y])
    PROVE  SumFunctionOnSet(g, S) = SumFunctionOnSet(f, S) - f[x] + g[x]
<1>1. IsFiniteSet(S \ {x})
    BY FS_RemoveElement
<1>2. SumFunctionOnSet(g, S \ {x}) = SumFunctionOnSet(f, S \ {x}) /\ SumFunctionOnSet(f, S \ {x}) \in Int
    BY <1>1, SumSame, SumType
<1>3. SumFunctionOnSet(f, S) = f[x] + SumFunctionOnSet(f, S \ {x})
    BY SumRemove
<1>4. SumFunctionOnSet(g, S) = g[x] + SumFunctionOnSet(g, S \ {x})
    BY SumRemove
<1> QED
    BY <1>2, <1>3, <1>4

LEMMA SumInsert ==
    ASSUME NEW f, NEW S, IsFiniteSet(S), NEW x, x \notin S, \A y \in S \union {x} : f[y] \in Int
    PROVE  SumFunctionOnSet(f, S \union {x}) = SumFunctionOnSet(f, S) + f[x]
<1> DEFINE T == S \union {x}
<1>1. IsFiniteSet(T) /\ T \ {x} = S /\ x \in T /\ \A y \in T : f[y] \in Int
    BY FS_AddElement
<1>2. SumFunctionOnSet(f, S) \in Int
    BY SumType
<1> HIDE DEF T
<1>3. SumFunctionOnSet(f, T) = f[x] + SumFunctionOnSet(f, T \ {x})
    BY <1>1, SumRemove
<1>4. SumFunctionOnSet(f, T \ {x}) = SumFunctionOnSet(f, S)
    BY <1>1
<1>5. SumFunctionOnSet(f, T) = SumFunctionOnSet(f, S) + f[x]
    BY <1>1, <1>2, <1>3, <1>4
<1> QED
    BY <1>5 DEF T

\* Sums are added member by member.
LEMMA SumAdd ==
    ASSUME NEW f, NEW g, NEW h, NEW S, IsFiniteSet(S),
           \A x \in S : f[x] \in Int /\ g[x] \in Int /\ h[x] = f[x] + g[x]
    PROVE  SumFunctionOnSet(h, S) = SumFunctionOnSet(f, S) + SumFunctionOnSet(g, S)
<1> DEFINE C == {T \in SUBSET S : SumFunctionOnSet(h, T) # SumFunctionOnSet(f, T) + SumFunctionOnSet(g, T)}
<1> SUFFICES ASSUME C # {} PROVE FALSE
    OBVIOUS
<1>1. PICK T \in C : \A U \in C : U \subseteq T => U = T
  <2>1. C \subseteq SUBSET S
      OBVIOUS
  <2> HIDE DEF C
  <2> QED
      BY <2>1, SmallestSet
<1>2. IsFiniteSet(T) /\ \A x \in T : f[x] \in Int /\ g[x] \in Int /\ h[x] \in Int /\ h[x] = f[x] + g[x]
    BY <1>1, FS_Subset
<1>3. T # {}
    BY <1>1, <1>2, SumFirst
<1>4. PICK x \in T : TRUE
    BY <1>3
<1>5. SumFunctionOnSet(h, T \ {x}) = SumFunctionOnSet(f, T \ {x}) + SumFunctionOnSet(g, T \ {x})
    BY <1>1, <1>4
<1>6. SumFunctionOnSet(f, T) = f[x] + SumFunctionOnSet(f, T \ {x})
    BY <1>2, SumRemove
<1>7. SumFunctionOnSet(g, T) = g[x] + SumFunctionOnSet(g, T \ {x})
    BY <1>2, SumRemove
<1>8. SumFunctionOnSet(h, T) = h[x] + SumFunctionOnSet(h, T \ {x})
    BY <1>2, SumRemove
<1>9. SumFunctionOnSet(f, T \ {x}) \in Int /\ SumFunctionOnSet(g, T \ {x}) \in Int
    BY <1>2, SumType, FS_RemoveElement
<1> QED
    BY <1>1, <1>2, <1>5, <1>6, <1>7, <1>8, <1>9

\* A sum of what is not negative is not, and vanishes only where every summand does.
LEMMA SumNat ==
    ASSUME NEW f, NEW S, IsFiniteSet(S), \A x \in S : f[x] \in Nat
    PROVE  /\ SumFunctionOnSet(f, S) \in Nat
           /\ \A x \in S : f[x] <= SumFunctionOnSet(f, S)
<1> DEFINE C == {T \in SUBSET S : SumFunctionOnSet(f, T) \notin Nat}
<1>1. C = {}
  <2> SUFFICES ASSUME C # {} PROVE FALSE
      OBVIOUS
  <2>1. PICK T \in C : \A U \in C : U \subseteq T => U = T
    <3>1. C \subseteq SUBSET S
        OBVIOUS
    <3> HIDE DEF C
    <3> QED
        BY <3>1, SmallestSet
  <2>2. IsFiniteSet(T) /\ \A x \in T : f[x] \in Nat
      BY <2>1, FS_Subset
  <2>3. T # {}
      BY <2>1, <2>2, SumFirst
  <2>4. PICK x \in T : SumFunctionOnSet(f, T) = f[x] + SumFunctionOnSet(f, T \ {x})
      BY <2>2, <2>3, SumFirst
  <2>5. SumFunctionOnSet(f, T \ {x}) \in Nat
      BY <2>1, <2>4
  <2> QED
      BY <2>1, <2>2, <2>4, <2>5
<1>2. \A T \in SUBSET S : SumFunctionOnSet(f, T) \in Nat
    BY <1>1
<1>3. ASSUME NEW x \in S
      PROVE  f[x] <= SumFunctionOnSet(f, S)
  <2>1. SumFunctionOnSet(f, S) = f[x] + SumFunctionOnSet(f, S \ {x})
      BY SumRemove
  <2>2. S \ {x} \in SUBSET S
      OBVIOUS
  <2> QED
      BY <1>2, <2>1, <2>2
<1> QED
    BY <1>2, <1>3

LEMMA SumZero ==
    ASSUME NEW f, NEW S, IsFiniteSet(S), \A x \in S : f[x] = 0
    PROVE  SumFunctionOnSet(f, S) = 0
<1>1. SumFunctionOnSet(f, S) = SumFunctionOnSet(f, S) + SumFunctionOnSet(f, S)
    BY SumAdd
<1>2. SumFunctionOnSet(f, S) \in Int
    BY SumType
<1>3. \A n \in Int : n = n + n => n = 0
    OBVIOUS
<1> QED
    BY <1>1, <1>2, <1>3

LEMMA SumLeq ==
    ASSUME NEW f, NEW g, NEW S, IsFiniteSet(S),
           \A x \in S : f[x] \in Int /\ g[x] \in Int /\ f[x] <= g[x]
    PROVE  SumFunctionOnSet(f, S) <= SumFunctionOnSet(g, S)
<1> DEFINE d == [x \in S |-> g[x] - f[x]]
<1>1. \A x \in S : d[x] \in Nat /\ d[x] \in Int /\ g[x] = f[x] + d[x]
    OBVIOUS
<1> HIDE DEF d
<1>2. SumFunctionOnSet(g, S) = SumFunctionOnSet(f, S) + SumFunctionOnSet(d, S)
    BY <1>1, SumAdd
<1>3. SumFunctionOnSet(d, S) \in Nat /\ SumFunctionOnSet(f, S) \in Int
    BY <1>1, SumNat, SumType
<1> QED
    BY <1>2, <1>3

LEMMA SumSplit ==
    ASSUME NEW f, NEW S, IsFiniteSet(S), \A x \in S : f[x] \in Int, NEW A, A \subseteq S
    PROVE  SumFunctionOnSet(f, S) = SumFunctionOnSet(f, A) + SumFunctionOnSet(f, S \ A)
<1> DEFINE C == {T \in SUBSET A : SumFunctionOnSet(f, S) # SumFunctionOnSet(f, T) + SumFunctionOnSet(f, S \ T)}
<1>1. IsFiniteSet(A) /\ \A T : IsFiniteSet(S \ T) /\ SumFunctionOnSet(f, S \ T) \in Int
    BY FS_Subset, FS_Difference, SumType
<1> SUFFICES ASSUME C # {} PROVE FALSE
    OBVIOUS
<1>2. PICK T \in C : \A U \in C : U \subseteq T => U = T
  <2>1. C \subseteq SUBSET A
      OBVIOUS
  <2> HIDE DEF C
  <2> QED
      BY <1>1, <2>1, SmallestSet
<1>3. T \subseteq S /\ IsFiniteSet(T) /\ \A x \in T : f[x] \in Int
    BY <1>1, <1>2, FS_Subset
<1>4. ASSUME T = {} PROVE FALSE
  <2>1. S \ T = S
      BY <1>4
  <2>2. SumFunctionOnSet(f, T) = 0 /\ SumFunctionOnSet(f, S) \in Int
      BY <1>4, <1>3, SumFirst, SumType
  <2>3. SumFunctionOnSet(f, S \ T) = SumFunctionOnSet(f, S)
      BY <2>1
  <2> QED
      BY <1>2, <2>2, <2>3
<1>5. PICK x \in T : TRUE
    BY <1>4
<1> DEFINE V == T \ {x}
           W == S \ V
<1>6. SumFunctionOnSet(f, T) = f[x] + SumFunctionOnSet(f, V) /\ SumFunctionOnSet(f, V) \in Int
  <2>1. SumFunctionOnSet(f, T) = f[x] + SumFunctionOnSet(f, V)
      BY <1>3, <1>5, SumRemove
  <2>2. IsFiniteSet(V) /\ \A y \in V : f[y] \in Int
      BY <1>3, FS_RemoveElement
  <2> HIDE DEF V
  <2> QED
      BY <2>1, <2>2, SumType
<1>7. SumFunctionOnSet(f, S) = SumFunctionOnSet(f, V) + SumFunctionOnSet(f, W)
    BY <1>2, <1>5
<1>8. SumFunctionOnSet(f, W) = f[x] + SumFunctionOnSet(f, S \ T)
  <2>1. IsFiniteSet(W) /\ x \in W /\ W \ {x} = S \ T /\ \A y \in W : f[y] \in Int
      BY <1>1, <1>3, <1>5
  <2> HIDE DEF W
  <2>2. SumFunctionOnSet(f, W) = f[x] + SumFunctionOnSet(f, W \ {x})
      BY <2>1, SumRemove
  <2> QED
      BY <2>1, <2>2
<1>9. f[x] \in Int /\ SumFunctionOnSet(f, S \ T) \in Int
    BY <1>1, <1>3, <1>5
<1>10. SumFunctionOnSet(f, S) = SumFunctionOnSet(f, T) + SumFunctionOnSet(f, S \ T)
  <2> HIDE DEF V, W
  <2> QED
      BY <1>6, <1>7, <1>8, <1>9
<1> QED
    BY <1>2, <1>10

\* More members, no less.
LEMMA SumSubset ==
    ASSUME NEW f, NEW S, IsFiniteSet(S), \A x \in S : f[x] \in Nat, NEW A, A \subseteq S
    PROVE  SumFunctionOnSet(f, A) <= SumFunctionOnSet(f, S)
<1>1. SumFunctionOnSet(f, S) = SumFunctionOnSet(f, A) + SumFunctionOnSet(f, S \ A)
    BY SumSplit
<1>2. SumFunctionOnSet(f, A) \in Nat /\ SumFunctionOnSet(f, S \ A) \in Nat
    BY SumNat, FS_Subset, FS_Difference
<1> QED
    BY <1>1, <1>2

\* What increases add up to.
LEMMA SumTelescope ==
    ASSUME NEW N \in Nat, NEW f, NEW F,
           \A n \in 0..N : F[n] \in Int,
           \A n \in 1..N : f[n] = F[n] - F[n - 1]
    PROVE  SumFunctionOnSet(f, 1..N) = F[N] - F[0]
<1> DEFINE C == {n \in 0..N : SumFunctionOnSet(f, 1..n) # F[n] - F[0]}
<1> SUFFICES ASSUME C # {} PROVE FALSE
    OBVIOUS
<1>1. PICK n \in C : \A m \in C : n <= m
  <2>1. C \subseteq Nat
      OBVIOUS
  <2> HIDE DEF C
  <2> QED
      BY <2>1, SmallestNumber
<1>2. ASSUME n = 0 PROVE FALSE
  <2>1. 1..n = {} /\ IsFiniteSet({})
      BY <1>2, FS_EmptySet
  <2>2. SumFunctionOnSet(f, {}) = 0 /\ F[0] \in Int
      BY <2>1, SumFirst
  <2>3. SumFunctionOnSet(f, 1..n) = 0
      BY <2>1, <2>2
  <2> QED
      BY <1>1, <1>2, <2>2, <2>3
<1>3. n - 1 \in 0..N /\ n \in 1..N /\ n - 1 \notin C
    BY <1>1, <1>2
<1>4. SumFunctionOnSet(f, 1..(n - 1)) = F[n - 1] - F[0]
    BY <1>3
<1>5. 1..n = (1..(n - 1)) \union {n} /\ n \notin 1..(n - 1)
    BY <1>3
<1>6. \A m \in (1..(n - 1)) \union {n} : f[m] \in Int
  <2> SUFFICES ASSUME NEW m \in 1..n PROVE f[m] \in Int
      BY <1>5
  <2>1. m \in 1..N /\ m - 1 \in 0..N /\ m \in 0..N
      BY <1>3
  <2>2. F[m] \in Int /\ F[m - 1] \in Int /\ f[m] = F[m] - F[m - 1]
      BY <2>1
  <2> QED
      BY <2>2
<1>7. SumFunctionOnSet(f, (1..(n - 1)) \union {n}) = SumFunctionOnSet(f, 1..(n - 1)) + f[n]
  <2> DEFINE R == 1..(n - 1)
  <2>1. IsFiniteSet(R) /\ n \notin R /\ \A m \in R \union {n} : f[m] \in Int
      BY <1>3, <1>5, <1>6, FS_Interval
  <2> HIDE DEF R
  <2>2. SumFunctionOnSet(f, R \union {n}) = SumFunctionOnSet(f, R) + f[n]
      BY <2>1, SumInsert
  <2> QED
      BY <2>2 DEF R
<1>8. SumFunctionOnSet(f, 1..n) = SumFunctionOnSet(f, 1..(n - 1)) + f[n]
    BY <1>5, <1>7
<1>9. F[n] \in Int /\ F[n - 1] \in Int /\ F[0] \in Int /\ f[n] = F[n] - F[n - 1]
    BY <1>3
<1> QED
    BY <1>1, <1>4, <1>8, <1>9

\* Induction over numbers and over finite sets, with a set of what is shown in the place of a predicate.
LEMMA NumbersInduct ==
    ASSUME NEW N \in Nat, NEW P, 0 \in P, \A k \in 1..N : k - 1 \in P => k \in P
    PROVE  0..N \subseteq P
<1> DEFINE C == {n \in 0..N : n \notin P}
<1> SUFFICES ASSUME C # {} PROVE FALSE
    OBVIOUS
<1>1. PICK n \in C : \A m \in C : n <= m
  <2>1. C \subseteq Nat
      OBVIOUS
  <2> HIDE DEF C
  <2> QED
      BY <2>1, SmallestNumber
<1>2. n \in 1..N /\ n - 1 \in 0..N /\ ~(n <= n - 1)
    BY <1>1
<1>3. n - 1 \notin C
    BY <1>1, <1>2
<1> QED
    BY <1>1, <1>2, <1>3

LEMMA SetsInduct ==
    ASSUME NEW S, IsFiniteSet(S), NEW P, {} \in P,
           \A T \in SUBSET S : \A x \in S \ T : T \in P => T \union {x} \in P
    PROVE  S \in P
<1> DEFINE C == {T \in SUBSET S : T \notin P}
<1> SUFFICES ASSUME C # {} PROVE FALSE
    OBVIOUS
<1>1. PICK T \in C : \A U \in C : U \subseteq T => U = T
  <2>1. C \subseteq SUBSET S
      OBVIOUS
  <2> HIDE DEF C
  <2> QED
      BY <2>1, SmallestSet
<1>2. PICK x \in T : TRUE
    BY <1>1
<1> DEFINE U == T \ {x}
<1>3. U \subseteq T /\ U # T /\ U \in SUBSET S /\ x \in S \ U /\ U \union {x} = T
    BY <1>1, <1>2
<1>4. U \in P
    BY <1>1, <1>3
<1> HIDE DEF U
<1>5. U \union {x} \in P
    BY <1>3, <1>4
<1> QED
    BY <1>1, <1>3, <1>5

\* What is added up key by key has been added up as a whole.
OfKey(S, key, d) == {x \in S : key[x] = d}
OfKeys(S, key, D) == {x \in S : key[x] \in D}
LEMMA SumByKey ==
    ASSUME NEW f, NEW S, IsFiniteSet(S), \A x \in S : f[x] \in Int, NEW key,
           NEW D, IsFiniteSet(D), NEW g, \A d \in D : g[d] = SumFunctionOnSet(f, OfKey(S, key, d))
    PROVE  SumFunctionOnSet(g, D) = SumFunctionOnSet(f, OfKeys(S, key, D))
<1> USE DEF OfKey, OfKeys
<1> DEFINE Of(T) == {x \in S : key[x] \in T}
           At(d) == {x \in S : key[x] = d}
           P == {T \in SUBSET D : SumFunctionOnSet(g, T) = SumFunctionOnSet(f, Of(T))}
<1>1. {} \in P
  <2>1. Of({}) = {} /\ IsFiniteSet({})
      BY FS_EmptySet
  <2>2. SumFunctionOnSet(g, {}) = 0 /\ SumFunctionOnSet(f, {}) = 0
      BY <2>1, SumFirst
  <2> QED
      BY <2>1, <2>2
<1>2. \A d \in D : g[d] \in Int
  <2> TAKE d \in D
  <2>1. IsFiniteSet(At(d)) /\ \A x \in At(d) : f[x] \in Int
      BY FS_Subset
  <2>2. SumFunctionOnSet(f, At(d)) \in Int
      BY <2>1, SumType
  <2> QED
      BY <2>2
<1>3. ASSUME NEW T \in SUBSET D, NEW d \in D \ T, T \in P
      PROVE  T \union {d} \in P
  <2> DEFINE U == T \union {d}
  <2>1. IsFiniteSet(T)
      BY FS_Subset
  <2>2. SumFunctionOnSet(g, U) = SumFunctionOnSet(g, T) + g[d]
      BY <1>2, <2>1, SumInsert
  <2>3. IsFiniteSet(Of(U)) /\ (\A x \in Of(U) : f[x] \in Int) /\ At(d) \subseteq Of(U) /\ Of(U) \ At(d) = Of(T)
      BY FS_Subset
  <2>4. SumFunctionOnSet(f, Of(U)) = SumFunctionOnSet(f, At(d)) + SumFunctionOnSet(f, Of(U) \ At(d))
    <3> DEFINE A == At(d)
               B == Of(U)
    <3>1. IsFiniteSet(B) /\ (\A x \in B : f[x] \in Int) /\ A \subseteq B
        BY <2>3
    <3> HIDE DEF A, B
    <3> QED
        BY <3>1, SumSplit DEF A, B
  <2>5. g[d] = SumFunctionOnSet(f, At(d)) /\ g[d] \in Int
      BY <1>2
  <2>6. SumFunctionOnSet(g, T) = SumFunctionOnSet(f, Of(T)) /\ SumFunctionOnSet(g, T) \in Int
    <3>1. \A e \in T : g[e] \in Int
        BY <1>2
    <3> QED
        BY <1>3, <2>1, <3>1, SumType
  <2>7. U \in SUBSET D
      OBVIOUS
  <2> HIDE DEF Of, At, U
  <2>8. SumFunctionOnSet(g, U) = SumFunctionOnSet(f, Of(U))
      BY <2>2, <2>3, <2>4, <2>5, <2>6
  <2> QED
      BY <2>7, <2>8 DEF U
<1>4. D \in P
  <2> HIDE DEF P
  <2> QED
      BY <1>1, <1>3, SetsInduct
<1> QED
    BY <1>4

\* What is defined from one number to the next exists.
Recursion(f, N, first, step) == f[0] = first /\ \A k \in 1..N : f[k] = step[k][f[k - 1]]
LEMMA RecursionExists ==
    ASSUME NEW N \in Nat, NEW S, NEW first \in S, NEW step \in [1..N -> [S -> S]]
    PROVE  \E f \in [0..N -> S] : Recursion(f, N, first, step)
<1> DEFINE Is(f, n) == f[0] = first /\ \A k \in 1..n : f[k] = step[k][f[k - 1]]
           P == {n \in 0..N : \E f \in [0..N -> S] : Is(f, n)}
<1>1. 0 \in P
  <2> DEFINE h == [k \in 0..N |-> first]
  <2>1. h \in [0..N -> S] /\ Is(h, 0) /\ 0 \in 0..N
      OBVIOUS
  <2> HIDE DEF h, Is
  <2> QED
      BY <2>1
<1>2. ASSUME NEW n \in 1..N, n - 1 \in P
      PROVE  n \in P
  <2>1. PICK f \in [0..N -> S] : Is(f, n - 1)
      BY <1>2
  <2>2. n - 1 \in 0..N /\ f[n - 1] \in S /\ step[n][f[n - 1]] \in S
      BY <2>1
  <2> DEFINE h == [f EXCEPT ![n] = step[n][f[n - 1]]]
  <2>3. h \in [0..N -> S] /\ h[0] = f[0] /\ h[n] = step[n][f[n - 1]] /\ \A k \in 0..N : k # n => h[k] = f[k]
      BY <2>2
  <2> HIDE DEF h
  <2>4. \A k \in 1..n : h[k] = step[k][h[k - 1]]
    <3> TAKE k \in 1..n
    <3>1. k \in 0..N /\ k - 1 \in 0..N /\ k - 1 # n /\ h[k - 1] = f[k - 1]
        BY <2>3
    <3>2. CASE k = n
        BY <2>3, <3>1, <3>2
    <3>3. CASE k # n
      <4>1. k \in 1..(n - 1)
          BY <3>3
      <4>2. f[k] = step[k][f[k - 1]]
          BY <2>1, <4>1
      <4> QED
          BY <2>3, <3>1, <3>3, <4>2
    <3> QED
        BY <3>2, <3>3
  <2>5. Is(h, n)
      BY <2>1, <2>3, <2>4
  <2> QED
      BY <2>3, <2>5
<1>3. 0..N \subseteq P
  <2> HIDE DEF P
  <2> QED
      BY <1>1, <1>2, NumbersInduct
<1>4. N \in P
    BY <1>3
<1> QED
    BY <1>4 DEF Recursion
=============================================================================
