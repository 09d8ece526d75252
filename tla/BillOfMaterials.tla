-------------------------- MODULE BillOfMaterials --------------------------
(***************************************************************************)
(* Bills of material and the engineering changes that alter them.  Every     *)
(* writer of bom_components takes the topology lock first and its             *)
(* recomputation of the low-level codes locks all items until it commits, so  *)
(* each transaction is one step; one that fails leaves no trace and is no     *)
(* step at all.  A quantity includes its scrap factor.                       *)
(***************************************************************************)
EXTENDS Integers, Sequences, FiniteSets, FiniteSetsExt, SequencesExt

CONSTANTS
    Items,      \* the order of their numbers is that of their codes
    Quantities, \* of a component in one parent
    Changes,    \* engineering_changes.id
    LastDay     \* bound of the calendar

ASSUME BillOfMaterialsAssumption == Items \subseteq Nat /\ IsFiniteSet(Items) /\ Quantities \subseteq Nat \ {0} /\ LastDay \in Nat

VARIABLES
    bom,   \* bom_components: quantity by <<parent, child>>
    llc,   \* items.low_level_code
    eco,   \* engineering_changes with their eco_components, by id
    today  \* eco_business_date

bomVars == <<bom, llc, eco, today>>

ECOComponent == [action : {"ADD", "REMOVE", "MODIFY"}, edge : Items \X Items, quantity : Quantities]
EngineeringChange == [status : {"NONE", "DRAFT", "APPROVED", "APPLIED", "CANCELLED"}, effective : 0..LastDay, lines : Seq(ECOComponent)]

-----------------------------------------------------------------------------
(* The graph.                                                              *)
Parents(edges, i) == {p \in Items : <<p, i>> \in edges}
\* A finite graph has no cycle when each part of it has an item with no child there.
Acyclic(edges) == \A S \in SUBSET Items \ {{}} : \E i \in S : \A j \in S : <<i, j>> \notin edges
\* The passes of recompute_low_level_codes, one UPDATE each, until none changes a code.
Passes(edges, n) ==
    LET pass[k \in 0..n] == IF k = 0 THEN [i \in Items |-> 0]
                            ELSE [i \in Items |-> Max({pass[k - 1][i]} \cup {pass[k - 1][p] + 1 : p \in Parents(edges, i)})]
    IN pass[n]
\* mutant: one pass is taken for enough.
OnePass(edges) == Passes(edges, 1)
LowLevelCodes(edges) == Passes(edges, Cardinality(Items))

Without(b, e) == [x \in DOMAIN b \ {e} |-> b[x]]
With(b, e, q) == [x \in DOMAIN b \cup {e} |-> IF x = e THEN q ELSE b[x]]
\* Validation of the final graph and the codes that go with it, committed with the change.
Commit(b) == Acyclic(DOMAIN b) /\ bom' = b /\ llc' = LowLevelCodes(DOMAIN b)

-----------------------------------------------------------------------------
(* Manual changes.                                                         *)
AddComponent(p, c, q) ==
    /\ p # c /\ <<p, c>> \notin DOMAIN bom
    /\ Commit(With(bom, <<p, c>>, q))
    /\ UNCHANGED <<eco, today>>
DeleteComponent(e) ==
    /\ e \in DOMAIN bom
    /\ Commit(Without(bom, e))
    /\ UNCHANGED <<eco, today>>
\* From MRP and the items endpoint, without a change.
RecomputeLLC == llc' = LowLevelCodes(DOMAIN bom) /\ UNCHANGED <<bom, eco, today>>

-----------------------------------------------------------------------------
(* Engineering changes.                                                    *)
ValidTransition(from, to) == <<from, to>> \in {<<"DRAFT", "APPROVED">>, <<"DRAFT", "CANCELLED">>, <<"APPROVED", "APPLIED">>, <<"APPROVED", "CANCELLED">>}
CreateECO(e, d) ==
    /\ eco[e].status = "NONE"
    /\ eco' = [eco EXCEPT ![e] = [status |-> "DRAFT", effective |-> d, lines |-> <<>>]]
    /\ UNCHANGED <<bom, llc, today>>
\* Lines are applied in the order of their random ids: a new one may come before the others.
AddECOComponent(e, k, line) ==
    /\ eco[e].status = "DRAFT" /\ k \in 1..Len(eco[e].lines) + 1
    /\ eco' = [eco EXCEPT ![e].lines = InsertAt(@, k, line)]
    /\ UNCHANGED <<bom, llc, today>>
Approve(e) ==
    /\ eco[e].status = "DRAFT" /\ eco[e].lines # <<>>
    /\ eco' = [eco EXCEPT ![e].status = "APPROVED"]
    /\ UNCHANGED <<bom, llc, today>>
Cancel(e) ==
    /\ ValidTransition(eco[e].status, "CANCELLED")
    /\ eco' = [eco EXCEPT ![e].status = "CANCELLED"]
    /\ UNCHANGED <<bom, llc, today>>

\* Only ADD may not repeat an edge or close on itself; the others need one row to work on.
LineApplies(b, l) == IF l.action = "ADD" THEN l.edge \notin DOMAIN b /\ l.edge[1] # l.edge[2] ELSE l.edge \in DOMAIN b
Applied(b, l) == IF l.action = "REMOVE" THEN Without(b, l.edge) ELSE With(b, l.edge, l.quantity)
\* The graph after so many of the lines.
AfterLines(lines) ==
    LET after[n \in 0..Len(lines)] == IF n = 0 THEN bom ELSE Applied(after[n - 1], lines[n]) IN after
Apply(e) ==
    /\ eco[e].status = "APPROVED" /\ eco[e].effective <= today
    /\ LET lines == eco[e].lines
           after == AfterLines(lines) IN
       /\ \A n \in 1..Len(lines) : LineApplies(after[n - 1], lines[n])
       /\ Commit(after[Len(lines)])
    /\ eco' = [eco EXCEPT ![e].status = "APPLIED"]
    /\ UNCHANGED today
NextDay == today < LastDay /\ today' = today + 1 /\ UNCHANGED <<bom, llc, eco>>

-----------------------------------------------------------------------------
BOMTypeOK ==
    /\ DOMAIN bom \subseteq Items \X Items /\ \A e \in DOMAIN bom : bom[e] \in Quantities
    /\ llc \in [Items -> Nat] /\ eco \in [Changes -> EngineeringChange] /\ today \in 0..LastDay
BOMInit ==
    /\ bom \in UNION {[D -> Quantities] : D \in {E \in SUBSET {e \in Items \X Items : e[1] # e[2]} : Acyclic(E)}}
    /\ llc = LowLevelCodes(DOMAIN bom)
    /\ eco = [e \in Changes |-> [status |-> "NONE", effective |-> 0, lines |-> <<>>]]
    /\ today = 0
BOMNext ==
    \/ \E p, c \in Items, q \in Quantities : AddComponent(p, c, q)
    \/ \E e \in DOMAIN bom : DeleteComponent(e)
    \/ RecomputeLLC
    \/ \E e \in Changes : (\E d \in 0..LastDay : CreateECO(e, d)) \/ Approve(e) \/ Cancel(e) \/ Apply(e)
    \/ \E e \in Changes, line \in ECOComponent : \E k \in 1..Len(eco[e].lines) + 1 : AddECOComponent(e, k, line)
    \/ NextDay
BOMSpec == BOMInit /\ [][BOMNext]_bomVars

-----------------------------------------------------------------------------
\* Whatever manual changes and engineering changes do to the graph, through however many forbidden
\* intermediate ones, it has no cycle and the code of every item is its depth: that of its deepest parent and
\* one more (recompute_low_level_codes, validateBOMAcyclicTx).
LevelsFollowBOM ==
    /\ Acyclic(DOMAIN bom)
    /\ \A i \in Items : llc[i] = IF Parents(DOMAIN bom, i) = {} THEN 0 ELSE 1 + Max({llc[p] : p \in Parents(DOMAIN bom, i)})
=============================================================================
