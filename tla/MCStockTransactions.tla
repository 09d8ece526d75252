------------------------ MODULE MCStockTransactions ------------------------
(* Steel makes gears, and steel and gears make cars and vans; the .cfg        *)
(* numbers the items in UUID order.  In the one half, stock covers one of     *)
(* gears and cars: r1 releases gears, r2 and r3 both release cars and c1      *)
(* completes done, an order for a gear.  In the other, done is completed      *)
(* beside built, an order for a car, by two requests, and vans, for a van.    *)
EXTENDS StockTransactions

CONSTANTS steel, gear, car, van, gears, cars, done, built, vans, r1, r2, r3, c1, c2, c3, c4

VARIABLE half   \* which requests are sent

MCVars == <<vars, half>>

ByItem(s, g) == [i \in Items |-> CASE i = steel -> s [] i = gear -> g [] OTHER -> 0]

MCKind == [t \in Txns |-> IF t \in {r1, r2, r3} THEN "release" ELSE "complete"]
MCOrderOf == [t \in Txns |->
    CASE t = r1 -> gears [] t \in {r2, r3} -> cars [] t = c1 -> done
      [] t \in {c2, c3} -> built [] t = c4 -> vans]
MCProductOf == [w \in Orders |->
    CASE w \in {cars, built} -> car [] w = vans -> van [] OTHER -> gear]
MCNeed == [w \in Orders |->
    CASE w = gears -> ByItem(2, 0) [] w \in {cars, built, vans} -> ByItem(1, 1) [] OTHER -> ByItem(1, 0)]
MCYield == [w \in Orders |-> 1]
MCMaxAttempts == [t \in Txns |-> IF t \in {r1, c1, c2} THEN 2 ELSE 1]
MCInitialStock == ByItem(5, 3)

Sent == Txns \intersect IF half = "releases" THEN {r1, r2, r3, c1} ELSE {c1, c2, c3, c4}

MCInit == Init /\ half \in {"releases", "completions"}
MCNext ==
    /\ \E t \in Sent : Begin(t) \/ Proceed(t) \/ AbortDeadlocked(t) \/ CallAgain(t)
    /\ UNCHANGED half
\* The fairness of FairSpec, as far as OrderedSucceed can need it.
MCSpec ==
    /\ MCInit /\ [][MCNext]_MCVars
    /\ \A t \in Txns \ {r1, r2, r3} : WF_vars(Proceed(t)) /\ WF_vars(AbortDeadlocked(t))
=============================================================================
