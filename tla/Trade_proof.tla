----------------------------- MODULE Trade_proof -----------------------------
(***************************************************************************)
(* What is bought and what is sold, for any lots, reports, orders, receipts, *)
(* customers, lines, requests and planners.                                 *)
(* SupplierQuality: the part of TypeOK that carries the argument is its     *)
(* last one: a USE_AS_IS past its check still has an OPEN NCR in front of   *)
(* it, because nobody else gets at the row it has locked.                  *)
(* PurchaseReceipts: an id that has no receipt yet adds its quantity to the *)
(* sum of its order's receipts once, and every other call adds nothing.    *)
(* Then sales orders under retried and simultaneous requests, the promised  *)
(* dates that acceptances and publications write, and that what a backorder *)
(* run publishes fits the supply: the ranking is a queue, each line is      *)
(* promised from what the lines before it left, and nothing the calculation *)
(* read has shrunk by the time its result is written.                       *)
(***************************************************************************)
EXTENDS SupplierQuality, PurchaseReceipts, Backorders, Sums_proof, SequenceTheorems, TLAPS

\* TypeOK, and that an NCR has a disposition once it is no longer OPEN.
OpenIsUndecided ==
    \A n \in NCRs : ncr[n] # NoNCR /\ ncr[n].status = "OPEN" => ncr[n].disposition = "NONE"

IInv == TypeOK /\ OpenIsUndecided

\* A record for a new report, and that of a report just decided, are NCRs.
LEMMA NewNCRType ==
    ASSUME NEW l \in Lots, NEW q \in Nat
    PROVE  /\ NewNCR(l, q) \in NCR
           /\ NewNCR(l, q).status = "OPEN" /\ NewNCR(l, q).disposition = "NONE"
BY DEF NewNCR, NCR

LEMMA DecidedType ==
    ASSUME TypeOK, NEW n \in NCRs, ncr[n].status = "OPEN",
           NEW s \in {"IN_REWORK", "CLOSED"},
           NEW d \in Physical \union {"REWORK", "USE_AS_IS"}, NEW q \in Nat
    PROVE  /\ DecidedAs(n, s, d, q) \in NCR
           /\ DecidedAs(n, s, d, q).status = s
           /\ ncr[n] \in NCR
<1>1. ncr[n] \in NCR
  BY DEF TypeOK, NoNCR
<1>2. QED
  BY <1>1 DEF DecidedAs, NCR

\* The two kinds of record cannot be mistaken for each other.
LEMMA NoNCRIsNone == NoNCR.status = "NONE" /\ NoNCR \notin NCR
BY DEF NoNCR, NCR

\* Replacing the record of one report keeps ncr what it is.
LEMMA ReplaceType ==
    ASSUME TypeOK, NEW n \in NCRs, NEW r \in NCR, ncr' = [ncr EXCEPT ![n] = r]
    PROVE  ncr' \in [NCRs -> NCR \union {NoNCR}]
BY DEF TypeOK

\* The quantity bound keeps quantities natural.
LEMMA QuantityIsNat == Quantities \subseteq Nat /\ 0..MaxDelivered \subseteq Nat
BY SupplierQualityAssumption DEF Quantities

LEMMA InitInv == Init => IInv
<1> SUFFICES ASSUME Init PROVE IInv
  OBVIOUS
<1>1. ncr \in [NCRs -> NCR \union {NoNCR}]
  BY DEF Init
<1>2. delivered \in [Lots -> Nat] /\ onHand \in [Lots -> Nat]
  BY SupplierQualityAssumption DEF Init
<1>3. quality \in [Lots -> Quality] /\ used \in [Lots -> Nat]
  BY DEF Init, Quality
<1>4. deciding \subseteq {n \in NCRs : ncr[n].status = "OPEN"}
  BY DEF Init
<1>5. OpenIsUndecided
  BY DEF Init, OpenIsUndecided
<1>6. known \in [NCRs -> SUBSET NCRs]
  BY DEF Init
<1>7. QED
  BY <1>1, <1>2, <1>3, <1>4, <1>5, <1>6 DEF IInv, TypeOK

-----------------------------------------------------------------------------
(* Steps.  Each action replaces the record of at most one report, or notes a *)
(* PASS in several; the lemmas below say what either does to the invariant.  *)

\* A report is filed under an unused id.
LEMMA FiledInv ==
    ASSUME IInv, NEW n \in NCRs, NEW l \in Lots, NEW q \in Nat, ncr[n] = NoNCR,
           ncr' = [ncr EXCEPT ![n] = NewNCR(l, q)], UNCHANGED deciding
    PROVE  /\ ncr' \in [NCRs -> NCR \union {NoNCR}]
           /\ deciding' \subseteq {m \in NCRs : ncr'[m].status = "OPEN"}
           /\ OpenIsUndecided'
           /\ \A m \in NCRs : KeepsDecision(m)
<1>1. NewNCR(l, q) \in NCR /\ NewNCR(l, q).status = "OPEN"
      /\ NewNCR(l, q).disposition = "NONE"
  BY NewNCRType
<1>2. ncr \in [NCRs -> NCR \union {NoNCR}]
  BY DEF IInv, TypeOK
<1>3. ncr'[n] = NewNCR(l, q) /\ \A m \in NCRs \ {n} : ncr'[m] = ncr[m]
  BY <1>2
<1>4. ncr' \in [NCRs -> NCR \union {NoNCR}]
  BY <1>1, <1>2
<1>5. deciding' \subseteq {m \in NCRs : ncr'[m].status = "OPEN"}
  BY <1>1, <1>3 DEF IInv, TypeOK
<1>6. OpenIsUndecided'
  BY <1>1, <1>3 DEF IInv, OpenIsUndecided
<1>7. \A m \in NCRs : KeepsDecision(m)
  BY <1>3 DEF KeepsDecision
<1>8. QED
  BY <1>4, <1>5, <1>6, <1>7

\* The OPEN report n is decided.
LEMMA DecidedInv ==
    ASSUME IInv, NEW n \in NCRs, ncr[n].status = "OPEN",
           NEW s \in {"IN_REWORK", "CLOSED"},
           NEW d \in Physical \union {"REWORK", "USE_AS_IS"}, NEW q \in Nat,
           ncr' = [ncr EXCEPT ![n] = DecidedAs(n, s, d, q)],
           deciding' \subseteq deciding \ {n}
    PROVE  /\ ncr' \in [NCRs -> NCR \union {NoNCR}]
           /\ deciding' \subseteq {m \in NCRs : ncr'[m].status = "OPEN"}
           /\ OpenIsUndecided'
           /\ \A m \in NCRs : KeepsDecision(m)
<1>1. DecidedAs(n, s, d, q) \in NCR /\ DecidedAs(n, s, d, q).status = s /\ ncr[n] \in NCR
  BY DecidedType DEF IInv
<1>2. ncr \in [NCRs -> NCR \union {NoNCR}]
  BY DEF IInv, TypeOK
<1>3. ncr'[n] = DecidedAs(n, s, d, q) /\ \A m \in NCRs \ {n} : ncr'[m] = ncr[m]
  BY <1>2
<1>4. ncr' \in [NCRs -> NCR \union {NoNCR}]
  BY <1>1, <1>2
<1>5. deciding' \subseteq {m \in NCRs : ncr'[m].status = "OPEN"}
  BY <1>3 DEF IInv, TypeOK
<1>6. OpenIsUndecided'
  BY <1>1, <1>3 DEF IInv, OpenIsUndecided
<1>7. ncr[n].disposition = "NONE" /\ ncr'[n] # NoNCR
  BY <1>1, <1>3, NoNCRIsNone DEF IInv, OpenIsUndecided
<1>8. \A m \in NCRs : KeepsDecision(m)
  BY <1>3, <1>7 DEF KeepsDecision
<1>9. QED
  BY <1>4, <1>5, <1>6, <1>8

\* Reports in rework take note of a PASS.
LEMMA NotedInv ==
    ASSUME IInv, NEW l \in Lots, NEW r, ncr' = NotingPass(l, r), UNCHANGED deciding
    PROVE  /\ ncr' \in [NCRs -> NCR \union {NoNCR}]
           /\ deciding' \subseteq {m \in NCRs : ncr'[m].status = "OPEN"}
           /\ OpenIsUndecided'
           /\ \A m \in NCRs : KeepsDecision(m)
<1>1. ncr \in [NCRs -> NCR \union {NoNCR}]
  BY DEF IInv, TypeOK
<1>2. ASSUME NEW m \in NCRs
      PROVE  \/ ncr'[m] = ncr[m]
             \/ ncr[m] \in NCR /\ ncr'[m] = [ncr[m] EXCEPT !.passed = TRUE]
  BY <1>1 DEF NotingPass, Against
<1>3. ASSUME NEW m \in NCRs, ncr[m] \in NCR, ncr'[m] = [ncr[m] EXCEPT !.passed = TRUE]
      PROVE  /\ ncr'[m] \in NCR
             /\ ncr'[m].status = ncr[m].status
             /\ ncr'[m].disposition = ncr[m].disposition
             /\ ncr'[m].qty = ncr[m].qty
  BY <1>3 DEF NCR
<1>4. ncr' \in [NCRs -> NCR \union {NoNCR}]
  BY <1>1, <1>2, <1>3 DEF NotingPass
<1>5. deciding' \subseteq {m \in NCRs : ncr'[m].status = "OPEN"}
  BY <1>2, <1>3 DEF IInv, TypeOK
<1>6. OpenIsUndecided'
  <2> SUFFICES ASSUME NEW m \in NCRs, ncr'[m] # NoNCR, ncr'[m].status = "OPEN"
               PROVE  ncr'[m].disposition = "NONE"
    BY DEF OpenIsUndecided
  <2>1. CASE ncr'[m] = ncr[m]
    BY <2>1 DEF IInv, OpenIsUndecided
  <2>2. CASE ncr[m] \in NCR /\ ncr'[m] = [ncr[m] EXCEPT !.passed = TRUE]
    BY <2>2, <1>3, NoNCRIsNone DEF IInv, OpenIsUndecided
  <2>3. QED
    BY <1>2, <2>1, <2>2
<1>7. \A m \in NCRs : KeepsDecision(m)
  BY <1>2, <1>3, NoNCRIsNone DEF KeepsDecision
<1>8. QED
  BY <1>4, <1>5, <1>6, <1>7

\* No report changes.
LEMMA UntouchedInv ==
    ASSUME IInv, UNCHANGED <<ncr, deciding>>
    PROVE  /\ ncr' \in [NCRs -> NCR \union {NoNCR}]
           /\ deciding' \subseteq {m \in NCRs : ncr'[m].status = "OPEN"}
           /\ OpenIsUndecided'
           /\ \A m \in NCRs : KeepsDecision(m)
BY DEF IInv, TypeOK, OpenIsUndecided, KeepsDecision

-----------------------------------------------------------------------------
LEMMA StepInv ==
    ASSUME IInv, [Next]_vars
    PROVE  IInv' /\ \A n \in NCRs : KeepsDecision(n)
<1> DEFINE Reports == /\ ncr' \in [NCRs -> NCR \union {NoNCR}]
                      /\ deciding' \subseteq {m \in NCRs : ncr'[m].status = "OPEN"}
                      /\ OpenIsUndecided'
                      /\ \A m \in NCRs : KeepsDecision(m)
           Stock == /\ quality' \in [Lots -> Quality]
                    /\ delivered' \in [Lots -> Nat]
                    /\ onHand' \in [Lots -> Nat]
                    /\ used' \in [Lots -> Nat]
                    /\ known' \in [NCRs -> SUBSET NCRs]
<1> SUFFICES Reports /\ Stock
  BY DEF IInv, TypeOK
<1>t. TypeOK
  BY DEF IInv
<1>o. ASSUME NEW n \in NCRs, ncr[n].status = "OPEN"  PROVE ncr[n].lot \in Lots
  BY <1>t, <1>o, DecidedType, NoNCRIsNone DEF TypeOK, NCR
<1> HIDE DEF Reports
<1>1. ASSUME NEW l \in Lots, NEW q \in Quantities, Issue(l, q)
      PROVE  Reports /\ Stock
  <2>1. Reports
    BY <1>1, UntouchedInv DEF Issue, Reports
  <2>2. Stock
    BY <1>1, <1>t, QuantityIsNat DEF Issue, TypeOK
  <2>3. QED
    BY <2>1, <2>2
<1>2. ASSUME NEW l \in Lots, NEW q \in Quantities, NEW b \in BOOLEAN, Deliver(l, q, b)
      PROVE  Reports /\ Stock
  <2>1. Reports
    BY <1>2, UntouchedInv DEF Deliver, Reports
  <2>2. Stock
    BY <1>2, <1>t, QuantityIsNat DEF Deliver, TypeOK, Quality
  <2>3. QED
    BY <2>1, <2>2
<1>3. ASSUME NEW l \in Lots, NEW r \in InspectionResult, NEW x \in 0..MaxDelivered,
             Inspect(l, r, x)
      PROVE  Reports /\ Stock
  <2>1. ASSUME r = "FAIL" PROVE Reports
    <3>1. PICK n \in NCRs : /\ ncr[n] = NoNCR
                            /\ ncr' = [ncr EXCEPT ![n] = NewNCR(l, IF x > 0 THEN x ELSE onHand[l])]
      BY <1>3, <2>1 DEF Inspect
    <3>2. (IF x > 0 THEN x ELSE onHand[l]) \in Nat
      BY <1>t DEF TypeOK
    <3>3. UNCHANGED deciding
      BY <1>3 DEF Inspect
    <3>4. QED
      BY <3>1, <3>2, <3>3, FiledInv DEF Reports
  <2>2. ASSUME r # "FAIL" PROVE Reports
    <3>1. ncr' = NotingPass(l, r) /\ UNCHANGED deciding
      BY <1>3, <2>2 DEF Inspect
    <3>2. QED
      BY <3>1, NotedInv DEF Reports
  <2>3. ResultingStatus(l, r) \in Quality
    BY DEF ResultingStatus, Quality, InspectionResult
  <2>4. Stock
    BY <1>3, <1>t, <2>3 DEF Inspect, TypeOK
  <2>5. QED
    BY <2>1, <2>2, <2>4
<1>4. ASSUME NEW n \in NCRs, NEW l \in Lots, NEW x \in 0..MaxDelivered, CreateNCR(n, l, x)
      PROVE  Reports /\ Stock
  <2>1. Reports
    BY <1>4, FiledInv, QuantityIsNat DEF CreateNCR, Reports
  <2>2. Stock
    BY <1>4, <1>t DEF CreateNCR, TypeOK, Quality
  <2>3. QED
    BY <2>1, <2>2
<1>5. ASSUME NEW n \in NCRs, ConsiderUseAsIs(n)
      PROVE  Reports /\ Stock
  <2>1. Stock
    BY <1>5, <1>t DEF ConsiderUseAsIs, TypeOK, Against
  <2>2. Reports
    BY <1>5 DEF ConsiderUseAsIs, Undecided, Reports, IInv, TypeOK, OpenIsUndecided, KeepsDecision
  <2>3. QED
    BY <2>1, <2>2
<1>6. ASSUME NEW n \in NCRs, NEW d \in Physical, NEW q \in Quantities, RemoveFromLot(n, d, q)
      PROVE  Reports /\ Stock
  <2>0. q \in Nat /\ ncr[n].status = "OPEN" /\ deciding' \subseteq deciding \ {n}
    BY <1>6, QuantityIsNat DEF RemoveFromLot, Undecided
  <2>1. Reports
    BY <1>6, <2>0, DecidedInv DEF RemoveFromLot, Reports
  <2>2. Stock
    BY <1>6, <1>t, <1>o, QuantityIsNat DEF RemoveFromLot, Undecided, TypeOK
  <2>3. QED
    BY <2>1, <2>2
<1>7. ASSUME NEW n \in NCRs, NEW q \in Quantities, Rework(n, q)
      PROVE  Reports /\ Stock
  <2>0. q \in Nat /\ ncr[n].status = "OPEN" /\ deciding' \subseteq deciding \ {n}
    BY <1>7, QuantityIsNat DEF Rework, Undecided
  <2>1. Reports
    BY <1>7, <2>0, DecidedInv DEF Rework, Reports
  <2>2. Stock
    BY <1>7, <1>t DEF Rework, TypeOK, Quality
  <2>3. QED
    BY <2>1, <2>2
<1>8. ASSUME NEW n \in NCRs, NEW q \in Quantities, UseAsIs(n, q)
      PROVE  Reports /\ Stock
  <2>1. n \in deciding /\ ncr[n].status = "OPEN"
    BY <1>8, <1>t DEF UseAsIs, EndUseAsIs, TypeOK
  <2>2. Reports
    BY <1>8, <2>1, DecidedInv, QuantityIsNat DEF UseAsIs, EndUseAsIs, Reports
  <2>3. Stock
    BY <1>8, <1>t DEF UseAsIs, EndUseAsIs, TypeOK, Quality
  <2>4. QED
    BY <2>2, <2>3
<1>9. ASSUME NEW n \in NCRs, CloseRework(n)
      PROVE  Reports /\ Stock
  <2>1. ncr[n] \in NCR /\ ncr[n].status = "IN_REWORK"
    BY <1>9, <1>t, NoNCRIsNone DEF CloseRework, TypeOK
  <2>2. /\ [ncr[n] EXCEPT !.status = "CLOSED"] \in NCR
        /\ [ncr[n] EXCEPT !.status = "CLOSED"].status = "CLOSED"
        /\ [ncr[n] EXCEPT !.status = "CLOSED"].disposition = ncr[n].disposition
        /\ [ncr[n] EXCEPT !.status = "CLOSED"].qty = ncr[n].qty
    BY <2>1 DEF NCR
  <2>3. /\ ncr'[n] = [ncr[n] EXCEPT !.status = "CLOSED"]
        /\ \A m \in NCRs \ {n} : ncr'[m] = ncr[m]
    BY <1>9, <1>t DEF CloseRework, TypeOK
  <2>4. ncr' \in [NCRs -> NCR \union {NoNCR}]
    BY <1>9, <1>t, <2>2, <2>3 DEF CloseRework, TypeOK
  <2>5. deciding' \subseteq {m \in NCRs : ncr'[m].status = "OPEN"}
    BY <1>9, <1>t, <2>1, <2>3 DEF CloseRework, TypeOK
  <2>6. OpenIsUndecided' /\ \A m \in NCRs : KeepsDecision(m)
    BY <2>2, <2>3, NoNCRIsNone DEF IInv, OpenIsUndecided, KeepsDecision
  <2>7. Stock
    BY <1>9, <1>t DEF CloseRework, TypeOK
  <2>8. QED
    BY <2>4, <2>5, <2>6, <2>7 DEF Reports
<1>10. ASSUME UNCHANGED vars
       PROVE  Reports /\ Stock
  <2>1. Reports
    BY <1>10, UntouchedInv DEF vars, Reports
  <2>2. Stock
    BY <1>10, <1>t DEF vars, TypeOK
  <2>3. QED
    BY <2>1, <2>2
<1>11. ASSUME NEW n \in NCRs, GiveUpUseAsIs(n)
       PROVE  Reports /\ Stock
  <2>1. Stock
    BY <1>11, <1>t DEF GiveUpUseAsIs, EndUseAsIs, TypeOK
  <2>2. Reports
    BY <1>11 DEF GiveUpUseAsIs, EndUseAsIs, Reports, IInv, TypeOK, OpenIsUndecided, KeepsDecision
  <2>3. QED
    BY <2>1, <2>2
<1>12. QED
  BY <1>1, <1>2, <1>3, <1>4, <1>5, <1>6, <1>7, <1>8, <1>9, <1>10, <1>11 DEF Next, Disposition

\* The invariant of the NCR lifecycle.
THEOREM Inductive == Spec => []IInv
<1>1. Init => IInv
  BY InitInv
<1>2. IInv /\ [Next]_vars => IInv'
  BY StepInv
<1>3. QED
  BY <1>1, <1>2, PTL DEF Spec

\* Stock of a lot never goes negative, and a USE_AS_IS past its check always
\* has its NCR OPEN: the row lock keeps every other decision away from it.
THEOREM TypeCorrect == Spec => []TypeOK
<1>1. IInv => TypeOK
  BY DEF IInv
<1>2. QED
  BY <1>1, Inductive, PTL

\* An NCR is decided once, for any number of lots, reports and planners.
THEOREM DecisionsFinal == Spec => DecidedOnce
<1>1. IInv /\ [Next]_vars => [\A n \in NCRs : KeepsDecision(n)]_vars
  BY StepInv
<1>2. QED
  BY <1>1, Inductive, PTL DEF Spec, DecidedOnce

-----------------------------------------------------------------------------
(* The books of a lot.  A report takes goods out of its lot when it is       *)
(* decided RETURN_TO_SUPPLIER or SCRAP, and never again.                     *)

Gone(n) == ncr[n] # NoNCR /\ ncr[n].disposition \in Physical
Removals(l) == {n \in Against(l) : ncr[n].disposition \in Physical}

Accounts ==
    /\ StockAccountsForDecisions
    /\ \A l \in Lots : IsFiniteSet(Removals(l))

\* The record of n says of removed goods what it said before.
KeepsRemoval(n) ==
    /\ Gone(n)' <=> Gone(n)
    /\ Gone(n) => ncr'[n].lot = ncr[n].lot /\ ncr'[n].qty = ncr[n].qty

LEMMA RemovalsAre == \A l : Removals(l) = {n \in NCRs : Gone(n) /\ ncr[n].lot = l}
BY DEF Removals, Against, Gone

LEMMA RemovedQuantities ==
    ASSUME IInv, NEW n \in NCRs, Gone(n)
    PROVE  ncr[n].qty \in Int
BY DEF IInv, TypeOK, Gone, NCR

LEMMA RemovedKept ==
    ASSUME IInv, Accounts, \A n \in NCRs : KeepsRemoval(n), NEW l \in Lots
    PROVE  IsFiniteSet(Removals(l))' /\ Removed(l)' = Removed(l) /\ Removed(l) \in Int
<1> DEFINE f == [n \in NCRs |-> ncr[n].qty]
           g == [n \in NCRs |-> ncr'[n].qty]
<1>1. Removals(l)' = Removals(l)
  <2>1. Removals(l)' = {n \in NCRs : Gone(n)' /\ ncr'[n].lot = l}
    BY DEF Removals, Against, Gone
  <2>2. QED
    BY <2>1, RemovalsAre DEF KeepsRemoval
<1>2. \A n \in Removals(l) : f[n] \in Int /\ g[n] = f[n]
  BY RemovalsAre, RemovedQuantities DEF KeepsRemoval
<1>3. IsFiniteSet(Removals(l))
  BY DEF Accounts
<1>4. /\ Removed(l) = SumFunctionOnSet(f, Removals(l))
      /\ Removed(l)' = SumFunctionOnSet(g, Removals(l)')
  BY DEF Removed, Removals
<1> HIDE DEF f, g
<1>5. SumFunctionOnSet(g, Removals(l)) = SumFunctionOnSet(f, Removals(l))
  BY <1>2, <1>3, SumSame
<1>6. SumFunctionOnSet(f, Removals(l)) \in Int
  BY <1>2, <1>3, SumType
<1>7. QED
  BY <1>1, <1>3, <1>4, <1>5, <1>6

\* Goods leave the lot of the report with the one decision that says so.
LEMMA RemoveAccounts ==
    ASSUME IInv, Accounts, NEW n \in NCRs, NEW d \in Physical, NEW q \in Quantities, RemoveFromLot(n, d, q)
    PROVE  Accounts'
<1> DEFINE f == [m \in NCRs |-> ncr[m].qty]
           g == [m \in NCRs |-> ncr'[m].qty]
<1>1. q \in Nat /\ ncr[n].status = "OPEN" /\ ncr[n] \in NCR /\ ncr[n] # NoNCR /\ ncr[n].lot \in Lots
  BY QuantityIsNat, NoNCRIsNone DEF RemoveFromLot, Undecided, IInv, TypeOK, NCR
<1>2. ~Gone(n)
  BY <1>1 DEF Gone, IInv, OpenIsUndecided, Physical
<1>3. /\ ncr'[n].disposition = d /\ ncr'[n].qty = q /\ ncr'[n].lot = ncr[n].lot /\ ncr'[n] # NoNCR
      /\ \A m \in NCRs \ {n} : ncr'[m] = ncr[m]
  <2>1. DecidedAs(n, "CLOSED", d, q) \in NCR
    BY <1>1, DecidedType DEF IInv
  <2>2. ncr'[n] = DecidedAs(n, "CLOSED", d, q) /\ \A m \in NCRs \ {n} : ncr'[m] = ncr[m]
    BY DEF RemoveFromLot, IInv, TypeOK
  <2>3. DecidedAs(n, "CLOSED", d, q).lot = ncr[n].lot
        /\ DecidedAs(n, "CLOSED", d, q).disposition = d /\ DecidedAs(n, "CLOSED", d, q).qty = q
    BY <1>1 DEF DecidedAs, NCR
  <2>4. QED
    BY <2>1, <2>2, <2>3, NoNCRIsNone
<1>4. ASSUME NEW l \in Lots
      PROVE  onHand'[l] + used'[l] + Removed(l)' = delivered'[l] /\ IsFiniteSet(Removals(l))'
  <2> DEFINE R == Removals(l)
  <2>1. Removals(l)' = IF l = ncr[n].lot THEN R \union {n} ELSE R
    <3>1. Removals(l)' = {m \in NCRs : Gone(m)' /\ ncr'[m].lot = l}
      BY DEF Removals, Against, Gone
    <3>2. Gone(n)' /\ \A m \in NCRs \ {n} : Gone(m)' <=> Gone(m)
      BY <1>3 DEF Gone
    <3>3. QED
      BY <1>2, <1>3, <3>1, <3>2, RemovalsAre
  <2>2. /\ IsFiniteSet(R) /\ n \notin R /\ g[n] = q
        /\ \A m \in R : f[m] \in Int /\ g[m] = f[m]
    <3>1. \A m \in R : f[m] \in Int /\ g[m] = f[m]
      BY <1>2, <1>3, RemovalsAre, RemovedQuantities
    <3>2. IsFiniteSet(R) /\ n \notin R
      BY <1>2, RemovalsAre DEF Accounts
    <3>3. QED
      BY <1>3, <3>1, <3>2
  <2>3. /\ Removed(l) = SumFunctionOnSet(f, R)
        /\ Removed(l)' = SumFunctionOnSet(g, Removals(l)')
    BY DEF Removed, Removals
  <2>4. /\ onHand'[l] = IF l = ncr[n].lot THEN onHand[l] - q ELSE onHand[l]
        /\ used'[l] = used[l] /\ delivered'[l] = delivered[l]
        /\ onHand[l] \in Int /\ used[l] \in Int /\ delivered[l] \in Int
        /\ onHand[l] + used[l] + Removed(l) = delivered[l]
    BY <1>1 DEF RemoveFromLot, IInv, TypeOK, Accounts, StockAccountsForDecisions
  <2> HIDE DEF f, g, R
  <2>5. SumFunctionOnSet(g, R) = SumFunctionOnSet(f, R) /\ SumFunctionOnSet(f, R) \in Int
    BY <2>2, SumSame, SumType
  <2>6. SumFunctionOnSet(g, R \union {n}) = SumFunctionOnSet(g, R) + q
    <3>1. \A m \in R \union {n} : g[m] \in Int
      BY <1>1, <2>2
    <3>2. QED
      BY <2>2, <3>1, SumInsert
  <2>7. IsFiniteSet(R \union {n})
    BY <2>2, FS_AddElement
  <2>8. CASE l = ncr[n].lot
    BY <1>1, <2>1, <2>3, <2>4, <2>5, <2>6, <2>7, <2>8
  <2>9. CASE l # ncr[n].lot
    BY <2>1, <2>2, <2>3, <2>4, <2>5, <2>9
  <2>10. QED
    BY <2>8, <2>9
<1>5. QED
  BY <1>4 DEF Accounts, StockAccountsForDecisions

\* Every other step leaves the removals alone and balances the rest.
LEMMA OthersAccount ==
    ASSUME IInv, Accounts, \A n \in NCRs : KeepsRemoval(n),
           \A l \in Lots : /\ onHand'[l] \in Int /\ used'[l] \in Int /\ delivered'[l] \in Int
                           /\ onHand'[l] + used'[l] - delivered'[l] = onHand[l] + used[l] - delivered[l]
    PROVE  Accounts'
<1> SUFFICES ASSUME NEW l \in Lots
             PROVE  onHand'[l] + used'[l] + Removed(l)' = delivered'[l] /\ IsFiniteSet(Removals(l))'
  BY DEF Accounts, StockAccountsForDecisions
<1>1. IsFiniteSet(Removals(l))' /\ Removed(l)' = Removed(l) /\ Removed(l) \in Int
  BY RemovedKept
<1>2. /\ onHand[l] + used[l] + Removed(l) = delivered[l]
      /\ onHand[l] \in Int /\ used[l] \in Int /\ delivered[l] \in Int
  BY DEF Accounts, StockAccountsForDecisions, IInv, TypeOK
<1>3. /\ onHand'[l] \in Int /\ used'[l] \in Int /\ delivered'[l] \in Int
      /\ onHand'[l] + used'[l] - delivered'[l] = onHand[l] + used[l] - delivered[l]
  OBVIOUS
<1>4. onHand'[l] + used'[l] + Removed(l) = delivered'[l]
  <2>1. \A a, b, c, d, e, f, r \in Int : a + b - c = d + e - f /\ d + e + r = f => a + b + r = c
    OBVIOUS
  <2>2. QED
    BY <1>1, <1>2, <1>3, <2>1
<1>5. QED
  BY <1>1, <1>4

LEMMA AccountsStep ==
    ASSUME IInv, Accounts, [Next]_vars
    PROVE  Accounts'
<1> DEFINE Same == \A n \in NCRs : KeepsRemoval(n)
           Even == \A l \in Lots :
                     /\ onHand'[l] \in Int /\ used'[l] \in Int /\ delivered'[l] \in Int
                     /\ onHand'[l] + used'[l] - delivered'[l] = onHand[l] + used[l] - delivered[l]
<1>s. ASSUME Same, Even PROVE Accounts'
  BY <1>s, OthersAccount
<1>t. /\ ncr \in [NCRs -> NCR \union {NoNCR}]
      /\ \A l \in Lots : onHand[l] \in Int /\ used[l] \in Int /\ delivered[l] \in Int
      /\ onHand \in [Lots -> Nat] /\ used \in [Lots -> Nat] /\ delivered \in [Lots -> Nat]
  BY DEF IInv, TypeOK
<1>u. UNCHANGED ncr => Same
  BY DEF KeepsRemoval, Gone
<1>e. UNCHANGED <<onHand, used, delivered>> => Even
  BY <1>t
<1>f. ASSUME NEW n \in NCRs, NEW r,
             ncr' = [ncr EXCEPT ![n] = r],
             \/ ~Gone(n) /\ (r = NoNCR \/ r.disposition \notin Physical)
             \/ r # NoNCR /\ r.disposition = ncr[n].disposition /\ r.lot = ncr[n].lot
                /\ r.qty = ncr[n].qty /\ ncr[n] # NoNCR
      PROVE  Same
  <2>1. ncr'[n] = r /\ \A m \in NCRs \ {n} : ncr'[m] = ncr[m]
    BY <1>t, <1>f
  <2>2. KeepsRemoval(n)
    BY <1>f, <2>1 DEF KeepsRemoval, Gone
  <2>3. QED
    BY <2>1, <2>2 DEF KeepsRemoval, Gone
<1> HIDE DEF Same, Even
<1>1. ASSUME NEW l \in Lots, NEW q \in Quantities, Issue(l, q) PROVE Accounts'
  <2>1. Even
    BY <1>1, <1>t, QuantityIsNat DEF Issue, Even
  <2>2. QED
    BY <1>1, <1>s, <1>u, <2>1 DEF Issue
<1>2. ASSUME NEW l \in Lots, NEW q \in Quantities, NEW b \in BOOLEAN, Deliver(l, q, b) PROVE Accounts'
  <2>1. Even
    BY <1>2, <1>t, QuantityIsNat DEF Deliver, Even
  <2>2. QED
    BY <1>2, <1>s, <1>u, <2>1 DEF Deliver
<1>3. ASSUME NEW l \in Lots, NEW r \in InspectionResult, NEW x \in 0..MaxDelivered, Inspect(l, r, x)
      PROVE  Accounts'
  <2>1. ASSUME r = "FAIL" PROVE Same
    <3>1. PICK n \in NCRs, a \in Nat : ncr[n] = NoNCR /\ ncr' = [ncr EXCEPT ![n] = NewNCR(l, a)]
      BY <1>3, <1>t, <2>1 DEF Inspect
    <3>2. NewNCR(l, a).disposition \notin Physical
      BY DEF NewNCR, Physical
    <3>3. QED
      BY <1>f, <3>1, <3>2 DEF Gone
  <2>2. ASSUME r # "FAIL" PROVE Same
    <3>1. ncr' = NotingPass(l, r)
      BY <1>3, <2>2 DEF Inspect
    <3>2. ASSUME NEW n \in NCRs PROVE KeepsRemoval(n)
      <4>1. \/ ncr'[n] = ncr[n]
            \/ ncr[n] \in NCR /\ ncr'[n] = [ncr[n] EXCEPT !.passed = TRUE]
        BY <1>t, <3>1 DEF NotingPass, Against
      <4>2. ASSUME ncr[n] \in NCR, ncr'[n] = [ncr[n] EXCEPT !.passed = TRUE]
            PROVE  /\ ncr'[n] \in NCR /\ ncr'[n].disposition = ncr[n].disposition
                   /\ ncr'[n].lot = ncr[n].lot /\ ncr'[n].qty = ncr[n].qty
        BY <4>2 DEF NCR
      <4>3. QED
        BY <4>1, <4>2, NoNCRIsNone DEF KeepsRemoval, Gone
    <3>3. QED
      BY <3>2 DEF Same
  <2>3. QED
    BY <1>3, <1>s, <1>e, <2>1, <2>2 DEF Inspect
<1>4. ASSUME NEW n \in NCRs, NEW l \in Lots, NEW x \in 0..MaxDelivered, CreateNCR(n, l, x)
      PROVE  Accounts'
  <2>1. NewNCR(l, x).disposition \notin Physical
    BY DEF NewNCR, Physical
  <2>2. Same
    BY <1>4, <1>f, <2>1 DEF CreateNCR, Gone
  <2>3. QED
    BY <1>4, <1>s, <1>e, <2>2 DEF CreateNCR
<1>5. ASSUME NEW n \in NCRs, ConsiderUseAsIs(n) \/ GiveUpUseAsIs(n) PROVE Accounts'
  BY <1>5, <1>s, <1>u, <1>e DEF ConsiderUseAsIs, GiveUpUseAsIs
<1>6. ASSUME NEW n \in NCRs, NEW d \in Physical, NEW q \in Quantities, RemoveFromLot(n, d, q) PROVE Accounts'
  BY <1>6, RemoveAccounts
<1>7. ASSUME NEW n \in NCRs, ncr[n].status = "OPEN",
             NEW s, NEW d \in {"REWORK", "USE_AS_IS"}, NEW q,
             ncr' = [ncr EXCEPT ![n] = DecidedAs(n, s, d, q)],
             UNCHANGED <<onHand, used, delivered>>
      PROVE  Accounts'
  <2>1. ncr[n] \in NCR /\ ncr[n] # NoNCR
    BY <1>7, <1>t, NoNCRIsNone
  <2>2. ~Gone(n)
    BY <1>7, <2>1 DEF Gone, IInv, OpenIsUndecided, Physical
  <2>3. DecidedAs(n, s, d, q).disposition \notin Physical
    BY <2>1 DEF DecidedAs, NCR, Physical
  <2>4. QED
    BY <1>7, <1>s, <1>e, <1>f, <2>2, <2>3
<1>8. ASSUME NEW n \in NCRs, NEW q \in Quantities, Rework(n, q) \/ UseAsIs(n, q) PROVE Accounts'
  <2>1. ncr[n].status = "OPEN"
    BY <1>8 DEF Rework, Undecided, UseAsIs, EndUseAsIs, IInv, TypeOK
  <2>2. QED
    BY <1>7, <1>8, <2>1 DEF Rework, UseAsIs
<1>9. ASSUME NEW n \in NCRs, CloseRework(n) PROVE Accounts'
  <2>1. ncr[n] \in NCR /\ ncr[n] # NoNCR
    BY <1>9, <1>t, NoNCRIsNone DEF CloseRework
  <2> DEFINE r == [ncr[n] EXCEPT !.status = "CLOSED"]
  <2>2. r \in NCR /\ r.disposition = ncr[n].disposition /\ r.lot = ncr[n].lot /\ r.qty = ncr[n].qty
    BY <2>1 DEF NCR
  <2>3. ncr' = [ncr EXCEPT ![n] = r]
    BY <1>9 DEF CloseRework
  <2> HIDE DEF r
  <2>4. Same
    BY <1>f, <2>1, <2>2, <2>3, NoNCRIsNone
  <2>5. QED
    BY <1>9, <1>s, <1>e, <2>4 DEF CloseRework
<1>10. ASSUME UNCHANGED vars PROVE Accounts'
  BY <1>10, <1>s, <1>u, <1>e DEF vars
<1>11. QED
  BY <1>1, <1>2, <1>3, <1>4, <1>5, <1>6, <1>8, <1>9, <1>10 DEF Next, Disposition

LEMMA InitAccounts == Init => Accounts
<1> SUFFICES ASSUME Init, NEW l \in Lots
             PROVE  onHand[l] + used[l] + Removed(l) = delivered[l] /\ IsFiniteSet(Removals(l))
  BY DEF Accounts, StockAccountsForDecisions
<1>1. Removals(l) = {} /\ IsFiniteSet({})
  BY FS_EmptySet DEF Init, Removals, Against
<1>2. Removed(l) = 0
  BY <1>1, SumFirst DEF Removed, Removals
<1>3. onHand[l] = delivered[l] /\ used[l] = 0 /\ delivered[l] \in Int
  BY SupplierQualityAssumption DEF Init
<1>4. QED
  BY <1>1, <1>2, <1>3

\* Nothing delivered into a lot is lost or removed twice, for any number of
\* lots, reports and planners.
THEOREM StockAccounted == Spec => []StockAccountsForDecisions
<1>1. IInv /\ Accounts /\ [Next]_vars => Accounts'
  BY AccountsStep
<1>2. Spec => []Accounts
  BY Inductive, InitAccounts, <1>1, PTL DEF Spec
<1>3. Accounts => StockAccountsForDecisions
  BY DEF Accounts
<1>4. QED
  BY <1>2, <1>3, PTL

-----------------------------------------------------------------------------
\* The other reports on the lot that a USE_AS_IS found when it checked are
\* CLOSED, and stay so: what may be filed later is not among them.
KnownAreClosed ==
    \A n \in deciding : \A m \in known[n] :
        m # n => ncr[m] # NoNCR /\ ncr[m].status = "CLOSED"

LEMMA KnownInit == Init => KnownAreClosed
BY DEF Init, KnownAreClosed

LEMMA KnownStep == IInv /\ KnownAreClosed /\ [Next]_vars => KnownAreClosed'
<1> SUFFICES ASSUME IInv, KnownAreClosed, [Next]_vars,
                    NEW n \in deciding', NEW m \in known'[n], m # n
             PROVE  ncr'[m] # NoNCR /\ ncr'[m].status = "CLOSED"
  BY DEF KnownAreClosed
<1>t. /\ known \in [NCRs -> SUBSET NCRs] /\ ncr \in [NCRs -> NCR \union {NoNCR}]
      /\ deciding' \subseteq NCRs /\ deciding \subseteq NCRs
      /\ known' \in [NCRs -> SUBSET NCRs]
  BY StepInv DEF IInv, TypeOK
<1>1. m \in NCRs
  BY <1>t
<1>2. ASSUME ncr[m] # NoNCR, ncr[m].status = "CLOSED" PROVE ncr'[m] # NoNCR /\ ncr'[m].status = "CLOSED"
  BY <1>1, <1>2, StepInv DEF KeepsDecision
<1>3. ASSUME n \in deciding, known'[n] = known[n] PROVE ncr[m] # NoNCR /\ ncr[m].status = "CLOSED"
  BY <1>3 DEF KnownAreClosed
<1>4. ASSUME NEW k \in NCRs, ConsiderUseAsIs(k) PROVE ncr'[m] # NoNCR /\ ncr'[m].status = "CLOSED"
  <2>1. CASE n = k
    <3>1. m \in Against(ncr[n].lot) /\ Active(ncr[n].lot) = {n}
      BY <1>4, <1>t, <2>1 DEF ConsiderUseAsIs, NoOtherActive
    <3>2. ncr[m] # NoNCR /\ ncr[m] \in NCR /\ m \notin Active(ncr[n].lot)
      BY <1>1, <1>t, <3>1 DEF Against
    <3>3. ncr[m].status = "CLOSED"
      BY <3>1, <3>2 DEF Active, NCR
    <3>4. QED
      BY <1>2, <3>2, <3>3
  <2>2. CASE n # k
    <3>1. n \in deciding /\ known'[n] = known[n]
      BY <1>4, <1>t, <2>2 DEF ConsiderUseAsIs
    <3>2. QED
      BY <1>2, <1>3, <3>1
  <2>3. QED
    BY <2>1, <2>2
<1>5. ASSUME NEW k \in NCRs, EndUseAsIs(k) PROVE ncr'[m] # NoNCR /\ ncr'[m].status = "CLOSED"
  <2>1. n \in deciding /\ known'[n] = known[n]
    BY <1>5, <1>t DEF EndUseAsIs
  <2>2. QED
    BY <1>2, <1>3, <2>1
<1>6. ASSUME UNCHANGED <<deciding, known>> PROVE ncr'[m] # NoNCR /\ ncr'[m].status = "CLOSED"
  BY <1>2, <1>3, <1>6
<1>7. QED
  BY <1>4, <1>5, <1>6 DEF Next, Disposition, Issue, Deliver, Inspect, CreateNCR, RemoveFromLot,
     Rework, UseAsIs, GiveUpUseAsIs, CloseRework, vars

\* What makes a quarantined lot usable: a PASS that finds no OPEN report and
\* is noted by those in rework, or a USE_AS_IS past its check.
LEMMA ReleaseIsClear ==
    ASSUME IInv, KnownAreClosed, [Next]_vars, NEW l \in Lots, quality[l] # "OK", quality'[l] = "OK"
    PROVE  \A m \in Unresolved(l)' : \E n \in Conceded(l) : m \notin known[n]
<1>t. quality \in [Lots -> Quality] /\ ncr \in [NCRs -> NCR \union {NoNCR}]
  BY DEF IInv, TypeOK
<1>1. ASSUME NEW k \in Lots, NEW r \in InspectionResult, NEW x \in 0..MaxDelivered, Inspect(k, r, x)
      PROVE  Unresolved(l)' = {}
  <2>1. k = l /\ r = "PASS" /\ Open(l) = {}
    BY <1>1, <1>t DEF Inspect, ResultingStatus, InspectionResult
  <2>2. ncr' = NotingPass(l, "PASS")
    BY <1>1, <2>1 DEF Inspect
  <2>3. ASSUME NEW n \in NCRs, ncr'[n] # NoNCR, ncr'[n].lot = l,
               ncr'[n].status \in {"OPEN", "IN_REWORK"}
        PROVE  ncr'[n].status # "OPEN" /\ ncr'[n].passed
    <3>1. CASE n \in Against(l) /\ ncr[n].status = "IN_REWORK"
      <4>1. ncr[n] \in NCR /\ ncr'[n] = [ncr[n] EXCEPT !.passed = TRUE]
        BY <1>t, <2>2, <3>1 DEF NotingPass, Against
      <4>2. ncr'[n].passed = TRUE /\ ncr'[n].status = ncr[n].status
        BY <4>1 DEF NCR
      <4>3. QED
        BY <3>1, <4>2
    <3>2. CASE ~(n \in Against(l) /\ ncr[n].status = "IN_REWORK")
      <4>1. ncr'[n] = ncr[n]
        BY <2>2, <3>2 DEF NotingPass
      <4>2. n \in Against(l)
        BY <2>3, <4>1 DEF Against
      <4>3. QED
        BY <2>1, <2>3, <3>2, <4>1, <4>2 DEF Open
    <3>3. QED
      BY <3>1, <3>2
  <2>4. QED
    BY <2>3 DEF Unresolved, Active, Against
<1>2. ASSUME NEW n \in NCRs, NEW q \in Quantities, UseAsIs(n, q), NEW m \in Unresolved(l)'
      PROVE  n \in Conceded(l) /\ m \notin known[n]
  <2>1. /\ n \in deciding /\ n \notin deciding' /\ ncr[n].status = "OPEN"
        /\ quality' = [quality EXCEPT ![ncr[n].lot] = "OK"]
        /\ ncr' = [ncr EXCEPT ![n] = DecidedAs(n, "CLOSED", "USE_AS_IS", q)]
    BY <1>2 DEF UseAsIs, EndUseAsIs, IInv, TypeOK
  <2>2. ncr[n].lot = l
    BY <1>t, <2>1
  <2>3. n \in Conceded(l)
    BY <2>1, <2>2, NoNCRIsNone DEF Against, Conceded
  <2>4. ncr'[n].status = "CLOSED" /\ \A k \in NCRs \ {n} : ncr'[k] = ncr[k]
    BY <1>t, <2>1, DecidedType, QuantityIsNat DEF IInv
  <2>5. m \in NCRs /\ ncr'[m].status # "CLOSED"
    BY <1>2 DEF Unresolved, Active, Against
  <2>6. QED
    BY <2>1, <2>3, <2>4, <2>5 DEF KnownAreClosed
<1>3. ASSUME NEW k \in Lots, NEW q \in Quantities, NEW b \in BOOLEAN, Issue(k, q) \/ Deliver(k, q, b)
      PROVE FALSE
  BY <1>3, <1>t DEF Issue, Deliver
<1>4. ASSUME NEW n \in NCRs, NEW k \in Lots, NEW x \in 0..MaxDelivered, CreateNCR(n, k, x) PROVE FALSE
  BY <1>4, <1>t DEF CreateNCR
<1>5. ASSUME NEW n \in NCRs, ConsiderUseAsIs(n) \/ GiveUpUseAsIs(n) \/ CloseRework(n) PROVE FALSE
  BY <1>5 DEF ConsiderUseAsIs, GiveUpUseAsIs, CloseRework
<1>6. ASSUME NEW n \in NCRs, NEW q \in Quantities,
             Rework(n, q) \/ \E d \in Physical : RemoveFromLot(n, d, q)
      PROVE FALSE
  BY <1>6, <1>t DEF Rework, RemoveFromLot
<1>7. ASSUME UNCHANGED vars PROVE FALSE
  BY <1>7 DEF vars
<1>8. QED
  BY <1>1, <1>2, <1>3, <1>4, <1>5, <1>6, <1>7 DEF Next, Disposition

\* A quarantined lot is released only when nothing reported on it is
\* unresolved, but for what was filed after the check of the concession that
\* releases it.
THEOREM ReleaseSafe == Spec => ReleasedWhenClear
<1>1. IInv /\ KnownAreClosed /\ [Next]_vars
        => [\A l \in Lots : quality[l] # "OK" /\ quality'[l] = "OK" =>
              \A m \in Unresolved(l)' : \E n \in Conceded(l) : m \notin known[n]]_vars
  BY ReleaseIsClear
<1>2. Spec => []KnownAreClosed
  BY Inductive, KnownInit, KnownStep, PTL DEF Spec
<1>3. QED
  BY <1>1, <1>2, Inductive, PTL DEF Spec, ReleasedWhenClear

-----------------------------------------------------------------------------
(* Purchase receipts *)

ReceiptsOf(p) == {r \in receipts : r.po = p}

ReceiptsInv ==
    /\ ReceiptsTypeOK
    /\ IsFiniteSet(receipts)
    /\ ReceiptsAccountForOrder

LEMMA TotalQtyIs == \A S : TotalQty(S) = SumFunctionOnSet([r \in S |-> r.qty], S)
BY DEF TotalQty, SumFunction, SumFunctionOnSet, FoldFunction

LEMMA RequestTypes ==
    ASSUME NEW q \in Request
    PROVE  /\ q.id \in ReceiptIds /\ q.po \in PurchaseOrders /\ q.qty \in Nat \ {0}
           /\ LotFor(q) \in ReceivedLots
           /\ SupplierOf[q.po] \in Suppliers /\ Ordered[q.po] \in Nat \ {0}
BY PurchaseAssumption DEF Request, LotFor, ReceivedLots

\* Every call is answered, and only PostReceipt changes more than the answer.
LEMMA CallTypes ==
    ASSUME ReceiptsTypeOK, NEW q \in Request, ReceivePurchase(q)
    PROVE  ReceiptsTypeOK'
<1>1. \A result \in Result : [request |-> q, result |-> result] \in [request : Request, result : Result]
  OBVIOUS
<1>2. answer' \in [request : Request, result : Result]
  BY <1>1 DEF ReceivePurchase, RefuseBlocked, AnswerKnownId, RefuseReceipt, PostReceipt, Respond, Result
<1>3. CASE UNCHANGED <<poStatus, received, receipts, lotQty, lotQuality, profile>>
  BY <1>2, <1>3 DEF ReceiptsTypeOK
<1>4. CASE PostReceipt(q)
  <2>1. QualityAfter(q) \in LotQuality
    BY RequestTypes DEF QualityAfter, LotQuality, ReceiptsTypeOK
  <2>2. lotQuality' \in [ReceivedLots -> LotQuality \union {"NONE"}]
    BY <1>4, <2>1 DEF PostReceipt, ReceiptsTypeOK
  <2>3. lotQty' \in [ReceivedLots -> Nat] /\ received' \in [PurchaseOrders -> Nat]
    BY <1>4, RequestTypes DEF PostReceipt, ReceiptsTypeOK
  <2>4. poStatus' \in [PurchaseOrders -> {"OPEN", "PARTIALLY_RECEIVED", "RECEIVED"}]
    BY <1>4 DEF PostReceipt, ReceiptsTypeOK, StatusAfter
  <2>5. [id |-> q.id, po |-> q.po, qty |-> q.qty, lot |-> LotFor(q)] \in Receipt
    BY RequestTypes DEF Receipt
  <2>6. receipts' \subseteq Receipt
    BY <1>4, <2>5 DEF PostReceipt, ReceiptsTypeOK
  <2>7. profile' \in [Suppliers -> Profile]
    BY <1>4 DEF PostReceipt, ReceiptsTypeOK
  <2>8. QED
    BY <1>2, <2>2, <2>3, <2>4, <2>6, <2>7 DEF ReceiptsTypeOK
<1>5. QED
  BY <1>3, <1>4 DEF ReceivePurchase, RefuseBlocked, AnswerKnownId, RefuseReceipt

\* A posted delivery is one more summand of its order, and of no other.
LEMMA PostAccounts ==
    ASSUME ReceiptsInv, NEW q \in Request, PostReceipt(q)
    PROVE  IsFiniteSet(receipts') /\ ReceiptsAccountForOrder'
<1> DEFINE r == [id |-> q.id, po |-> q.po, qty |-> q.qty, lot |-> LotFor(q)]
<1>1. /\ receipts' = receipts \union {r} /\ r \notin receipts
      /\ r.po = q.po /\ r.qty = q.qty
  BY DEF PostReceipt, WithId
<1>2. /\ q.po \in PurchaseOrders /\ q.qty \in Nat /\ q.qty > 0 /\ Ordered[q.po] \in Nat
      /\ received[q.po] + q.qty <= Ordered[q.po]
  BY RequestTypes DEF PostReceipt, Receivable
<1>3. \A x \in receipts : x.qty \in Nat
  BY DEF ReceiptsInv, ReceiptsTypeOK, Receipt
<1> HIDE DEF r
<1>4. IsFiniteSet(receipts')
  BY <1>1, FS_AddElement DEF ReceiptsInv
<1>5. ASSUME NEW p \in PurchaseOrders
      PROVE  LET total == TotalQty({x \in receipts' : x.po = p}) IN
             /\ received'[p] = total
             /\ total <= Ordered[p]
             /\ poStatus'[p] = IF total = 0 THEN "OPEN" ELSE StatusAfter(p, total)
  <2> DEFINE S == ReceiptsOf(p)
             Earlier == [x \in S |-> x.qty]
             After == [x \in S \union {r} |-> x.qty]
  <2>1. /\ received[p] = TotalQty(S) /\ TotalQty(S) <= Ordered[p] /\ received[p] \in Nat
        /\ poStatus[p] = IF TotalQty(S) = 0 THEN "OPEN" ELSE StatusAfter(p, TotalQty(S))
    BY DEF ReceiptsInv, ReceiptsAccountForOrder, ReceiptsTypeOK, ReceiptsOf
  <2>2. /\ IsFiniteSet(S) /\ r \notin S
        /\ \A x \in S : Earlier[x] \in Int /\ After[x] = Earlier[x]
        /\ After[r] = q.qty
    <3>1. IsFiniteSet(S) /\ S \subseteq receipts
      BY FS_Subset DEF ReceiptsInv, ReceiptsOf
    <3>2. \A x \in S : Earlier[x] = x.qty /\ After[x] = x.qty /\ x.qty \in Int
      BY <1>3, <3>1
    <3>3. After[r] = r.qty
      OBVIOUS
    <3>4. QED
      BY <1>1, <3>1, <3>2, <3>3
  <2>3. CASE p # q.po
    <3>1. {x \in receipts' : x.po = p} = S
      BY <1>1, <2>3 DEF ReceiptsOf
    <3>2. received'[p] = received[p] /\ poStatus'[p] = poStatus[p]
      BY <2>3 DEF PostReceipt, ReceiptsInv, ReceiptsTypeOK
    <3>3. QED
      BY <2>1, <3>1, <3>2
  <2>4. CASE p = q.po
    <3>1. {x \in receipts' : x.po = p} = S \union {r}
      BY <1>1, <2>4 DEF ReceiptsOf
    <3>2. TotalQty(S) = SumFunctionOnSet(Earlier, S)
          /\ TotalQty(S \union {r}) = SumFunctionOnSet(After, S \union {r})
      BY TotalQtyIs
    <3> HIDE DEF Earlier, After, S
    <3>3. SumFunctionOnSet(After, S) = SumFunctionOnSet(Earlier, S)
      BY <2>2, SumSame
    <3>4. SumFunctionOnSet(After, S \union {r}) = SumFunctionOnSet(After, S) + q.qty
      <4>1. \A x \in S \union {r} : After[x] \in Int
        BY <1>2, <2>2
      <4>2. QED
        BY <2>2, <4>1, SumInsert
    <3>5. TotalQty(S \union {r}) = received[p] + q.qty
      BY <2>1, <3>2, <3>3, <3>4
    <3>6. received'[p] = received[p] + q.qty /\ poStatus'[p] = StatusAfter(p, received[p] + q.qty)
      BY <2>4 DEF PostReceipt, ReceiptsInv, ReceiptsTypeOK
    <3>7. received[p] + q.qty # 0 /\ received[p] + q.qty <= Ordered[p]
      BY <1>2, <2>1, <2>4
    <3>8. QED
      BY <3>1, <3>5, <3>6, <3>7
  <2>5. QED
    BY <2>3, <2>4
<1>6. QED
  BY <1>4, <1>5 DEF ReceiptsAccountForOrder, StatusAfter

LEMMA ReceiptsInitInv == ReceiptsInit => ReceiptsInv
<1> SUFFICES ASSUME ReceiptsInit PROVE ReceiptsInv
  OBVIOUS
<1>1. ReceiptsTypeOK
  BY DEF ReceiptsInit, ReceiptsTypeOK, Profile
<1>2. IsFiniteSet(receipts) /\ TotalQty({}) = 0
  BY FS_EmptySet, SumFirst, TotalQtyIs DEF ReceiptsInit
<1>3. \A p \in PurchaseOrders : /\ {r \in receipts : r.po = p} = {}
                                /\ received[p] = 0 /\ poStatus[p] = "OPEN" /\ Ordered[p] \in Nat
  BY PurchaseAssumption DEF ReceiptsInit
<1>4. ReceiptsAccountForOrder
  BY <1>2, <1>3 DEF ReceiptsAccountForOrder
<1>5. QED
  BY <1>1, <1>2, <1>4 DEF ReceiptsInv

LEMMA ReceiptsStep == ReceiptsInv /\ [ReceiptsNext]_receiptVars => ReceiptsInv'
<1> SUFFICES ASSUME ReceiptsInv, [ReceiptsNext]_receiptVars PROVE ReceiptsInv'
  OBVIOUS
<1>1. ASSUME ReceiptsTypeOK', UNCHANGED <<poStatus, received, receipts>> PROVE ReceiptsInv'
  BY <1>1 DEF ReceiptsInv, ReceiptsAccountForOrder, TotalQty, StatusAfter
<1>2. ASSUME NEW q \in Request, ReceivePurchase(q) PROVE ReceiptsInv'
  <2>1. ReceiptsTypeOK'
    BY <1>2, CallTypes DEF ReceiptsInv
  <2>2. ASSUME PostReceipt(q) PROVE ReceiptsInv'
    BY <2>1, <2>2, PostAccounts DEF ReceiptsInv
  <2>3. QED
    BY <1>1, <1>2, <2>1, <2>2 DEF ReceivePurchase, RefuseBlocked, AnswerKnownId, RefuseReceipt
<1>3. ASSUME NEW s \in Suppliers, UpsertProfile(s) PROVE ReceiptsInv'
  BY <1>1, <1>3 DEF UpsertProfile, ReceiptsInv, ReceiptsTypeOK
<1>4. ASSUME NEW l \in ReceivedLots, RequalifyLot(l) PROVE ReceiptsInv'
  BY <1>1, <1>4 DEF RequalifyLot, ReceiptsInv, ReceiptsTypeOK
<1>5. CASE UNCHANGED receiptVars
  BY <1>1, <1>5 DEF receiptVars, ReceiptsInv, ReceiptsTypeOK
<1>6. QED
  BY <1>2, <1>3, <1>4, <1>5 DEF ReceiptsNext

THEOREM ReceiptsInductive == ReceiptsSpec => []ReceiptsInv
BY ReceiptsInitInv, ReceiptsStep, PTL DEF ReceiptsSpec

\* Calls resent, reordered or altered never count a delivery twice, never take
\* an order beyond what was ordered and leave its status that of its receipts.
THEOREM ReceiptsSafe == ReceiptsSpec => []ReceiptsAccountForOrder
<1>1. ReceiptsInv => ReceiptsAccountForOrder
  BY DEF ReceiptsInv
<1>2. QED
  BY <1>1, ReceiptsInductive, PTL

\* What comes in while its supplier is under inspection is not usable, into
\* whichever lot it goes and whatever happened to that lot before.
THEOREM DeliveriesHeld == ReceiptsSpec => DeliveryUnderInspectionHeld
<1>1. ASSUME ReceiptsInv, [ReceiptsNext]_receiptVars, NEW r \in receipts' \ receipts,
             profile[SupplierOf[r.po]].inspect
      PROVE  lotQuality'[r.lot] # "OK"
  <2>1. PICK q \in Request : PostReceipt(q)
    BY <1>1 DEF ReceiptsNext, ReceivePurchase, RefuseBlocked, AnswerKnownId, RefuseReceipt,
                UpsertProfile, RequalifyLot, receiptVars
  <2>2. r.po = q.po /\ r.lot = LotFor(q)
    BY <1>1, <2>1 DEF PostReceipt
  <2>3. LotFor(q) \in ReceivedLots
    BY RequestTypes
  <2>4. lotQuality'[LotFor(q)] = QualityAfter(q)
    BY <1>1, <2>1, <2>3 DEF PostReceipt, ReceiptsInv, ReceiptsTypeOK
  <2>5. QED
    BY <1>1, <2>2, <2>4 DEF QualityAfter
<1>2. ReceiptsInv /\ [ReceiptsNext]_receiptVars
        => [\A r \in receipts' \ receipts :
              profile[SupplierOf[r.po]].inspect => lotQuality'[r.lot] # "OK"]_receiptVars
  BY <1>1
<1>3. QED
  BY <1>2, ReceiptsInductive, PTL DEF ReceiptsSpec, DeliveryUnderInspectionHeld

-----------------------------------------------------------------------------
(* Sequences of rows *)

\* SetToSeq lists every member of a finite set, once.
LEMMA SetToSeqCovers ==
    ASSUME NEW S, IsFiniteSet(S)
    PROVE  /\ Cardinality(S) \in Nat /\ SetToSeq(S) \in [1..Cardinality(S) -> S]
           /\ \A i, j \in 1..Cardinality(S) : SetToSeq(S)[i] = SetToSeq(S)[j] => i = j
           /\ \A x \in S : \E i \in 1..Cardinality(S) : SetToSeq(S)[i] = x
<1> DEFINE N == Cardinality(S)
<1>1. N \in Nat /\ ExistsBijection(1..N, S)
    BY FS_CardinalityType
<1>2. PICK b \in Bijection(1..N, S) : TRUE
    BY <1>1 DEF ExistsBijection
<1>3. b \in [1..N -> S] /\ IsInjective(b)
    BY <1>2 DEF Bijection, Injection, IsInjective
<1>4. SetToSeq(S) \in [1..N -> S] /\ IsInjective(SetToSeq(S))
    BY <1>3 DEF SetToSeq
<1>5. SetToSeq(S) \in Injection(1..N, S)
    BY <1>4 DEF Injection, IsInjective
<1>6. Cardinality(1..N) = N
    BY <1>1, FS_Interval
<1>7. SetToSeq(S) \in Surjection(1..N, S)
    BY <1>5, <1>6, FS_Injection
<1>8. \A x \in S : \E i \in 1..N : SetToSeq(S)[i] = x
    BY <1>7 DEF Surjection
<1>9. \A i, j \in 1..N : SetToSeq(S)[i] = SetToSeq(S)[j] => i = j
    BY <1>4 DEF IsInjective
<1> QED
    BY <1>1, <1>4, <1>8, <1>9

\* The rows that Total adds up.
Counted(rows, l, kinds) == {i \in DOMAIN rows : rows[i].line = l /\ rows[i].kind \in kinds}
Amounts(rows, l, kinds) == [k \in Counted(rows, l, kinds) |-> rows[k].qty]

LEMMA TotalIs ==
    ASSUME NEW rows, NEW l, NEW kinds
    PROVE  Total(rows, l, kinds) = SumFunctionOnSet(Amounts(rows, l, kinds), Counted(rows, l, kinds))
BY DEF Total, SumFunction, Amounts, Counted

LEMMA CountedFinite ==
    ASSUME NEW R, NEW rows \in Seq(R), NEW l, NEW kinds
    PROVE  IsFiniteSet(Counted(rows, l, kinds)) /\ Counted(rows, l, kinds) \subseteq 1..Len(rows)
<1>1. Len(rows) \in Nat /\ DOMAIN rows = 1..Len(rows)
    BY LenProperties
<1>2. IsFiniteSet(1..Len(rows))
    BY <1>1, FS_Interval
<1>3. Counted(rows, l, kinds) \subseteq 1..Len(rows)
    BY <1>1 DEF Counted
<1> QED
    BY <1>2, <1>3, FS_Subset

LEMMA TotalType ==
    ASSUME NEW R, \A r \in R : r.qty \in Nat, NEW rows \in Seq(R), NEW l, NEW kinds
    PROVE  Total(rows, l, kinds) \in Nat
<1>1. \A k \in Counted(rows, l, kinds) : Amounts(rows, l, kinds)[k] \in Nat
    BY CountedFinite, ElementOfSeq DEF Amounts
<1> QED
    BY <1>1, CountedFinite, SumNat, TotalIs

LEMMA TotalOfNone == ASSUME NEW l, NEW kinds PROVE Total(<<>>, l, kinds) = 0
<1>1. Counted(<<>>, l, kinds) = {}
    BY DEF Counted
<1> QED
    BY <1>1, FS_EmptySet, SumFirst, TotalIs

\* Rows written after others add what they say of a line, if at most one speaks of it.
LEMMA TotalGrows ==
    ASSUME NEW R, \A r \in R : r.qty \in Nat, NEW rows \in Seq(R), NEW more \in Seq(R),
           NEW l, NEW kinds
    PROVE  /\ Counted(more, l, kinds) = {} =>
                Total(rows \o more, l, kinds) = Total(rows, l, kinds)
           /\ \A i \in 1..Len(more) :
                Counted(more, l, kinds) = {i} =>
                    Total(rows \o more, l, kinds) = Total(rows, l, kinds) + more[i].qty
<1> DEFINE all == rows \o more
           n == Len(rows)
           A == Counted(rows, l, kinds)
           B == Counted(all, l, kinds)
           f == Amounts(rows, l, kinds)
           g == Amounts(all, l, kinds)
<1>1. /\ all \in Seq(R) /\ Len(all) = n + Len(more)
      /\ \A k \in 1..(n + Len(more)) : all[k] = IF k <= n THEN rows[k] ELSE more[k - n]
    BY ConcatProperties
<1>2. /\ n \in Nat /\ Len(more) \in Nat
      /\ DOMAIN all = 1..(n + Len(more)) /\ DOMAIN rows = 1..n /\ DOMAIN more = 1..Len(more)
    BY <1>1, LenProperties
<1>3. A \subseteq 1..n /\ IsFiniteSet(A) /\ IsFiniteSet(B)
    BY <1>1, CountedFinite
<1>4. \A k \in A : f[k] \in Nat
    BY <1>3, ElementOfSeq DEF Amounts
<1>5. \A k \in B : g[k] \in Nat
    <2>1. B \subseteq 1..Len(all)
        BY <1>1, CountedFinite
    <2>2. \A k \in 1..Len(all) : all[k] \in R
        BY <1>1, ElementOfSeq
    <2> HIDE DEF all
    <2> QED
        BY <2>1, <2>2 DEF Amounts
<1>6. \A k \in 1..n : /\ k \in B <=> k \in A
                      /\ k \in A => g[k] = f[k]
    <2> SUFFICES ASSUME NEW k \in 1..n PROVE (k \in B <=> k \in A) /\ (k \in A => g[k] = f[k])
        OBVIOUS
    <2>1. all[k] = rows[k] /\ k \in DOMAIN all /\ k \in DOMAIN rows
        BY <1>1, <1>2
    <2> HIDE DEF all
    <2> QED
        BY <2>1 DEF Counted, Amounts
<1>7. \A i \in 1..Len(more) : /\ n + i \in B <=> i \in Counted(more, l, kinds)
                              /\ n + i \in B => g[n + i] = more[i].qty
    <2> SUFFICES ASSUME NEW i \in 1..Len(more)
                 PROVE  /\ n + i \in B <=> i \in Counted(more, l, kinds)
                        /\ n + i \in B => g[n + i] = more[i].qty
        OBVIOUS
    <2>1. n + i \in 1..(n + Len(more)) /\ ~(n + i <= n) /\ (n + i) - n = i
        BY <1>2
    <2>2. all[n + i] = more[i]
        BY <1>1, <2>1
    <2>3. n + i \in DOMAIN all /\ i \in DOMAIN more
        BY <1>2, <2>1
    <2> HIDE DEF all
    <2> QED
        BY <2>2, <2>3 DEF Counted, Amounts
<1>8. B \subseteq 1..(n + Len(more))
    BY <1>2 DEF Counted
<1>t. Total(all, l, kinds) = SumFunctionOnSet(g, B) /\ Total(rows, l, kinds) = SumFunctionOnSet(f, A)
    BY TotalIs
<1> HIDE DEF A, B, f, g, all
<1>9. A \subseteq B /\ SumFunctionOnSet(g, A) = SumFunctionOnSet(f, A)
    <2>1. A \subseteq B
        BY <1>3, <1>6
    <2>2. \A k \in A : f[k] \in Int /\ g[k] = f[k]
        BY <1>3, <1>4, <1>6
    <2> QED
        BY <2>1, <2>2, <1>3, SumSame
<1>10. ASSUME Counted(more, l, kinds) = {} PROVE Total(all, l, kinds) = Total(rows, l, kinds)
    <2>1. B = A
        <3> SUFFICES ASSUME NEW k \in B PROVE k \in A
            BY <1>9
        <3>1. CASE k <= n
            BY <1>2, <1>6, <1>8, <3>1
        <3>2. CASE ~(k <= n)
            <4>1. k - n \in 1..Len(more) /\ n + (k - n) = k
                BY <1>2, <1>8, <3>2
            <4> QED
                BY <4>1, <1>7, <1>10
        <3> QED
            BY <3>1, <3>2
    <2> QED
        BY <2>1, <1>9, <1>t
<1>11. ASSUME NEW i \in 1..Len(more), Counted(more, l, kinds) = {i}
       PROVE  Total(all, l, kinds) = Total(rows, l, kinds) + more[i].qty
    <2>1. B = A \union {n + i}
        <3>1. n + i \in B
            BY <1>7, <1>11
        <3>2. ASSUME NEW k \in B PROVE k \in A \/ k = n + i
            <4>1. CASE k <= n
                BY <1>2, <1>6, <1>8, <4>1
            <4>2. CASE ~(k <= n)
                <5>1. k - n \in 1..Len(more) /\ n + (k - n) = k
                    BY <1>2, <1>8, <4>2
                <5>2. k - n = i
                    BY <5>1, <1>7, <1>11
                <5> QED
                    BY <5>1, <5>2
            <4> QED
                BY <4>1, <4>2
        <3> QED
            BY <3>1, <3>2, <1>9
    <2>2. n + i \notin A /\ g[n + i] = more[i].qty
        BY <1>2, <1>3, <1>7, <1>11
    <2>3. \A k \in A \union {n + i} : g[k] \in Int
        BY <2>1, <1>5
    <2>4. SumFunctionOnSet(g, A \union {n + i}) = SumFunctionOnSet(g, A) + g[n + i]
        BY <1>3, <2>2, <2>3, SumInsert
    <2> QED
        BY <2>1, <2>2, <2>4, <1>9, <1>t
<1> QED
    BY <1>10, <1>11 DEF all

LEMMA TotalAppend ==
    ASSUME NEW R, \A r \in R : r.qty \in Nat, NEW rows \in Seq(R), NEW row \in R, NEW l, NEW kinds
    PROVE  Total(Append(rows, row), l, kinds) =
             IF row.line = l /\ row.kind \in kinds THEN Total(rows, l, kinds) + row.qty
             ELSE Total(rows, l, kinds)
<1>1. Append(rows, row) = rows \o <<row>> /\ <<row>> \in Seq(R) /\ Len(<<row>>) = 1 /\ <<row>>[1] = row
    OBVIOUS
<1>2. Counted(<<row>>, l, kinds) = IF row.line = l /\ row.kind \in kinds THEN {1} ELSE {}
    BY DEF Counted
<1> DEFINE more == <<row>>
<1>3. more \in Seq(R) /\ 1 \in 1..Len(more) /\ more[1] = row
    BY <1>1
<1>4. Append(rows, row) = rows \o more
    BY <1>1
<1>5. Counted(more, l, kinds) = IF row.line = l /\ row.kind \in kinds THEN {1} ELSE {}
    BY <1>2
<1> HIDE DEF more
<1>6. CASE row.line = l /\ row.kind \in kinds
    <2>1. Counted(more, l, kinds) = {1}
        BY <1>5, <1>6
    <2>2. Total(rows \o more, l, kinds) = Total(rows, l, kinds) + more[1].qty
        BY <1>3, <2>1, TotalGrows
    <2> QED
        BY <1>3, <1>4, <1>6, <2>2
<1>7. CASE ~(row.line = l /\ row.kind \in kinds)
    <2>1. Total(rows \o more, l, kinds) = Total(rows, l, kinds)
        BY <1>3, <1>5, <1>7, TotalGrows
    <2> QED
        BY <1>4, <1>7, <2>1
<1> QED
    BY <1>6, <1>7

-----------------------------------------------------------------------------
(* Sales orders: the inductive invariant *)

\* What a line keeps is what its events, the ledger and its shipments say.
LineAt(l) ==
    /\ line[l].allocated = Total(events, l, {"ALLOCATE"})
                           - Total(events, l, {"RELEASE", "SHIP_RELEASE", "CANCEL_RELEASE"})
    /\ line[l].allocated = reserved[l]
    /\ line[l].shipped = Total(shipments, l, {"SHIP"})
    /\ line[l].allocated + line[l].shipped + line[l].cancelled <= Quantity[l]

\* What a header says of its lines, one by one in place of the sums.
HeaderAt(o) ==
    /\ order[o] \in {"NONE", "DRAFT"} =>
         history[o] = <<>> /\ \A l \in LinesOf(o) : line[l].shipped = 0 /\ line[l].allocated = 0
    /\ order[o] = "CONFIRMED" => \A l \in LinesOf(o) : line[l].shipped = 0
    /\ order[o] = "PARTIALLY_SHIPPED" => \E l \in LinesOf(o) : OpenQty(l) > 0
    /\ order[o] \in {"PARTIALLY_SHIPPED", "SHIPPED"} => \E l \in LinesOf(o) : line[l].shipped > 0
    /\ order[o] \in {"SHIPPED", "CANCELLED"} =>
         \A l \in LinesOf(o) : OpenQty(l) = 0 /\ line[l].allocated = 0
    /\ history[o] # <<>> => history[o][Len(history[o])] = order[o]

SalesInv ==
    /\ SalesTypeOK
    /\ \A l \in Lines : LineAt(l)
    /\ \A o \in Orders : HeaderAt(o)
    /\ RequestsApplyOnce

\* A transaction runs for one of the tasks.
LEMMA RequestIsTask ==
    ASSUME SalesTypeOK, NEW q \in Requests, request[q].kind \in TaskKinds
    PROVE  /\ request[q] \in Tasks /\ request[q].line \in Lines /\ request[q].qty \in Nat \ {0}
           /\ OrderOf[request[q].line] \in Orders
           /\ request[q].kind \in {"ALLOCATE", "RELEASE"} => Row(request[q]) \in SalesOrderEvent
           /\ request[q].kind = "SHIP" => Row(request[q]) \in SalesOrderShipment
           /\ [id |-> "generated", line |-> request[q].line, qty |-> request[q].qty,
               kind |-> "SHIP_RELEASE"] \in SalesOrderEvent
<1>1. request[q] \in Tasks
    BY DEF SalesTypeOK, Idle, TaskKinds
<1> QED
    BY <1>1, SalesOrdersAssumption DEF Row, SalesOrderEvent, SalesOrderShipment

\* Events written after others keep what answered requests rest on.
LEMMA EventsGrow ==
    ASSUME SalesTypeOK, RequestsApplyOnce, NEW more \in Seq(SalesOrderEvent),
           \/ \A i \in 1..Len(more) : more[i].id = "generated"
           \/ Len(more) = 1 /\ \A k \in DOMAIN events : events[k].id # more[1].id
    PROVE  /\ events \o more \in Seq(SalesOrderEvent)
           /\ \A i, j \in DOMAIN (events \o more) :
                i # j /\ (events \o more)[i].id = (events \o more)[j].id
                    => (events \o more)[i].id = "generated"
           /\ \A k \in DOMAIN events :
                k \in DOMAIN (events \o more) /\ (events \o more)[k] = events[k]
           /\ \A k \in 1..Len(more) :
                \E i \in DOMAIN (events \o more) : (events \o more)[i] = more[k]
<1> DEFINE all == events \o more
           n == Len(events)
<1>1. events \in Seq(SalesOrderEvent)
    BY DEF SalesTypeOK
<1>2. /\ all \in Seq(SalesOrderEvent) /\ Len(all) = n + Len(more)
      /\ \A k \in 1..(n + Len(more)) : all[k] = IF k <= n THEN events[k] ELSE more[k - n]
    BY <1>1, ConcatProperties
<1>3. /\ n \in Nat /\ Len(more) \in Nat
      /\ DOMAIN all = 1..(n + Len(more)) /\ DOMAIN events = 1..n
    BY <1>1, <1>2, LenProperties
<1> HIDE DEF all
<1>4. ASSUME NEW i \in DOMAIN all, NEW j \in DOMAIN all, i # j, all[i].id = all[j].id
      PROVE  all[i].id = "generated"
    <2>1. CASE i <= n /\ j <= n
        <3>1. all[i] = events[i] /\ all[j] = events[j] /\ i \in DOMAIN events /\ j \in DOMAIN events
            BY <1>2, <1>3, <2>1
        <3> QED
            BY <3>1, <1>4 DEF RequestsApplyOnce
    <2>2. CASE \A k \in 1..Len(more) : more[k].id = "generated"
        <3>1. ASSUME NEW k \in DOMAIN all, ~(k <= n) PROVE all[k].id = "generated"
            <4>1. k - n \in 1..Len(more) /\ all[k] = more[k - n]
                BY <1>2, <1>3, <3>1
            <4> QED
                BY <4>1, <2>2
        <3> QED
            BY <2>1, <3>1, <1>4
    <2>3. CASE Len(more) = 1 /\ \A k \in DOMAIN events : events[k].id # more[1].id
        <3>1. \A k \in DOMAIN all : \/ k <= n /\ k \in DOMAIN events /\ all[k] = events[k]
                                    \/ k = n + 1 /\ all[k] = more[1]
            BY <1>2, <1>3, <2>3
        <3> QED
            BY <2>1, <2>3, <3>1, <1>4
    <2> QED
        BY <2>2, <2>3
<1>5. \A k \in DOMAIN events : k \in DOMAIN all /\ all[k] = events[k]
    BY <1>2, <1>3
<1>6. ASSUME NEW k \in 1..Len(more) PROVE \E i \in DOMAIN all : all[i] = more[k]
    <2>1. n + k \in DOMAIN all /\ all[n + k] = more[k]
        BY <1>2, <1>3
    <2> QED
        BY <2>1
<1> QED
    BY <1>2, <1>4, <1>5, <1>6 DEF all

\* Headers and requests of steps that write no event and no line.
LEMMA OthersKeep ==
    ASSUME SalesInv, SalesTypeOK', UNCHANGED <<order, history, line, events, shipments, answered>>,
           \A l \in Lines : reserved'[l] = reserved[l]
    PROVE  SalesInv'
<1>1. \A l \in Lines : LineAt(l)'
    BY DEF SalesInv, LineAt
<1>2. \A o \in Orders : HeaderAt(o)'
    BY DEF SalesInv, HeaderAt, OpenQty
<1>3. RequestsApplyOnce'
    BY DEF SalesInv, RequestsApplyOnce
<1> QED
    BY <1>1, <1>2, <1>3 DEF SalesInv

LEMMA StockKeeps ==
    ASSUME SalesInv, Receive \/ Requalify \/ ReserveForOthers
    PROVE  SalesInv'
<1>t. SalesTypeOK /\ Batch \in Nat /\ Others \notin Lines
    BY SalesOrdersAssumption DEF SalesInv
<1>1. CASE Receive \/ Requalify
    <2>1. SalesTypeOK'
        BY <1>t, <1>1 DEF Receive, Requalify, SalesTypeOK
    <2> QED
        BY <1>1, <2>1, OthersKeep DEF Receive, Requalify
<1>2. CASE ReserveForOthers
    <2>1. reserved' \in [Lines \union {Others} -> Nat] /\ \A l \in Lines : reserved'[l] = reserved[l]
        BY <1>t, <1>2 DEF ReserveForOthers, SalesTypeOK
    <2>2. SalesTypeOK'
        BY <1>t, <1>2, <2>1 DEF ReserveForOthers, SalesTypeOK, stockVars
    <2> QED
        BY <1>2, <2>1, <2>2, OthersKeep DEF ReserveForOthers
<1> QED
    BY <1>1, <1>2

LEMMA QuietKeeps ==
    ASSUME SalesInv,
           \/ UNCHANGED salesVars
           \/ \E c \in Customers : UpdateCustomer(c)
           \/ \E q \in Requests : RollBack(q)
    PROVE  SalesInv'
<1>t. SalesTypeOK
    BY DEF SalesInv
<1>1. CASE UNCHANGED salesVars
    <2>1. SalesTypeOK'
        BY <1>t, <1>1 DEF salesVars, SalesTypeOK
    <2> QED
        BY <1>1, <2>1, OthersKeep DEF salesVars
<1>2. ASSUME NEW c \in Customers, UpdateCustomer(c) PROVE SalesInv'
    <2>1. SalesTypeOK'
        BY <1>t, <1>2 DEF UpdateCustomer, SalesTypeOK, stockVars
    <2> QED
        BY <1>2, <2>1, OthersKeep DEF UpdateCustomer
<1>3. ASSUME NEW q \in Requests, RollBack(q) PROVE SalesInv'
    <2>1. SalesTypeOK'
        BY <1>t, <1>3 DEF RollBack, SalesTypeOK, stockVars
    <2> QED
        BY <1>3, <2>1, OthersKeep DEF RollBack
<1> QED
    BY <1>1, <1>2, <1>3

LEMMA LookUpKeeps ==
    ASSUME SalesInv, NEW q \in Requests, NEW t \in Tasks, LookUp(q, t)
    PROVE  SalesInv'
<1>t. SalesTypeOK /\ RequestsApplyOnce
    BY DEF SalesInv
<1>1. SalesTypeOK'
    BY <1>t DEF LookUp, SalesTypeOK, stockVars
<1>2. CASE RowsWithId(t) = {}
    BY <1>1, <1>2, OthersKeep DEF LookUp, stockVars
<1>3. CASE RowsWithId(t) # {}
    <2>1. answered' = answered \union {t} /\ \A row \in RowsWithId(t) : SameRequest(row, t)
        BY <1>3 DEF LookUp
    <2> DEFINE rows == IF t.kind = "SHIP" THEN shipments ELSE events
    <2>2. PICK k \in DOMAIN rows : rows[k].id = t.id /\ SameRequest(rows[k], t)
        BY <1>3, <2>1 DEF RowsWithId
    <2>3. rows[k] = Row(t)
        <3>1. events \in Seq(SalesOrderEvent) /\ shipments \in Seq(SalesOrderShipment)
            BY <1>t DEF SalesTypeOK
        <3>2. CASE t.kind = "SHIP"
            <4>1. rows[k] \in SalesOrderShipment
                BY <3>1, <3>2, LenProperties
            <4> QED
                BY <4>1, <2>2 DEF SameRequest, Row, SalesOrderShipment
        <3>3. CASE t.kind # "SHIP"
            <4>1. rows[k] \in SalesOrderEvent
                BY <3>1, <3>3, LenProperties
            <4> QED
                BY <4>1, <2>2 DEF SameRequest, Row, SalesOrderEvent
        <3> QED
            BY <3>2, <3>3
    <2>4. RequestsApplyOnce'
        <3>1. UNCHANGED <<events, shipments>>
            BY DEF LookUp
        <3>2. \E i \in DOMAIN rows : rows[i] = Row(t)
            BY <2>3
        <3> QED
            BY <1>t, <2>1, <3>1, <3>2 DEF RequestsApplyOnce, Row
    <2>5. \A l \in Lines : LineAt(l)'
        BY DEF LookUp, SalesInv, LineAt
    <2>6. \A o \in Orders : HeaderAt(o)'
        BY DEF LookUp, SalesInv, HeaderAt, OpenQty
    <2> QED
        BY <1>1, <2>4, <2>5, <2>6 DEF SalesInv
<1> QED
    BY <1>2, <1>3

LEMMA EntryType ==
    ASSUME SalesTypeOK, NEW o \in Orders, NEW s \in OrderStatus, Enter(o, s)
    PROVE  /\ order' \in [Orders -> OrderStatus \union {"NONE"}] /\ history' \in [Orders -> Seq(OrderStatus)]
           /\ order'[o] = s
           /\ \A p \in Orders : p # o => order'[p] = order[p] /\ history'[p] = history[p]
           /\ s \in {order[o], "DRAFT"} => history'[o] = history[o]
           /\ s \notin {order[o], "DRAFT"} =>
                history'[o] # <<>> /\ history'[o][Len(history'[o])] = s
<1>1. history[o] \in Seq(OrderStatus) /\ Append(history[o], s) \in Seq(OrderStatus)
    BY DEF SalesTypeOK
<1>2. \A h \in Seq(OrderStatus) : Append(h, s) # <<>> /\ Append(h, s)[Len(Append(h, s))] = s
    OBVIOUS
<1>3. Append(history[o], s) # <<>> /\ Append(history[o], s)[Len(Append(history[o], s))] = s
    BY <1>1, <1>2
<1> QED
    BY <1>1, <1>3 DEF Enter, SalesTypeOK

\* Only the status changes: that of a new or a confirmed order, whose lines are untouched.
LEMMA OpeningKeeps ==
    ASSUME SalesInv, NEW o \in Orders, Create(o) \/ Confirm(o)
    PROVE  SalesInv'
<1>t. SalesTypeOK
    BY DEF SalesInv
<1>1. PICK s \in {"DRAFT", "CONFIRMED"} :
        Enter(o, s) /\ order[o] = IF s = "DRAFT" THEN "NONE" ELSE "DRAFT"
    BY DEF Create, Confirm
<1>2. UNCHANGED <<blocked, line, sellable, held, reserved, events, shipments, request, answered>>
    BY DEF Create, Confirm, stockVars
<1>3. s \in OrderStatus
    BY DEF OrderStatus
<1>4. /\ order' \in [Orders -> OrderStatus \union {"NONE"}] /\ history' \in [Orders -> Seq(OrderStatus)]
      /\ order'[o] = s
      /\ \A p \in Orders : p # o => order'[p] = order[p] /\ history'[p] = history[p]
      /\ s = "DRAFT" => history'[o] = history[o]
      /\ s = "CONFIRMED" => history'[o][Len(history'[o])] = s
    BY <1>t, <1>1, <1>3, EntryType
<1>5. SalesTypeOK'
    BY <1>t, <1>2, <1>4 DEF SalesTypeOK
<1>6. \A l \in Lines : LineAt(l)'
    BY <1>2 DEF SalesInv, LineAt
<1>7. ASSUME NEW p \in Orders PROVE HeaderAt(p)'
    <2>1. \A l \in Lines : OpenQty(l)' = OpenQty(l)
        BY <1>2 DEF OpenQty
    <2>2. HeaderAt(p) /\ HeaderAt(o)
        BY DEF SalesInv
    <2>3. CASE p # o
        BY <1>2, <1>4, <2>1, <2>2, <2>3 DEF HeaderAt, LinesOf
    <2>4. CASE p = o
        BY <1>1, <1>2, <1>4, <2>2, <2>4 DEF HeaderAt
    <2> QED
        BY <2>3, <2>4
<1>8. RequestsApplyOnce'
    BY <1>2 DEF SalesInv, RequestsApplyOnce
<1> QED
    BY <1>5, <1>6, <1>7, <1>8 DEF SalesInv

\* An event written for line l changes its total if it is of a kind that is counted,
\* and the total of no other line.
LEMMA EventCounts ==
    ASSUME SalesTypeOK, NEW row \in SalesOrderEvent, events' = Append(events, row)
    PROVE  /\ events' \in Seq(SalesOrderEvent)
           /\ \A l \in Lines, kinds \in SUBSET {"ALLOCATE", "RELEASE", "SHIP_RELEASE", "CANCEL_RELEASE"} :
                /\ Total(events, l, kinds) \in Nat
                /\ Total(events', l, kinds) =
                     IF row.line = l /\ row.kind \in kinds THEN Total(events, l, kinds) + row.qty
                     ELSE Total(events, l, kinds)
<1>1. events \in Seq(SalesOrderEvent)
    BY DEF SalesTypeOK
<1>2. \A r \in SalesOrderEvent : r.qty \in Nat
    BY DEF SalesOrderEvent
<1> QED
    BY <1>1, <1>2, TotalAppend, TotalType

\* The id of the row is new, or it was generated.
LEMMA EventApplies ==
    ASSUME SalesInv, NEW row \in SalesOrderEvent, events' = Append(events, row),
           row.id = "generated" \/ \A k \in DOMAIN events : events[k].id # row.id
    PROVE  /\ \A i, j \in DOMAIN events' : i # j /\ events'[i].id = events'[j].id => events'[i].id = "generated"
           /\ \A k \in DOMAIN events : k \in DOMAIN events' /\ events'[k] = events[k]
           /\ \E k \in DOMAIN events' : events'[k] = row
<1> DEFINE more == <<row>>
<1>1. SalesTypeOK /\ RequestsApplyOnce /\ events \in Seq(SalesOrderEvent)
    BY DEF SalesInv, SalesTypeOK
<1>2. more \in Seq(SalesOrderEvent) /\ Len(more) = 1 /\ more[1] = row /\ events' = events \o more
    BY <1>1
<1> HIDE DEF more
<1>3. \/ \A i \in 1..Len(more) : more[i].id = "generated"
      \/ Len(more) = 1 /\ \A k \in DOMAIN events : events[k].id # more[1].id
    BY <1>2
<1> DEFINE all == events \o more
<1>4. /\ \A i, j \in DOMAIN all : i # j /\ all[i].id = all[j].id => all[i].id = "generated"
      /\ \A k \in DOMAIN events : k \in DOMAIN all /\ all[k] = events[k]
      /\ \A k \in 1..Len(more) : \E i \in DOMAIN all : all[i] = more[k]
    BY <1>1, <1>2, <1>3, EventsGrow
<1>5. 1 \in 1..Len(more) /\ events' = all
    BY <1>2
<1> HIDE DEF all
<1>6. \E i \in DOMAIN all : all[i] = row
    BY <1>2, <1>4, <1>5
<1> QED
    BY <1>4, <1>5, <1>6

LEMMA AnswerType ==
    ASSUME SalesTypeOK, NEW q \in Requests, NEW t \in Tasks, Answer(q, t)
    PROVE  /\ request' \in [Requests -> Tasks \union {Idle}] /\ answered' \subseteq Tasks
           /\ answered' = answered \union {t}
BY DEF Answer, SalesTypeOK

\* Allocating and giving back move a line and the ledger together, by the event.
LEMMA AllocationKeeps ==
    ASSUME SalesInv, NEW q \in Requests, Allocate(q) \/ ReleaseAllocation(q)
    PROVE  SalesInv'
<1> DEFINE t == request[q]
           l == t.line
           n == t.qty
<1>t. SalesTypeOK /\ RequestsApplyOnce /\ \A m \in Lines : LineAt(m)
    BY DEF SalesInv
<1>1. t.kind \in {"ALLOCATE", "RELEASE"} /\ (t.kind = "ALLOCATE" <=> ~ReleaseAllocation(q))
    BY DEF Allocate, ReleaseAllocation
<1>2. t \in Tasks /\ l \in Lines /\ n \in Nat \ {0} /\ Row(t) \in SalesOrderEvent /\ OrderOf[l] \in Orders
    BY <1>t, <1>1, RequestIsTask DEF TaskKinds
<1>3. /\ UNCHANGED <<blocked, order, history, sellable, held, shipments>>
      /\ order[OrderOf[l]] \in OpenStatus
      /\ FreshId(t) /\ events' = Append(events, Row(t)) /\ Answer(q, t)
    BY DEF Allocate, ReleaseAllocation, stockVars
<1> DEFINE d == IF t.kind = "ALLOCATE" THEN n ELSE -n
           r == [line[l] EXCEPT !.allocated = line[l].allocated + d]
<1>4. line[l] \in SalesOrderLine /\ Quantity[l] \in Nat \ {0}
    BY <1>t, <1>2, SalesOrdersAssumption DEF SalesTypeOK
<1>5. /\ line[l].allocated \in Nat /\ line[l].shipped \in Nat /\ line[l].cancelled \in Nat
      /\ line[l].allocated = reserved[l]
      /\ line[l].allocated + line[l].shipped + line[l].cancelled <= Quantity[l]
    BY <1>2, <1>4, <1>t DEF SalesOrderLine, LineAt
<1>6. /\ line[l].allocated + d \in Nat
      /\ line[l].allocated + d + line[l].shipped + line[l].cancelled <= Quantity[l]
    <2>1. CASE t.kind = "ALLOCATE"
        <3>1. n <= Unallocated(l)
            BY <1>1, <2>1 DEF Allocate
        <3> QED
            BY <3>1, <1>2, <1>4, <1>5, <2>1 DEF Unallocated, OpenQty, Positive
    <2>2. CASE t.kind = "RELEASE"
        <3>1. n <= line[l].allocated
            BY <1>1, <2>2 DEF ReleaseAllocation
        <3> QED
            BY <3>1, <1>2, <1>4, <1>5, <2>2
    <2> QED
        BY <1>1, <2>1, <2>2
<1>7. r \in SalesOrderLine /\ r.allocated = line[l].allocated + d
      /\ r.shipped = line[l].shipped /\ r.cancelled = line[l].cancelled
    BY <1>4, <1>6 DEF SalesOrderLine
<1>8. line' = [line EXCEPT ![l] = r] /\ reserved' = [reserved EXCEPT ![l] = reserved[l] + d]
    <2>1. CASE t.kind = "ALLOCATE"
        BY <1>1, <2>1 DEF Allocate
    <2>2. CASE t.kind = "RELEASE"
        <3>1. reserved[l] - n = reserved[l] + d /\ line[l].allocated - n = line[l].allocated + d
            BY <1>2, <1>5, <2>2
        <3> QED
            BY <3>1, <1>1, <2>2 DEF ReleaseAllocation
    <2> QED
        BY <1>1, <2>1, <2>2
<1>9. /\ line' \in [Lines -> SalesOrderLine] /\ line'[l] = r
      /\ \A m \in Lines : m # l => line'[m] = line[m]
    <2> HIDE DEF r
    <2> QED
        BY <1>t, <1>2, <1>7, <1>8 DEF SalesTypeOK
<1>10. /\ reserved' \in [Lines \union {Others} -> Nat] /\ reserved'[l] = reserved[l] + d
       /\ \A m \in Lines : m # l => reserved'[m] = reserved[m]
    BY <1>t, <1>2, <1>5, <1>6, <1>8 DEF SalesTypeOK
<1>11. /\ events' \in Seq(SalesOrderEvent)
       /\ \A m \in Lines, kinds \in SUBSET {"ALLOCATE", "RELEASE", "SHIP_RELEASE", "CANCEL_RELEASE"} :
            /\ Total(events, m, kinds) \in Nat
            /\ Total(events', m, kinds) =
                 IF m = l /\ t.kind \in kinds THEN Total(events, m, kinds) + n
                 ELSE Total(events, m, kinds)
    <2>1. Row(t).line = l /\ Row(t).kind = t.kind /\ Row(t).qty = n
        BY DEF Row
    <2> QED
        BY <1>t, <1>2, <1>3, <2>1, EventCounts
<1>12. request' \in [Requests -> Tasks \union {Idle}] /\ answered' \subseteq Tasks /\ answered' = answered \union {t}
    BY <1>t, <1>2, <1>3, AnswerType
<1> HIDE DEF t, l, n, r
<1>13. SalesTypeOK'
    BY <1>t, <1>3, <1>9, <1>10, <1>11, <1>12 DEF SalesTypeOK
<1>14. ASSUME NEW m \in Lines PROVE LineAt(m)'
    <2> DEFINE given == Total(events, m, {"ALLOCATE"})
               back == Total(events, m, {"RELEASE", "SHIP_RELEASE", "CANCEL_RELEASE"})
    <2>1. given \in Nat /\ back \in Nat
        BY <1>11
    <2>2. CASE m # l
        <3>1. Total(events', m, {"ALLOCATE"}) = given
              /\ Total(events', m, {"RELEASE", "SHIP_RELEASE", "CANCEL_RELEASE"}) = back
            BY <1>11, <2>2
        <3> QED
            BY <3>1, <1>t, <1>3, <1>9, <1>10, <2>2 DEF LineAt
    <2>3. CASE m = l
        <3>1. Total(events', m, {"ALLOCATE"}) - Total(events', m, {"RELEASE", "SHIP_RELEASE", "CANCEL_RELEASE"})
                = (given - back) + d
            <4>1. CASE t.kind = "ALLOCATE"
                <5>1. Total(events', m, {"ALLOCATE"}) = given + n
                      /\ Total(events', m, {"RELEASE", "SHIP_RELEASE", "CANCEL_RELEASE"}) = back
                    BY <1>11, <2>3, <4>1
                <5> QED
                    BY <5>1, <1>2, <2>1, <4>1
            <4>2. CASE t.kind = "RELEASE"
                <5>1. Total(events', m, {"ALLOCATE"}) = given
                      /\ Total(events', m, {"RELEASE", "SHIP_RELEASE", "CANCEL_RELEASE"}) = back + n
                    BY <1>11, <2>3, <4>2
                <5> QED
                    BY <5>1, <1>2, <2>1, <4>2
            <4> QED
                BY <1>1, <4>1, <4>2
        <3>2. line[l].allocated = given - back /\ line[l].shipped = Total(shipments, l, {"SHIP"})
            BY <1>2, <1>t, <2>3 DEF LineAt
        <3>3. /\ line'[m].allocated = line[l].allocated + d /\ line'[m].shipped = line[l].shipped
              /\ line'[m].cancelled = line[l].cancelled /\ reserved'[m] = line[l].allocated + d
            BY <1>5, <1>7, <1>9, <1>10, <2>3
        <3> QED
            BY <3>1, <3>2, <3>3, <1>3, <1>6, <2>3 DEF LineAt
    <2> QED
        BY <2>2, <2>3
<1>15. ASSUME NEW o \in Orders PROVE HeaderAt(o)'
    <2>1. HeaderAt(o)
        BY DEF SalesInv
    <2>2. CASE o # OrderOf[l]
        <3>1. \A m \in LinesOf(o) : line'[m] = line[m] /\ OpenQty(m)' = OpenQty(m)
            BY <1>9, <2>2 DEF LinesOf, OpenQty
        <3> QED
            BY <3>1, <1>3, <2>1 DEF HeaderAt
    <2>3. CASE o = OrderOf[l]
        <3>1. \A m \in Lines : line'[m].shipped = line[m].shipped /\ line'[m].cancelled = line[m].cancelled
            BY <1>7, <1>9
        <3>2. \A m \in Lines : OpenQty(m)' = OpenQty(m)
            BY <3>1 DEF OpenQty
        <3>3. order[o] \in {"CONFIRMED", "PARTIALLY_SHIPPED"} /\ order' = order /\ history' = history
            BY <1>3, <2>3 DEF OpenStatus
        <3> QED
            BY <3>1, <3>2, <3>3, <2>1 DEF HeaderAt, LinesOf
    <2> QED
        BY <2>2, <2>3
<1>16. RequestsApplyOnce'
    <2>1. \A k \in DOMAIN events : events[k].id # Row(t).id
        BY <1>1, <1>3 DEF FreshId, RowsWithId, Row
    <2>2. /\ \A i, j \in DOMAIN events' : i # j /\ events'[i].id = events'[j].id => events'[i].id = "generated"
          /\ \A k \in DOMAIN events : k \in DOMAIN events' /\ events'[k] = events[k]
          /\ \E k \in DOMAIN events' : events'[k] = Row(t)
        BY <1>2, <1>3, <2>1, EventApplies
    <2>3. t.kind # "SHIP"
        BY <1>1
    <2>4. ASSUME NEW u \in answered'
          PROVE  \E k \in DOMAIN (IF u.kind = "SHIP" THEN shipments' ELSE events') :
                    (IF u.kind = "SHIP" THEN shipments' ELSE events')[k] = Row(u)
        BY <1>t, <1>3, <1>12, <2>2, <2>3 DEF RequestsApplyOnce
    <2> QED
        BY <1>t, <1>3, <2>2, <2>4 DEF RequestsApplyOnce, Row
<1> QED
    BY <1>13, <1>14, <1>15, <1>16 DEF SalesInv

-----------------------------------------------------------------------------
(* What an order's lines add up to *)

LEMMA ZeroSum ==
    ASSUME NEW S, IsFiniteSet(S), NEW f \in [S -> Nat]
    PROVE  SumFunction(f) \in Nat /\ (SumFunction(f) = 0 <=> \A x \in S : f[x] = 0)
<1>1. SumFunction(f) = SumFunctionOnSet(f, S)
    BY DEF SumFunction
<1>2. SumFunctionOnSet(f, S) \in Nat /\ \A x \in S : f[x] \in Nat /\ f[x] <= SumFunctionOnSet(f, S)
    BY SumNat
<1>3. (\A x \in S : f[x] = 0) => SumFunctionOnSet(f, S) = 0
    BY SumZero
<1>4. SumFunctionOnSet(f, S) = 0 => \A x \in S : f[x] = 0
    BY <1>2
<1> QED
    BY <1>1, <1>2, <1>3, <1>4

LEMMA LinesFinite == ASSUME NEW o PROVE LinesOf(o) \subseteq Lines /\ IsFiniteSet(LinesOf(o))
BY SalesOrdersAssumption, FS_Subset DEF LinesOf

LEMMA OpenType == ASSUME SalesTypeOK PROVE \A l \in Lines : OpenQty(l) \in Nat
BY SalesOrdersAssumption DEF SalesTypeOK, SalesOrderLine, OpenQty, Positive

\* Status after a shipment: SHIPPED exactly when nothing stays open.
LEMMA ShippedStatusIs ==
    ASSUME SalesTypeOK, NEW l \in Lines, NEW n \in Nat, n <= OpenQty(l),
           NEW left, \A m \in Lines : left[m] = IF m = l THEN OpenQty(l) - n ELSE OpenQty(m)
    PROVE  LET o == OrderOf[l] IN
           /\ ShippedStatus(o, l, n) \in {"SHIPPED", "PARTIALLY_SHIPPED"}
           /\ ShippedStatus(o, l, n) = "SHIPPED" <=> \A m \in LinesOf(o) : left[m] = 0
<1> DEFINE o == OrderOf[l]
           f == [m \in LinesOf(o) |-> OpenQty(m)]
           g == [m \in LinesOf(o) |-> left[m]]
<1>1. LinesOf(o) \subseteq Lines /\ IsFiniteSet(LinesOf(o)) /\ l \in LinesOf(o)
    BY LinesFinite DEF LinesOf
<1>2. \A m \in LinesOf(o) : OpenQty(m) \in Nat /\ left[m] \in Nat
    BY <1>1, OpenType
<1>3. f \in [LinesOf(o) -> Nat] /\ g \in [LinesOf(o) -> Nat]
    BY <1>2
<1>4. f[l] = OpenQty(l) /\ g[l] = OpenQty(l) - n /\ \A m \in LinesOf(o) : m # l => g[m] = f[m]
    BY <1>1
<1>5. SumFunction(f) = SumFunctionOnSet(f, LinesOf(o)) /\ SumFunction(g) = SumFunctionOnSet(g, LinesOf(o))
    BY DEF SumFunction
<1>6. OpenUnits(o) = SumFunction(f)
    BY DEF OpenUnits
<1>7. \A m \in LinesOf(o) : g[m] = left[m]
    OBVIOUS
<1> HIDE DEF f, g
<1>8. SumFunctionOnSet(g, LinesOf(o)) = SumFunctionOnSet(f, LinesOf(o)) - f[l] + g[l]
    <2>1. \A m \in LinesOf(o) : f[m] \in Int /\ g[m] \in Int /\ (m # l => g[m] = f[m])
        BY <1>3, <1>4
    <2> QED
        BY <2>1, <1>1, SumChange
<1>9. SumFunction(f) \in Nat /\ SumFunction(g) \in Nat
      /\ (SumFunction(g) = 0 <=> \A m \in LinesOf(o) : g[m] = 0)
    BY <1>1, <1>3, ZeroSum
<1>10. OpenQty(l) \in Nat
    BY OpenType
<1>11. SumFunction(g) = OpenUnits(o) - n
    BY <1>4, <1>5, <1>6, <1>8, <1>9, <1>10
<1>12. OpenUnits(o) = n <=> \A m \in LinesOf(o) : left[m] = 0
    BY <1>6, <1>7, <1>9, <1>11
<1> QED
    BY <1>12 DEF ShippedStatus

\* The header's clauses follow, sum by sum.
LEMMA HeadersReconcile == SalesInv => HeaderReconciles
<1> SUFFICES ASSUME SalesInv, NEW o \in Orders
             PROVE  LET open == OpenUnits(o)
                        shipped == SumFunction([l \in LinesOf(o) |-> line[l].shipped])
                        allocated == SumFunction([l \in LinesOf(o) |-> reserved[l]])
                    IN /\ order[o] \in {"NONE", "DRAFT"} => shipped = 0 /\ allocated = 0
                       /\ order[o] = "CONFIRMED" => shipped = 0
                       /\ order[o] = "PARTIALLY_SHIPPED" => shipped > 0 /\ open > 0
                       /\ order[o] = "SHIPPED" => shipped > 0 /\ open = 0 /\ allocated = 0
                       /\ order[o] = "CANCELLED" => open = 0 /\ allocated = 0
                       /\ history[o] # <<>> => history[o][Len(history[o])] = order[o]
    BY DEF HeaderReconciles
<1> DEFINE S == LinesOf(o)
           f == [l \in S |-> OpenQty(l)]
           g == [l \in S |-> line[l].shipped]
           h == [l \in S |-> reserved[l]]
<1>1. SalesTypeOK /\ HeaderAt(o) /\ \A l \in S : LineAt(l)
    BY LinesFinite DEF SalesInv
<1>2. S \subseteq Lines /\ IsFiniteSet(S)
    BY LinesFinite
<1>3. \A l \in S : OpenQty(l) \in Nat /\ line[l].shipped \in Nat /\ reserved[l] \in Nat
    BY <1>1, <1>2, OpenType DEF SalesTypeOK, SalesOrderLine
<1>4. f \in [S -> Nat] /\ g \in [S -> Nat] /\ h \in [S -> Nat]
    BY <1>3
<1>5. \A l \in S : f[l] = OpenQty(l) /\ g[l] = line[l].shipped /\ h[l] = line[l].allocated
    BY <1>1 DEF LineAt
<1>6. OpenUnits(o) = SumFunction(f)
    BY DEF OpenUnits
<1> HIDE DEF f, g, h
<1>7. /\ SumFunction(f) \in Nat /\ (SumFunction(f) = 0 <=> \A l \in S : OpenQty(l) = 0)
      /\ SumFunction(g) \in Nat /\ (SumFunction(g) = 0 <=> \A l \in S : line[l].shipped = 0)
      /\ SumFunction(h) \in Nat /\ (SumFunction(h) = 0 <=> \A l \in S : line[l].allocated = 0)
    <2>1. SumFunction(f) \in Nat /\ (SumFunction(f) = 0 <=> \A l \in S : f[l] = 0)
        BY <1>2, <1>4, ZeroSum
    <2>2. SumFunction(g) \in Nat /\ (SumFunction(g) = 0 <=> \A l \in S : g[l] = 0)
        BY <1>2, <1>4, ZeroSum
    <2>3. SumFunction(h) \in Nat /\ (SumFunction(h) = 0 <=> \A l \in S : h[l] = 0)
        BY <1>2, <1>4, ZeroSum
    <2> QED
        BY <2>1, <2>2, <2>3, <1>5
<1>8. /\ order[o] \in {"NONE", "DRAFT"} => SumFunction(g) = 0 /\ SumFunction(h) = 0
      /\ order[o] = "CONFIRMED" => SumFunction(g) = 0
      /\ order[o] = "PARTIALLY_SHIPPED" => SumFunction(g) > 0 /\ SumFunction(f) > 0
      /\ order[o] = "SHIPPED" => SumFunction(g) > 0 /\ SumFunction(f) = 0 /\ SumFunction(h) = 0
      /\ order[o] = "CANCELLED" => SumFunction(f) = 0 /\ SumFunction(h) = 0
      /\ history[o] # <<>> => history[o][Len(history[o])] = order[o]
    <2>1. ASSUME \E l \in S : line[l].shipped > 0 PROVE SumFunction(g) > 0
        BY <2>1, <1>3, <1>7
    <2>2. ASSUME \E l \in S : OpenQty(l) > 0 PROVE SumFunction(f) > 0
        BY <2>2, <1>3, <1>7
    <2> QED
        BY <2>1, <2>2, <1>1, <1>7 DEF HeaderAt
<1> QED
    BY <1>6, <1>8 DEF f, g, h

-----------------------------------------------------------------------------
(* Shipping and cancelling *)

\* A shipment takes from what is allocated, and the header follows what stays open.
LEMMA ShipKeeps ==
    ASSUME SalesInv, NEW q \in Requests, Ship(q)
    PROVE  SalesInv'
<1> DEFINE t == request[q]
           l == t.line
           n == t.qty
           o == OrderOf[l]
           s == ShippedStatus(o, l, n)
           e == [id |-> "generated", line |-> l, qty |-> n, kind |-> "SHIP_RELEASE"]
           r == [line[l] EXCEPT !.allocated = line[l].allocated - n, !.shipped = line[l].shipped + n]
<1>t. SalesTypeOK /\ RequestsApplyOnce /\ \A m \in Lines : LineAt(m)
    BY DEF SalesInv
<1>1. t.kind = "SHIP"
    BY DEF Ship
<1>2. /\ t \in Tasks /\ l \in Lines /\ n \in Nat \ {0} /\ Row(t) \in SalesOrderShipment
      /\ e \in SalesOrderEvent /\ o \in Orders
    BY <1>t, <1>1, RequestIsTask, SMTT(30) DEF TaskKinds
<1>3. /\ order[o] \in OpenStatus /\ n <= line[l].allocated /\ n <= OpenQty(l) /\ n <= sellable
      /\ FreshId(t) /\ sellable' = sellable - n /\ reserved' = [reserved EXCEPT ![l] = reserved[l] - n]
      /\ events' = Append(events, e) /\ shipments' = Append(shipments, Row(t))
      /\ line' = [line EXCEPT ![l] = r] /\ Enter(o, s) /\ Answer(q, t)
      /\ UNCHANGED <<blocked, held>>
    BY DEF Ship
<1>4. line[l] \in SalesOrderLine /\ Quantity[l] \in Nat \ {0}
    BY <1>t, <1>2, SalesOrdersAssumption DEF SalesTypeOK
<1>5. /\ line[l].allocated \in Nat /\ line[l].shipped \in Nat /\ line[l].cancelled \in Nat
      /\ line[l].allocated = reserved[l]
      /\ line[l].allocated + line[l].shipped + line[l].cancelled <= Quantity[l]
    BY <1>2, <1>4, <1>t DEF SalesOrderLine, LineAt
<1>6. /\ r \in SalesOrderLine /\ r.allocated = line[l].allocated - n
      /\ r.shipped = line[l].shipped + n /\ r.cancelled = line[l].cancelled
    <2>1. line[l].allocated - n \in Nat /\ line[l].shipped + n \in Nat
        BY <1>2, <1>3, <1>5, SMTT(30)
    <2> HIDE DEF l, n
    <2> QED
        BY <2>1, <1>4 DEF SalesOrderLine
<1>7. /\ line' \in [Lines -> SalesOrderLine] /\ line'[l] = r
      /\ \A m \in Lines : m # l => line'[m] = line[m]
    <2> HIDE DEF r
    <2> QED
        BY <1>t, <1>2, <1>3, <1>6 DEF SalesTypeOK
<1>8. /\ reserved' \in [Lines \union {Others} -> Nat] /\ reserved'[l] = reserved[l] - n
      /\ \A m \in Lines : m # l => reserved'[m] = reserved[m]
    BY <1>t, <1>2, <1>3, <1>5, SMTT(30) DEF SalesTypeOK
<1>9. /\ events' \in Seq(SalesOrderEvent)
      /\ \A m \in Lines, kinds \in SUBSET {"ALLOCATE", "RELEASE", "SHIP_RELEASE", "CANCEL_RELEASE"} :
           /\ Total(events, m, kinds) \in Nat
           /\ Total(events', m, kinds) =
                IF m = l /\ "SHIP_RELEASE" \in kinds THEN Total(events, m, kinds) + n
                ELSE Total(events, m, kinds)
    <2>1. e.line = l /\ e.kind = "SHIP_RELEASE" /\ e.qty = n
        OBVIOUS
    <2> HIDE DEF e
    <2> QED
        BY <1>t, <1>2, <1>3, <2>1, EventCounts
<1>10. /\ shipments' \in Seq(SalesOrderShipment)
       /\ \A m \in Lines : /\ Total(shipments, m, {"SHIP"}) \in Nat
                           /\ Total(shipments', m, {"SHIP"}) =
                                IF m = l THEN Total(shipments, m, {"SHIP"}) + n
                                ELSE Total(shipments, m, {"SHIP"})
    <2>1. shipments \in Seq(SalesOrderShipment) /\ \A x \in SalesOrderShipment : x.qty \in Nat
        BY <1>t DEF SalesTypeOK, SalesOrderShipment
    <2>2. Row(t).line = l /\ Row(t).kind = "SHIP" /\ Row(t).qty = n
        BY <1>1 DEF Row
    <2> QED
        BY <1>2, <1>3, <2>1, <2>2, TotalAppend, TotalType, SMTT(30)
<1>11. request' \in [Requests -> Tasks \union {Idle}] /\ answered' \subseteq Tasks /\ answered' = answered \union {t}
    BY <1>t, <1>2, <1>3, AnswerType
<1>12. OpenQty(l) \in Nat /\ \A m \in Lines : OpenQty(m)' = IF m = l THEN OpenQty(l) - n ELSE OpenQty(m)
    <2>1. OpenQty(l) \in Nat
        BY <1>t, <1>2, OpenType
    <2>2. ASSUME NEW m \in Lines, m = l PROVE OpenQty(m)' = OpenQty(m) - n
        <3>1. line'[m].shipped = line[m].shipped + n /\ line'[m].cancelled = line[m].cancelled
            BY <1>6, <1>7, <2>2
        <3>2. n \in Nat \ {0} /\ n <= OpenQty(m) /\ Quantity[m] \in Nat
            BY <1>2, <1>3, <1>4, <2>2
        <3>3. line[m].shipped \in Nat /\ line[m].cancelled \in Nat
            BY <1>5, <2>2
        <3> HIDE DEF l, n
        <3>4. OpenQty(m)' = Positive(Quantity[m] - (line[m].shipped + n) - line[m].cancelled)
            BY <3>1 DEF OpenQty
        <3>5. OpenQty(m) = Positive(Quantity[m] - line[m].shipped - line[m].cancelled)
            BY DEF OpenQty
        <3> QED
            BY <3>2, <3>3, <3>4, <3>5 DEF Positive
    <2>3. \A m \in Lines : m # l => OpenQty(m)' = OpenQty(m)
        BY <1>7 DEF OpenQty
    <2> HIDE DEF l, n
    <2> QED
        BY <2>1, <2>2, <2>3
<1>13. /\ s \in {"SHIPPED", "PARTIALLY_SHIPPED"}
       /\ s = "SHIPPED" <=> \A m \in LinesOf(o) : OpenQty(m)' = 0
    <2> DEFINE left == [m \in Lines |-> OpenQty(m)']
    <2>1. \A m \in Lines : left[m] = IF m = l THEN OpenQty(l) - n ELSE OpenQty(m)
        BY <1>12
    <2>2. \A m \in LinesOf(o) : left[m] = OpenQty(m)'
        BY LinesFinite
    <2> HIDE DEF left
    <2>3. s \in {"SHIPPED", "PARTIALLY_SHIPPED"} /\ (s = "SHIPPED" <=> \A m \in LinesOf(o) : left[m] = 0)
        BY <1>t, <1>2, <1>3, <2>1, ShippedStatusIs
    <2> QED
        BY <2>2, <2>3
<1>14. /\ order' \in [Orders -> OrderStatus \union {"NONE"}] /\ history' \in [Orders -> Seq(OrderStatus)]
       /\ order'[o] = s
       /\ \A p \in Orders : p # o => order'[p] = order[p] /\ history'[p] = history[p]
       /\ s = order[o] => history'[o] = history[o]
       /\ s # order[o] => history'[o] # <<>> /\ history'[o][Len(history'[o])] = s
    <2>1. s \in OrderStatus /\ s # "DRAFT"
        BY <1>13 DEF OrderStatus
    <2> HIDE DEF s, o
    <2> QED
        BY <1>t, <1>2, <1>3, <2>1, EntryType
<1> HIDE DEF t, l, n, r, e, s
<1>15. SalesTypeOK'
    <2>1. sellable' \in Nat /\ held' \in Nat
        BY <1>t, <1>2, <1>3 DEF SalesTypeOK
    <2> QED
        BY <1>t, <1>3, <1>7, <1>8, <1>9, <1>10, <1>11, <1>14, <2>1 DEF SalesTypeOK
<1>16. ASSUME NEW m \in Lines PROVE LineAt(m)'
    <2> DEFINE given == Total(events, m, {"ALLOCATE"})
               back == Total(events, m, {"RELEASE", "SHIP_RELEASE", "CANCEL_RELEASE"})
               sent == Total(shipments, m, {"SHIP"})
    <2>1. given \in Nat /\ back \in Nat /\ sent \in Nat
        BY <1>9, <1>10
    <2>2. CASE m # l
        <3>1. /\ Total(events', m, {"ALLOCATE"}) = given
              /\ Total(events', m, {"RELEASE", "SHIP_RELEASE", "CANCEL_RELEASE"}) = back
              /\ Total(shipments', m, {"SHIP"}) = sent
            BY <1>9, <1>10, <2>2
        <3> QED
            BY <3>1, <1>t, <1>7, <1>8, <2>2 DEF LineAt
    <2>3. CASE m = l
        <3>1. /\ Total(events', m, {"ALLOCATE"}) = given
              /\ Total(events', m, {"RELEASE", "SHIP_RELEASE", "CANCEL_RELEASE"}) = back + n
              /\ Total(shipments', m, {"SHIP"}) = sent + n
            BY <1>9, <1>10, <2>3
        <3>2. line[l].allocated = given - back /\ line[l].shipped = sent
            BY <1>2, <1>t, <2>3 DEF LineAt
        <3>3. /\ line'[m].allocated = line[l].allocated - n /\ line'[m].shipped = line[l].shipped + n
              /\ line'[m].cancelled = line[l].cancelled /\ reserved'[m] = line[l].allocated - n
            BY <1>5, <1>6, <1>7, <1>8, <2>3
        <3>4. /\ line'[m].allocated = given - (back + n)
              /\ line'[m].allocated + line'[m].shipped + line'[m].cancelled <= Quantity[m]
            BY <3>2, <3>3, <1>2, <1>5, <2>1, <2>3, <1>4
        <3> QED
            BY <3>1, <3>2, <3>3, <3>4 DEF LineAt
    <2> QED
        BY <2>2, <2>3
<1>17. ASSUME NEW p \in Orders PROVE HeaderAt(p)'
    <2>1. HeaderAt(p)
        BY DEF SalesInv
    <2>2. CASE p # o
        <3>1. \A m \in LinesOf(p) : line'[m] = line[m] /\ OpenQty(m)' = OpenQty(m)
            BY <1>7, <2>2 DEF LinesOf, OpenQty
        <3> QED
            BY <3>1, <1>14, <2>1, <2>2, ZenonT(40) DEF HeaderAt
    <2>3. CASE p = o
        <3>1. l \in LinesOf(o) /\ line'[l].shipped > 0
            BY <1>2, <1>5, <1>6, <1>7 DEF LinesOf
        <3>2. s = "SHIPPED" => \A m \in LinesOf(o) : OpenQty(m)' = 0 /\ line'[m].allocated = 0
            <4> SUFFICES ASSUME s = "SHIPPED", NEW m \in LinesOf(o)
                         PROVE  OpenQty(m)' = 0 /\ line'[m].allocated = 0
                OBVIOUS
            <4>1. m \in Lines /\ OpenQty(m)' = 0 /\ LineAt(m)'
                BY <1>13, <1>16, LinesFinite
            <4>2. line'[m] \in SalesOrderLine /\ Quantity[m] \in Nat
                BY <4>1, <1>7, SalesOrdersAssumption
            <4>3. line'[m].allocated + line'[m].shipped + line'[m].cancelled <= Quantity[m]
                BY <4>1 DEF LineAt
            <4> QED
                BY <4>1, <4>2, <4>3 DEF OpenQty, Positive, SalesOrderLine
        <3>3. s = "PARTIALLY_SHIPPED" => \E m \in LinesOf(o) : OpenQty(m)' > 0
            <4>1. \A m \in LinesOf(o) : OpenQty(m)' \in Nat
                BY <1>15, LinesFinite, SalesOrdersAssumption DEF SalesTypeOK, SalesOrderLine, OpenQty, Positive
            <4> QED
                BY <4>1, <1>13
        <3>4. history'[o] # <<>> => history'[o][Len(history'[o])] = order'[o]
            <4>1. CASE s = order[o]
                BY <4>1, <1>14, <2>1, <2>3 DEF HeaderAt
            <4>2. CASE s # order[o]
                BY <4>2, <1>14
            <4> QED
                BY <4>1, <4>2
        <3> HIDE DEF o
        <3> QED
            BY <3>1, <3>2, <3>3, <3>4, <1>13, <1>14, <2>3 DEF HeaderAt
    <2> QED
        BY <2>2, <2>3
<1>18. RequestsApplyOnce'
    <2>1. e.id = "generated"
        BY DEF e
    <2>2. /\ \A i, j \in DOMAIN events' : i # j /\ events'[i].id = events'[j].id => events'[i].id = "generated"
          /\ \A k \in DOMAIN events : k \in DOMAIN events' /\ events'[k] = events[k]
        BY <1>2, <1>3, <2>1, EventApplies
    <2>3. \A k \in DOMAIN shipments : shipments[k].id # Row(t).id
        BY <1>1, <1>3 DEF FreshId, RowsWithId, Row
    <2>4. /\ Len(shipments) \in Nat /\ DOMAIN shipments = 1..Len(shipments)
          /\ DOMAIN shipments' = 1..(Len(shipments) + 1)
          /\ \A k \in DOMAIN shipments : shipments'[k] = shipments[k]
          /\ shipments'[Len(shipments) + 1] = Row(t)
        BY <1>t, <1>2, <1>3 DEF SalesTypeOK
    <2>5. \A i, j \in DOMAIN shipments' : i # j => shipments'[i].id # shipments'[j].id
        BY <1>t, <2>3, <2>4 DEF RequestsApplyOnce
    <2>6. ASSUME NEW u \in answered'
          PROVE  \E k \in DOMAIN (IF u.kind = "SHIP" THEN shipments' ELSE events') :
                    (IF u.kind = "SHIP" THEN shipments' ELSE events')[k] = Row(u)
        <3>1. CASE u = t
            <4>1. Len(shipments) + 1 \in DOMAIN shipments'
                BY <2>4
            <4> QED
                BY <4>1, <3>1, <1>1, <2>4
        <3>2. CASE u \in answered /\ u.kind = "SHIP"
            <4>1. PICK k \in DOMAIN shipments : shipments[k] = Row(u)
                BY <3>2, <1>t DEF RequestsApplyOnce
            <4> QED
                BY <4>1, <2>4, <3>2
        <3>3. CASE u \in answered /\ u.kind # "SHIP"
            <4>1. PICK k \in DOMAIN events : events[k] = Row(u)
                BY <3>3, <1>t DEF RequestsApplyOnce
            <4> QED
                BY <4>1, <2>2, <3>3
        <3> QED
            BY <3>1, <3>2, <3>3, <1>11
    <2> QED
        BY <2>2, <2>5, <2>6 DEF RequestsApplyOnce, Row
<1> QED
    BY <1>15, <1>16, <1>17, <1>18 DEF SalesInv

\* Cancelling gives back what is allocated, one event for each line that has any.
LEMMA CancelKeeps ==
    ASSUME SalesInv, NEW o \in Orders, Cancel(o)
    PROVE  SalesInv'
<1> DEFINE released == {l \in LinesOf(o) : HasToRelease(l)}
           N == Cardinality(released)
           more == [i \in 1..N |-> LET l == SetToSeq(released)[i] IN
                      [id |-> "generated", line |-> l, qty |-> line[l].allocated, kind |-> "CANCEL_RELEASE"]]
           gone(l) == Positive(Quantity[l] - line[l].shipped)
<1>t. SalesTypeOK /\ RequestsApplyOnce /\ \A m \in Lines : LineAt(m)
    BY DEF SalesInv
<1>1. /\ order[o] \notin {"NONE", "SHIPPED", "CANCELLED"}
      /\ reserved' = [r \in DOMAIN reserved |->
                        IF r \in released THEN reserved[r] - line[r].allocated ELSE reserved[r]]
      /\ events' = events \o more
      /\ line' = [l \in Lines |-> IF l \in LinesOf(o)
                                  THEN [line[l] EXCEPT !.allocated = 0, !.cancelled = gone(l)]
                                  ELSE line[l]]
      /\ Enter(o, "CANCELLED")
      /\ UNCHANGED <<blocked, sellable, held, shipments, request, answered>>
    BY DEF Cancel, stockVars
<1>2. LinesOf(o) \subseteq Lines /\ released \subseteq Lines /\ IsFiniteSet(released)
      /\ \A l \in released : line[l].allocated > 0
    BY LinesFinite, FS_Subset DEF HasToRelease
<1>3. \A l \in Lines :
        /\ line[l] \in SalesOrderLine /\ Quantity[l] \in Nat \ {0}
        /\ line[l].allocated \in Nat /\ line[l].shipped \in Nat /\ line[l].cancelled \in Nat
        /\ reserved[l] = line[l].allocated
        /\ line[l].allocated + line[l].shipped + line[l].cancelled <= Quantity[l]
    BY <1>t, SalesOrdersAssumption DEF SalesTypeOK, SalesOrderLine, LineAt
<1>4. /\ N \in Nat /\ SetToSeq(released) \in [1..N -> released]
      /\ \A i, j \in 1..N : SetToSeq(released)[i] = SetToSeq(released)[j] => i = j
      /\ \A x \in released : \E i \in 1..N : SetToSeq(released)[i] = x
    <2> HIDE DEF released
    <2> QED
        BY <1>2, SetToSeqCovers
<1>k. ASSUME NEW l \in LinesOf(o), l \notin released PROVE line[l].allocated = 0
    <2>1. ~(line[l].allocated > 0)
        BY <1>k DEF HasToRelease
    <2>2. line[l].allocated \in Nat
        BY <1>2, <1>3
    <2> QED
        BY <2>1, <2>2
<1> HIDE DEF released, N
<1>5. \A i \in 1..N :
        LET l == SetToSeq(released)[i] IN
        /\ l \in released
        /\ more[i] = [id |-> "generated", line |-> l, qty |-> line[l].allocated, kind |-> "CANCEL_RELEASE"]
        /\ more[i] \in SalesOrderEvent
    <2> SUFFICES ASSUME NEW i \in 1..N, NEW l, l = SetToSeq(released)[i]
                 PROVE  /\ l \in released
                        /\ more[i] = [id |-> "generated", line |-> l,
                                       qty |-> line[l].allocated, kind |-> "CANCEL_RELEASE"]
                        /\ more[i] \in SalesOrderEvent
        OBVIOUS
    <2>1. l \in released
        BY <1>4
    <2>2. l \in Lines /\ line[l].allocated \in Nat \ {0}
        BY <2>1, <1>2, <1>3
    <2> QED
        BY <2>1, <2>2 DEF SalesOrderEvent
<1>6. more \in Seq(SalesOrderEvent) /\ Len(more) = N /\ DOMAIN more = 1..N
    <2>1. more \in [1..N -> SalesOrderEvent]
        BY <1>5
    <2> HIDE DEF more
    <2>2. more \in Seq(SalesOrderEvent)
        BY <2>1, <1>4, SeqDef
    <2> QED
        BY <2>1, <2>2, <1>4, LenProperties
<1>7. \A i \in 1..N : /\ more[i].id = "generated" /\ more[i].line = SetToSeq(released)[i]
                      /\ more[i].qty = line[SetToSeq(released)[i]].allocated /\ more[i].kind = "CANCEL_RELEASE"
    BY <1>5
<1> HIDE DEF more
<1>8. events \in Seq(SalesOrderEvent) /\ \A x \in SalesOrderEvent : x.qty \in Nat
    BY <1>t DEF SalesTypeOK, SalesOrderEvent
<1>9. ASSUME NEW m \in Lines PROVE Total(events', m, {"ALLOCATE"}) = Total(events, m, {"ALLOCATE"})
    <2>1. Counted(more, m, {"ALLOCATE"}) = {}
        BY <1>6, <1>7 DEF Counted
    <2>2. Total(events \o more, m, {"ALLOCATE"}) = Total(events, m, {"ALLOCATE"})
        BY <2>1, <1>6, <1>8, TotalGrows
    <2> QED
        BY <2>2, <1>1
<1>10. ASSUME NEW m \in Lines
       PROVE  LET back == {"RELEASE", "SHIP_RELEASE", "CANCEL_RELEASE"} IN
              Total(events', m, back) =
                IF m \in released THEN Total(events, m, back) + line[m].allocated ELSE Total(events, m, back)
    <2> DEFINE back == {"RELEASE", "SHIP_RELEASE", "CANCEL_RELEASE"}
    <2>0. "CANCEL_RELEASE" \in back
        OBVIOUS
    <2> HIDE DEF back
    <2>1. CASE m \notin released
        <3>1. Counted(more, m, back) = {}
            BY <1>4, <1>6, <1>7, <2>1 DEF Counted
        <3>2. Total(events \o more, m, back) = Total(events, m, back)
            BY <3>1, <1>6, <1>8, TotalGrows
        <3> QED
            BY <3>2, <1>1, <2>1 DEF back
    <2>2. CASE m \in released
        <3>1. PICK i \in 1..N : SetToSeq(released)[i] = m
            BY <1>4, <2>2
        <3>2. Counted(more, m, back) = {i}
            BY <1>4, <1>6, <1>7, <2>0, <3>1 DEF Counted
        <3>3. Total(events \o more, m, back) = Total(events, m, back) + more[i].qty
            BY <3>2, <1>6, <1>8, TotalGrows
        <3>4. more[i].qty = line[m].allocated
            BY <1>7, <3>1
        <3> QED
            BY <3>3, <3>4, <1>1, <2>2 DEF back
    <2> QED
        BY <2>1, <2>2
<1>11. ASSUME NEW l \in LinesOf(o)
       PROVE  /\ line'[l].allocated = 0 /\ line'[l].shipped = line[l].shipped /\ line'[l].cancelled = gone(l)
              /\ line'[l] \in SalesOrderLine /\ reserved'[l] = 0 /\ reserved'[l] \in Nat
              /\ gone(l) = Quantity[l] - line[l].shipped
              /\ OpenQty(l)' = 0
              /\ l \notin released => line[l].allocated = 0
    <2>1. l \in Lines /\ l \in DOMAIN reserved
        BY <1>2, <1>t DEF SalesTypeOK
    <2>2. line'[l] = [line[l] EXCEPT !.allocated = 0, !.cancelled = gone(l)]
        BY <2>1, <1>1
    <2>3. gone(l) = Quantity[l] - line[l].shipped /\ gone(l) \in Nat
        BY <2>1, <1>3 DEF Positive
    <2> HIDE DEF gone
    <2>a. line[l] \in SalesOrderLine /\ line[l].allocated \in Nat /\ reserved[l] = line[l].allocated
        BY <2>1, <1>3
    <2>4. /\ line'[l].allocated = 0 /\ line'[l].shipped = line[l].shipped /\ line'[l].cancelled = gone(l)
          /\ line'[l] \in SalesOrderLine
        <3> DEFINE r == [line[l] EXCEPT !.allocated = 0, !.cancelled = gone(l)]
        <3>1. r.allocated = 0 /\ r.shipped = line[l].shipped /\ r.cancelled = gone(l) /\ r \in SalesOrderLine
            BY <2>3, <2>a DEF SalesOrderLine
        <3> QED
            BY <3>1, <2>2
    <2>5. l \notin released => line[l].allocated = 0
        BY <1>k
    <2>6. reserved'[l] = 0
        <3>1. reserved'[l] = IF l \in released THEN reserved[l] - line[l].allocated ELSE reserved[l]
            BY <2>1, <1>1
        <3> QED
            BY <3>1, <2>5, <2>a
    <2>7. OpenQty(l)' = 0
        <3>1. OpenQty(l)' = Positive(Quantity[l] - line[l].shipped - gone(l))
            BY <2>4 DEF OpenQty
        <3> QED
            BY <3>1, <2>1, <2>3, <1>3 DEF Positive
    <2> QED
        BY <2>3, <2>4, <2>5, <2>6, <2>7
<1>12. \A l \in Lines : l \notin LinesOf(o) => line'[l] = line[l] /\ reserved'[l] = reserved[l] /\ l \notin released
    <2>1. released \subseteq LinesOf(o) /\ DOMAIN reserved = Lines \union {Others}
        BY <1>t DEF released, SalesTypeOK
    <2> QED
        BY <2>1, <1>1
<1>13. /\ order' \in [Orders -> OrderStatus \union {"NONE"}] /\ history' \in [Orders -> Seq(OrderStatus)]
       /\ order'[o] = "CANCELLED"
       /\ \A p \in Orders : p # o => order'[p] = order[p] /\ history'[p] = history[p]
       /\ history'[o] # <<>> /\ history'[o][Len(history'[o])] = "CANCELLED"
    <2>1. "CANCELLED" \in OrderStatus /\ "CANCELLED" \notin {order[o], "DRAFT"}
        BY <1>1 DEF OrderStatus
    <2> QED
        BY <1>t, <1>1, <2>1, EntryType
<1>14. /\ events' \in Seq(SalesOrderEvent)
       /\ \A i, j \in DOMAIN events' : i # j /\ events'[i].id = events'[j].id => events'[i].id = "generated"
       /\ \A k \in DOMAIN events : k \in DOMAIN events' /\ events'[k] = events[k]
    BY <1>t, <1>1, <1>6, <1>7, EventsGrow
<1>15. SalesTypeOK'
    <2>1. line' \in [Lines -> SalesOrderLine]
        <3>1. \A l \in Lines : line'[l] \in SalesOrderLine
            BY <1>3, <1>11, <1>12
        <3>2. line' = [l \in Lines |-> line'[l]]
            BY <1>1
        <3> QED
            BY <3>1, <3>2
    <2>2. reserved' \in [Lines \union {Others} -> Nat]
        <3>1. DOMAIN reserved = Lines \union {Others} /\ Others \notin released /\ reserved[Others] \in Nat
            BY <1>t, <1>2, SalesOrdersAssumption DEF SalesTypeOK
        <3>2. \A r \in Lines \union {Others} : reserved'[r] \in Nat
            BY <3>1, <1>1, <1>3, <1>11, <1>12
        <3>3. reserved' = [r \in Lines \union {Others} |-> reserved'[r]]
            BY <3>1, <1>1
        <3> QED
            BY <3>2, <3>3
    <2> QED
        BY <1>t, <1>1, <1>13, <1>14, <2>1, <2>2 DEF SalesTypeOK
<1>16. ASSUME NEW m \in Lines PROVE LineAt(m)'
    <2> DEFINE given == Total(events, m, {"ALLOCATE"})
               back == Total(events, m, {"RELEASE", "SHIP_RELEASE", "CANCEL_RELEASE"})
    <2>1. given \in Nat /\ back \in Nat
        BY <1>8, TotalType
    <2>2. line[m].allocated = given - back /\ line[m].shipped = Total(shipments, m, {"SHIP"})
        BY <1>t DEF LineAt
    <2>3. CASE m \notin LinesOf(o)
        <3>1. Total(events', m, {"RELEASE", "SHIP_RELEASE", "CANCEL_RELEASE"}) = back
            BY <1>10, <1>12, <2>3
        <3> QED
            BY <3>1, <1>t, <1>1, <1>9, <1>12, <2>3 DEF LineAt
    <2>4. CASE m \in LinesOf(o)
        <3>1. Total(events', m, {"RELEASE", "SHIP_RELEASE", "CANCEL_RELEASE"}) = back + line[m].allocated
            <4>1. CASE m \in released
                BY <4>1, <1>10
            <4>2. CASE m \notin released
                BY <4>2, <1>10, <1>11, <2>1, <2>4
            <4> QED
                BY <4>1, <4>2
        <3>2. given - (back + line[m].allocated) = 0
            BY <2>1, <2>2
        <3>3. /\ line'[m].allocated = 0 /\ line'[m].shipped = line[m].shipped /\ reserved'[m] = 0
              /\ line'[m].cancelled = Quantity[m] - line[m].shipped
            BY <1>11, <2>4
        <3>4. line'[m].allocated + line'[m].shipped + line'[m].cancelled <= Quantity[m]
            BY <3>3, <1>3
        <3> QED
            BY <3>1, <3>2, <3>3, <3>4, <1>1, <1>9, <2>2 DEF LineAt
    <2> QED
        BY <2>3, <2>4
<1>17. ASSUME NEW p \in Orders PROVE HeaderAt(p)'
    <2>1. HeaderAt(p)
        BY DEF SalesInv
    <2>2. CASE p # o
        <3>1. \A l \in LinesOf(p) : line'[l] = line[l] /\ OpenQty(l)' = OpenQty(l)
            BY <1>12, <2>2 DEF LinesOf, OpenQty
        <3> QED
            BY <3>1, <1>13, <2>1, <2>2, ZenonT(40) DEF HeaderAt
    <2>3. CASE p = o
        BY <2>3, <1>11, <1>13 DEF HeaderAt
    <2> QED
        BY <2>2, <2>3
<1>18. RequestsApplyOnce'
    <2>1. UNCHANGED <<shipments, answered>>
        BY <1>1
    <2>2. ASSUME NEW u \in answered
          PROVE  \E k \in DOMAIN (IF u.kind = "SHIP" THEN shipments ELSE events') :
                    (IF u.kind = "SHIP" THEN shipments ELSE events')[k] = Row(u)
        <3>1. CASE u.kind = "SHIP"
            BY <3>1, <1>t DEF RequestsApplyOnce
        <3>2. CASE u.kind # "SHIP"
            <4>1. PICK k \in DOMAIN events : events[k] = Row(u)
                BY <3>2, <1>t DEF RequestsApplyOnce
            <4> QED
                BY <4>1, <1>14, <3>2
        <3> QED
            BY <3>1, <3>2
    <2> QED
        BY <1>t, <1>14, <2>1, <2>2 DEF RequestsApplyOnce, Row
<1> QED
    BY <1>15, <1>16, <1>17, <1>18 DEF SalesInv

-----------------------------------------------------------------------------
(* The theorems about sales orders *)

LEMMA SalesInvInit == SalesInit => SalesInv
<1> SUFFICES ASSUME SalesInit PROVE SalesInv
    OBVIOUS
<1>1. SalesTypeOK
    BY SalesOrdersAssumption DEF SalesInit, SalesTypeOK, SalesOrderLine, OrderStatus, Idle
<1>2. ASSUME NEW l \in Lines PROVE LineAt(l)
    <2>1. \A kinds : Total(<<>>, l, kinds) = 0
        BY TotalOfNone
    <2>2. events = <<>> /\ shipments = <<>> /\ reserved[l] = 0
          /\ line[l].allocated = 0 /\ line[l].shipped = 0 /\ line[l].cancelled = 0
        BY DEF SalesInit
    <2>3. Quantity[l] \in Nat
        BY SalesOrdersAssumption
    <2> QED
        BY <2>1, <2>2, <2>3 DEF LineAt
<1>3. \A o \in Orders : HeaderAt(o)
    BY LinesFinite DEF SalesInit, HeaderAt, LinesOf
<1>4. RequestsApplyOnce
    BY DEF SalesInit, RequestsApplyOnce
<1> QED
    BY <1>1, <1>2, <1>3, <1>4 DEF SalesInv

LEMMA SalesInvStep == SalesInv /\ [SalesNext]_salesVars => SalesInv'
BY StockKeeps, QuietKeeps, LookUpKeeps, OpeningKeeps, AllocationKeeps, ShipKeeps, CancelKeeps DEF SalesNext

\* The inductive invariant of sales orders.
THEOREM SalesInductive == SalesSpec => []SalesInv
BY SalesInvInit, SalesInvStep, PTL DEF SalesSpec

\* Every variable of sales orders keeps its type; in particular a line's reservation
\* never falls below zero (ReleaseAllocation, Ship, Cancel).
THEOREM SalesTypeCorrect == SalesSpec => []SalesTypeOK
<1>1. SalesInv => SalesTypeOK
    BY DEF SalesInv
<1> QED
    BY <1>1, SalesInductive, PTL

\* Lines, events, shipments, ledger and header agree after every transaction, for any
\* number of orders, lines and requests (Allocate, ReleaseAllocation, Ship, Cancel).
THEOREM OrdersSafe == SalesSpec => []OrdersReconcile
<1>1. SalesInv => OrdersReconcile
    BY HeadersReconcile DEF SalesInv, OrdersReconcile, LinesReconcile, LineAt
<1> QED
    BY <1>1, SalesInductive, PTL

\* A request is carried out once, as it was asked, however often it is sent and however
\* many of its copies are in work at once (LookUp, FreshId).
THEOREM RequestsSafe == SalesSpec => []RequestsApplyOnce
<1>1. SalesInv => RequestsApplyOnce
    BY DEF SalesInv
<1> QED
    BY <1>1, SalesInductive, PTL

\* Promising and backorder processing leave orders, stock and requests alone, so that
\* what holds of sales orders holds of the whole.
THEOREM OrdersTrade == CustomerSpec => SalesSpec
<1>1. CustomerInit => SalesInit
    BY DEF CustomerInit
<1>2. [CustomerNext]_customerVars => [SalesNext]_salesVars
    <2>1. SalesStep => SalesNext
        BY DEF SalesStep
    <2>2. PromisingStep => UNCHANGED salesVars
        BY DEF PromisingStep, Check, Reconsider, Accept, GiveUp
    <2>3. BackorderStep => UNCHANGED salesVars
        BY DEF BackorderStep, Preview, BeginPublish, Publish
    <2>4. PolicyStep => UNCHANGED salesVars
        BY DEF PolicyStep, SetCustomerServiceClass, SetSalesOrderPriority, CreatePlan, ActivatePlan,
               DeactivatePlan, MovePlan
    <2>5. PlantStep => UNCHANGED salesVars
        BY DEF PlantStep, NextDay, Replan
    <2>6. UNCHANGED customerVars => UNCHANGED salesVars
        BY DEF customerVars
    <2> QED
        BY <2>1, <2>2, <2>3, <2>4, <2>5, <2>6 DEF CustomerNext
<1> QED
    BY <1>1, <1>2, PTL DEF CustomerSpec, SalesSpec

-----------------------------------------------------------------------------
(* Promised dates: a decision writes the dates of the lines it covers, and no *)
(* run changes once it is stored.                                            *)

Stored(r) == r \in Runs /\ run[r].kind # "NONE"

DecisionsInv ==
    /\ run = [r \in Runs |-> run[r]] /\ planner = [p \in Planners |-> planner[p]]
    /\ decisions \in Seq([kind : {"ACCEPTANCE", "PUBLICATION"}, run : Runs])
    /\ \A r \in Runs : Stored(r) => \A l \in DOMAIN run[r].result : OrderOf[l] \in run[r].orders
    /\ \A k \in DOMAIN decisions : Stored(decisions[k].run)
    /\ \A p \in Planners : planner[p].doing \in {"ACCEPT", "PUBLISH"} => Stored(planner[p].run)
    /\ DecisionExplainsDates

\* A new run is not yet decided.
LEMMA StoringKeeps ==
    ASSUME DecisionsInv, NEW r \in Runs, run[r].kind = "NONE", NEW x, x.kind # "NONE",
           run' = [run EXCEPT ![r] = x], \A l \in DOMAIN x.result : OrderOf[l] \in x.orders,
           UNCHANGED <<promised, decisions, planner>>
    PROVE  DecisionsInv'
<1>1. /\ run' = [s \in Runs |-> run'[s]] /\ run'[r] = x
      /\ \A s \in Runs : s # r => run'[s] = run[s]
    BY DEF DecisionsInv
<1>2. \A k \in DOMAIN decisions : decisions[k].run \in Runs /\ run'[decisions[k].run] = run[decisions[k].run]
    BY <1>1 DEF DecisionsInv, Stored
<1>3. \A s \in Runs : Stored(s) => Stored(s)'
    BY <1>1 DEF Stored
<1>4. \A s \in Runs : Stored(s)' => \A l \in DOMAIN run'[s].result : OrderOf[l] \in run'[s].orders
    BY <1>1 DEF DecisionsInv, Stored
<1>5. Len(decisions) \in Nat /\ DOMAIN decisions = 1..Len(decisions)
    BY LenProperties DEF DecisionsInv
<1>6. ASSUME NEW o PROVE LatestFor(o)' = LatestFor(o)
    <2>1. \A k \in DOMAIN decisions : \A n \in (k + 1)..Len(decisions) : n \in DOMAIN decisions
        BY <1>5
    <2> QED
        BY <1>2, <2>1 DEF LatestFor
<1>7. DecisionExplainsDates'
    <2> SUFFICES ASSUME NEW o \in Orders, NEW k \in LatestFor(o)',
                        NEW l \in LinesOf(o) \cap DOMAIN run'[decisions[k].run].result
                 PROVE  promised[l] = run'[decisions[k].run].result[l].date
        BY DEF DecisionExplainsDates
    <2>1. k \in LatestFor(o) /\ k \in DOMAIN decisions
        BY <1>6 DEF LatestFor
    <2> QED
        BY <2>1, <1>2 DEF DecisionsInv, DecisionExplainsDates
<1>8. \A k \in DOMAIN decisions' : Stored(decisions[k].run)'
    BY <1>2, <1>3 DEF DecisionsInv, Stored
<1>9. \A p \in Planners : planner'[p].doing \in {"ACCEPT", "PUBLISH"} => Stored(planner[p].run)'
    BY <1>1 DEF DecisionsInv, Stored
<1>10. /\ planner' = [p \in Planners |-> planner'[p]]
       /\ decisions' \in Seq([kind : {"ACCEPTANCE", "PUBLICATION"}, run : Runs])
    BY DEF DecisionsInv
<1> QED
    BY <1>1, <1>4, <1>7, <1>8, <1>9, <1>10 DEF DecisionsInv

\* A decision writes the dates of its run, and touches no line of another order.
LEMMA DecidingKeeps ==
    ASSUME DecisionsInv, NEW p \in Planners, NEW r, Stored(r), NEW kind \in {"ACCEPTANCE", "PUBLICATION"},
           decisions' = Append(decisions, [kind |-> kind, run |-> r]),
           promised' = [l \in Lines |-> IF l \in DOMAIN run[r].result THEN run[r].result[l].date ELSE promised[l]],
           planner' = [planner EXCEPT ![p] = Resting], UNCHANGED run
    PROVE  DecisionsInv'
<1> DEFINE D == [kind : {"ACCEPTANCE", "PUBLICATION"}, run : Runs]
           d == [kind |-> kind, run |-> r]
           n == Len(decisions)
<1>1. d \in D /\ d.run = r /\ decisions \in Seq(D)
    BY DEF Stored, DecisionsInv
<1>2. /\ n \in Nat /\ DOMAIN decisions = 1..n /\ decisions' \in Seq(D) /\ Len(decisions') = n + 1
      /\ DOMAIN decisions' = 1..(n + 1) /\ decisions'[n + 1] = d
      /\ \A k \in 1..n : decisions'[k] = decisions[k]
    <2>1. decisions' = Append(decisions, d)
        OBVIOUS
    <2> HIDE DEF d, D
    <2> QED
        BY <1>1, <2>1
<1> HIDE DEF d, n, D
<1>3. \A k \in DOMAIN decisions' : Stored(decisions[k].run)'
    <2>1. \A k \in 1..n : Stored(decisions'[k].run)
        BY <1>2 DEF DecisionsInv
    <2>2. Stored(decisions'[n + 1].run)
        BY <1>1, <1>2
    <2>3. \A k \in 1..(n + 1) : k \in 1..n \/ k = n + 1
        BY <1>2
    <2>4. \A k \in 1..(n + 1) : Stored(decisions'[k].run)
        BY <2>1, <2>2, <2>3
    <2> QED
        BY <2>4, <1>2 DEF Stored
<1>4. DecisionExplainsDates'
    <2> SUFFICES ASSUME NEW o \in Orders, NEW k \in LatestFor(o)',
                        NEW l \in LinesOf(o) \cap DOMAIN run'[decisions'[k].run].result
                 PROVE  promised'[l] = run'[decisions'[k].run].result[l].date
        BY DEF DecisionExplainsDates
    <2>1. /\ k \in 1..(n + 1) /\ o \in run[decisions'[k].run].orders
          /\ \A m \in (k + 1)..(n + 1) : o \notin run[decisions'[m].run].orders
        BY <1>2 DEF LatestFor
    <2>2. l \in Lines /\ OrderOf[l] = o
        BY DEF LinesOf
    <2>3. CASE k = n + 1
        BY <2>2, <2>3, <1>1, <1>2
    <2>4. CASE k # n + 1
        <3>1. k \in 1..n /\ n + 1 \in (k + 1)..(n + 1)
            BY <2>1, <2>4, <1>2
        <3>2. o \notin run[r].orders
            BY <3>1, <2>1, <1>1, <1>2
        <3>3. l \notin DOMAIN run[r].result
            BY <3>2, <2>2 DEF DecisionsInv, Stored
        <3>4. k \in LatestFor(o)
            <4>1. \A m \in (k + 1)..n : m \in (k + 1)..(n + 1) /\ decisions'[m] = decisions[m]
                BY <1>2, <3>1
            <4> QED
                BY <4>1, <3>1, <2>1, <1>2 DEF LatestFor, n
        <3>5. decisions'[k] = decisions[k]
            BY <3>1, <1>2
        <3>6. promised[l] = run[decisions[k].run].result[l].date
            BY <3>4, <3>5 DEF DecisionsInv, DecisionExplainsDates
        <3> QED
            BY <3>3, <3>5, <3>6, <2>2
    <2> QED
        BY <2>3, <2>4
<1>5. /\ planner' = [q \in Planners |-> planner'[q]]
      /\ \A q \in Planners : planner'[q].doing \in {"ACCEPT", "PUBLISH"} => Stored(planner[q].run)'
    <2>1. \A q \in Planners : planner'[q] = IF q = p THEN Resting ELSE planner[q]
        BY DEF DecisionsInv
    <2>2. \A q \in Planners : planner'[q].doing \in {"ACCEPT", "PUBLISH"} => Stored(planner'[q].run)
        BY <2>1 DEF DecisionsInv, Resting
    <2>3. planner' = [q \in Planners |-> planner'[q]]
        BY DEF DecisionsInv
    <2> QED
        BY <2>2, <2>3 DEF Stored
<1>6. run' = [s \in Runs |-> run'[s]]
      /\ \A s \in Runs : Stored(s)' => \A l \in DOMAIN run'[s].result : OrderOf[l] \in run'[s].orders
    BY DEF DecisionsInv, Stored
<1> QED
    BY <1>2, <1>3, <1>4, <1>5, <1>6 DEF DecisionsInv, D

LEMMA DecisionsStep ==
    ASSUME DecisionsInv, [CustomerNext]_customerVars
    PROVE  DecisionsInv'
<1>1. ASSUME UNCHANGED <<promised, run, decisions>>,
             \/ UNCHANGED planner
             \/ \E p \in Planners : planner' = [planner EXCEPT ![p] = Resting]
             \/ \E p \in Planners, r \in Runs, w \in {"ACCEPT", "PUBLISH"} :
                  Stored(r) /\ planner' = [planner EXCEPT ![p] = [doing |-> w, run |-> r]]
      PROVE  DecisionsInv'
    <2>1. DecisionExplainsDates'
        BY <1>1 DEF DecisionsInv, DecisionExplainsDates, LatestFor
    <2>2. planner' = [q \in Planners |-> planner'[q]]
        BY <1>1 DEF DecisionsInv
    <2>3. \A q \in Planners : planner'[q].doing \in {"ACCEPT", "PUBLISH"} => Stored(planner'[q].run)
        BY <1>1 DEF DecisionsInv, Resting
    <2> QED
        BY <1>1, <2>1, <2>2, <2>3 DEF DecisionsInv, Stored
<1>2. CASE SalesStep \/ PolicyStep \/ PlantStep \/ UNCHANGED customerVars
    <2>1. UNCHANGED <<promised, run, decisions, planner>>
        BY <1>2 DEF SalesStep, planVars, PolicyStep, SetCustomerServiceClass, SetSalesOrderPriority,
                    CreatePlan, ActivatePlan, DeactivatePlan, MovePlan, PlantStep, NextDay, Replan, customerVars
    <2> QED
        BY <1>1, <2>1
<1>3. ASSUME NEW r \in Runs, NEW o \in Orders, NEW h \in Horizons, Check(r, o, h) PROVE DecisionsInv'
    <2> DEFINE x == [kind |-> "PROMISE", order |-> o, horizon |-> h, orders |-> {o}, result |-> PromiseOf(o, h)]
    <2>1. /\ run[r] = NoRun /\ run' = [run EXCEPT ![r] = x] /\ UNCHANGED <<promised, decisions, planner>>
        BY <1>3 DEF Check
    <2>2. \A l \in DOMAIN PromiseOf(o, h) : OrderOf[l] = o
        BY DEF PromiseOf, LinesOf
    <2>3. x.kind # "NONE" /\ \A l \in DOMAIN x.result : OrderOf[l] \in x.orders
        BY <2>2
    <2>4. run[r].kind = "NONE"
        BY <2>1 DEF NoRun
    <2> HIDE DEF x
    <2> QED
        BY <2>1, <2>3, <2>4, StoringKeeps
<1>4. ASSUME NEW r \in Runs, NEW h \in Horizons, Preview(r, h) PROVE DecisionsInv'
    <2> DEFINE x == [kind |-> "BACKORDER", horizon |-> h, plan |-> ActivePolicy,
                     orders |-> {OrderOf[l] : l \in DOMAIN BackordersOf(h)}, result |-> BackordersOf(h)]
    <2>1. /\ run[r] = NoRun /\ run' = [run EXCEPT ![r] = x] /\ UNCHANGED <<promised, decisions, planner>>
        BY <1>4 DEF Preview
    <2>2. x.kind # "NONE" /\ \A l \in DOMAIN x.result : OrderOf[l] \in x.orders
        OBVIOUS
    <2>3. run[r].kind = "NONE"
        BY <2>1 DEF NoRun
    <2> HIDE DEF x
    <2> QED
        BY <2>1, <2>2, <2>3, StoringKeeps
<1>5. ASSUME NEW p \in Planners, NEW r \in Runs, Reconsider(p, r) \/ BeginPublish(p, r) PROVE DecisionsInv'
    <2>1. Stored(r) /\ UNCHANGED <<promised, run, decisions>>
        BY <1>5 DEF Reconsider, BeginPublish, Stored
    <2>2. \E w \in {"ACCEPT", "PUBLISH"} : planner' = [planner EXCEPT ![p] = [doing |-> w, run |-> r]]
        BY <1>5 DEF Reconsider, BeginPublish
    <2> QED
        BY <1>1, <2>1, <2>2
<1>6. ASSUME NEW p \in Planners, GiveUp(p) PROVE DecisionsInv'
    BY <1>1, <1>6 DEF GiveUp
<1>7. ASSUME NEW p \in Planners, Accept(p) PROVE DecisionsInv'
    <2>1. Stored(planner[p].run)
        BY <1>7 DEF Accept, DecisionsInv
    <2> QED
        BY <1>7, <2>1, DecidingKeeps DEF Accept
<1>8. ASSUME NEW p \in Planners, Publish(p) PROVE DecisionsInv'
    <2>1. Stored(planner[p].run)
        BY <1>8 DEF Publish, DecisionsInv
    <2> QED
        BY <1>8, <2>1, DecidingKeeps DEF Publish, ProposedDate
<1> QED
    BY <1>2, <1>3, <1>4, <1>5, <1>6, <1>7, <1>8 DEF CustomerNext, PromisingStep, BackorderStep

THEOREM DecisionsInductive == CustomerSpec => []DecisionsInv
<1>1. CustomerInit => DecisionsInv
    <2> SUFFICES ASSUME CustomerInit PROVE DecisionsInv
        OBVIOUS
    <2>1. /\ run = [r \in Runs |-> NoRun] /\ decisions = <<>> /\ planner = [p \in Planners |-> Resting]
        BY DEF CustomerInit, PromisingInit
    <2> QED
        BY <2>1 DEF DecisionsInv, Stored, NoRun, Resting, DecisionExplainsDates, LatestFor
<1>2. DecisionsInv /\ [CustomerNext]_customerVars => DecisionsInv'
    BY DecisionsStep
<1> QED
    BY <1>1, <1>2, PTL DEF CustomerSpec

\* The dates of an order are those of the newest decision about it, whoever else decides,
\* re-plans or changes the orders in between (Accept, Publish).
THEOREM DatesExplained == CustomerSpec => []DecisionExplainsDates
<1>1. DecisionsInv => DecisionExplainsDates
    BY DEF DecisionsInv
<1> QED
    BY <1>1, DecisionsInductive, PTL

-----------------------------------------------------------------------------
(* What a publication promises is there.                                     *)

\* A total order puts every member in a place of its own (the sort of calculate).
LEMMA QueueIsOrder ==
    ASSUME NEW lines, IsFiniteSet(lines), NEW before,
           \A l \in lines : <<l, l>> \notin before,
           \A l, m, k \in lines : <<l, m>> \in before /\ <<m, k>> \in before => <<l, k>> \in before,
           \A l, m \in lines : l # m => <<l, m>> \in before \/ <<m, l>> \in before
    PROVE  /\ Cardinality(lines) \in Nat
           /\ Queue(lines, before) \in [1..Cardinality(lines) -> lines]
           /\ \A i, j \in 1..Cardinality(lines) : Queue(lines, before)[i] = Queue(lines, before)[j] => i = j
           /\ \A l \in lines : \E i \in 1..Cardinality(lines) : Queue(lines, before)[i] = l
<1> DEFINE N == Cardinality(lines)
           ahead(l) == {m \in lines : <<m, l>> \in before}
           place == [l \in lines |-> Cardinality(ahead(l)) + 1]
           places == {<<l, Cardinality({m \in lines : <<m, l>> \in before}) + 1>> : l \in lines}
<1>1. N \in Nat
    BY FS_CardinalityType
<1>2. \A l \in lines : IsFiniteSet(ahead(l)) /\ Cardinality(ahead(l)) \in Nat /\ place[l] \in 1..N
    <2> SUFFICES ASSUME NEW l \in lines
                 PROVE  IsFiniteSet(ahead(l)) /\ Cardinality(ahead(l)) \in Nat /\ place[l] \in 1..N
        OBVIOUS
    <2>1. ahead(l) \subseteq lines \ {l}
        OBVIOUS
    <2>2. IsFiniteSet(lines \ {l}) /\ Cardinality(lines \ {l}) = N - 1
        BY FS_RemoveElement
    <2>3. IsFiniteSet(ahead(l)) /\ Cardinality(ahead(l)) <= Cardinality(lines \ {l})
        <3> DEFINE A == ahead(l)
                   B == lines \ {l}
        <3>1. A \subseteq B /\ IsFiniteSet(B)
            BY <2>1, <2>2
        <3> HIDE DEF A, B
        <3>2. IsFiniteSet(A) /\ Cardinality(A) <= Cardinality(B)
            BY <3>1, FS_Subset
        <3> QED
            BY <3>2 DEF A, B
    <2>4. Cardinality(ahead(l)) \in Nat
        BY <2>3, FS_CardinalityType
    <2> QED
        BY <1>1, <2>2, <2>3, <2>4
<1>3. ASSUME NEW l \in lines, NEW m \in lines, <<l, m>> \in before
      PROVE  place[l] < place[m]
    <2> DEFINE A == ahead(l)
               B == ahead(m)
    <2>1. A \subseteq B /\ A # B
        BY <1>3
    <2>2. IsFiniteSet(B)
        BY <1>2
    <2>3. place[l] = Cardinality(A) + 1 /\ place[m] = Cardinality(B) + 1
        OBVIOUS
    <2>4. Cardinality(A) \in Nat /\ Cardinality(B) \in Nat
        BY <1>2
    <2> HIDE DEF A, B, place
    <2>5. Cardinality(A) < Cardinality(B)
        BY <2>1, <2>2, <2>4, FS_Subset
    <2> QED
        BY <2>3, <2>4, <2>5
<1>4. place \in Injection(lines, 1..N)
    <2>1. place \in [lines -> 1..N]
        BY <1>2
    <2>2. \A l, m \in lines : place[l] = place[m] => l = m
        <3> SUFFICES ASSUME NEW l \in lines, NEW m \in lines, l # m PROVE place[l] # place[m]
            OBVIOUS
        <3>1. place[l] < place[m] \/ place[m] < place[l]
            BY <1>3
        <3>2. place[l] \in Int /\ place[m] \in Int
            BY <1>2
        <3> HIDE DEF place
        <3> QED
            BY <3>1, <3>2
    <2> HIDE DEF place
    <2> QED
        BY <2>1, <2>2 DEF Injection, IsInjective
<1>5. \A i \in 1..N : \E l \in lines : place[l] = i
    <2>1. IsFiniteSet(1..N) /\ Cardinality(1..N) = N
        BY <1>1, FS_Interval
    <2> HIDE DEF place
    <2>2. place \in Surjection(lines, 1..N)
        BY <1>4, <2>1, FS_Injection DEF N
    <2> QED
        BY <2>2 DEF Surjection
<1>6. \A l \in lines, i \in 1..N : <<l, i>> \in places <=> place[l] = i
    <2>1. places = {<<l, place[l]>> : l \in lines}
        OBVIOUS
    <2> HIDE DEF place, places
    <2> QED
        BY <2>1
<1>7. Queue(lines, before) = [i \in 1..N |-> CHOOSE l \in lines : <<l, i>> \in places]
    BY DEF Queue
<1>8. \A i \in 1..N : Queue(lines, before)[i] \in lines /\ place[Queue(lines, before)[i]] = i
    <2> HIDE DEF place, places, N
    <2> TAKE i \in 1..N
    <2>1. PICK l \in lines : <<l, i>> \in places
        BY <1>5, <1>6
    <2> QED
        BY <2>1, <1>6, <1>7
<1>9. \A l, m \in lines : place[l] = place[m] => l = m
    <2> HIDE DEF place
    <2> QED
        BY <1>4 DEF Injection, IsInjective
<1>10. \A l \in lines : Queue(lines, before)[place[l]] = l /\ place[l] \in 1..N
    <2> HIDE DEF place
    <2> QED
        BY <1>2, <1>8, <1>9
<1>11. Queue(lines, before) \in [1..N -> lines]
    <2> HIDE DEF place, places, N
    <2> QED
        BY <1>7, <1>8
<1> HIDE DEF place, places
<1> QED
    BY <1>1, <1>8, <1>10, <1>11

-----------------------------------------------------------------------------
\* What the calculation reads has its type.
PlanTypeOK ==
    /\ BackordersTypeOK /\ SalesTypeOK
    /\ today \in Days /\ plant \in PlantStates

\* Lines differ in their rank: the ties end at the line's own number (calculate).
LEMMA RankIsOrder ==
    ASSUME PlanTypeOK
    PROVE  /\ \A l \in Lines : ~Before(l, l)
           /\ \A l, m, k \in Lines : Before(l, m) /\ Before(m, k) => Before(l, k)
           /\ \A l, m \in Lines : l # m => Before(l, m) \/ Before(m, l)
<1>1. ASSUME NEW l \in Lines
      PROVE  /\ Rank(l)[1] \in Int /\ Rank(l)[2] \in Int /\ Rank(l)[3] \in Int
             /\ Rank(l)[4] = Place[l] /\ Place[l] \in Int
    <2>1. OrderOf[l] \in Orders /\ CustomerOf[OrderOf[l]] \in Customers
        BY SalesOrdersAssumption
    <2>2. \E n \in 1..3 : Priorities[n] = priority[OrderOf[l]]
        BY <2>1 DEF PlanTypeOK, BackordersTypeOK, Priorities
    <2>3. ClassRank[class[CustomerOf[OrderOf[l]]]] \in Nat
        BY <2>1, BackordersAssumption DEF PlanTypeOK, BackordersTypeOK
    <2>4. RequestedOn[l] \in Int /\ Place[l] \in Int
        BY OrderPromisingAssumption DEF Days
    <2> QED
        BY <2>2, <2>3, <2>4 DEF Rank
<1>2. ASSUME NEW l \in Lines, NEW m \in Lines
      PROVE  Before(l, m) <=> \/ Rank(l)[1] < Rank(m)[1]
                              \/ Rank(l)[1] = Rank(m)[1] /\ Rank(l)[2] < Rank(m)[2]
                              \/ Rank(l)[1] = Rank(m)[1] /\ Rank(l)[2] = Rank(m)[2] /\ Rank(l)[3] < Rank(m)[3]
                              \/ /\ Rank(l)[1] = Rank(m)[1] /\ Rank(l)[2] = Rank(m)[2] /\ Rank(l)[3] = Rank(m)[3]
                                 /\ Rank(l)[4] < Rank(m)[4]
    <2> DEFINE r == Rank(l)
               s == Rank(m)
    <2>1. Before(l, m) <=> \E n \in 1..4 : r[n] < s[n] /\ \A k \in 1..(n - 1) : r[k] = s[k]
        BY DEF Before
    <2> HIDE DEF r, s
    <2>2. \A n \in 1..4 : n = 1 \/ n = 2 \/ n = 3 \/ n = 4
        OBVIOUS
    <2>3. \A k : /\ k \notin 1..(1 - 1) /\ (k \in 1..(2 - 1) <=> k = 1)
                 /\ (k \in 1..(3 - 1) <=> k = 1 \/ k = 2) /\ (k \in 1..(4 - 1) <=> k = 1 \/ k = 2 \/ k = 3)
        OBVIOUS
    <2>4. 1 \in 1..4 /\ 2 \in 1..4 /\ 3 \in 1..4 /\ 4 \in 1..4
        OBVIOUS
    <2>5. (\E n \in 1..4 : r[n] < s[n] /\ \A k \in 1..(n - 1) : r[k] = s[k])
          <=> \/ r[1] < s[1]
              \/ r[1] = s[1] /\ r[2] < s[2]
              \/ r[1] = s[1] /\ r[2] = s[2] /\ r[3] < s[3]
              \/ r[1] = s[1] /\ r[2] = s[2] /\ r[3] = s[3] /\ r[4] < s[4]
        BY <2>2, <2>3, <2>4
    <2> QED
        BY <2>1, <2>5 DEF r, s
<1>3. \A l, m \in Lines : l # m => Place[l] # Place[m]
    BY OrderPromisingAssumption
<1> DEFINE a(l) == Rank(l)[1]
           b(l) == Rank(l)[2]
           c(l) == Rank(l)[3]
           Q(l, m) == \/ a(l) < a(m)
                      \/ a(l) = a(m) /\ b(l) < b(m)
                      \/ a(l) = a(m) /\ b(l) = b(m) /\ c(l) < c(m)
                      \/ a(l) = a(m) /\ b(l) = b(m) /\ c(l) = c(m) /\ Place[l] < Place[m]
<1>4. \A l \in Lines : a(l) \in Int /\ b(l) \in Int /\ c(l) \in Int /\ Place[l] \in Int
    BY <1>1
<1>5. \A l, m \in Lines : Before(l, m) <=> Q(l, m)
    <2> SUFFICES ASSUME NEW l \in Lines, NEW m \in Lines PROVE Before(l, m) <=> Q(l, m)
        OBVIOUS
    <2>1. Rank(l)[4] = Place[l] /\ Rank(m)[4] = Place[m]
        BY <1>1
    <2> QED
        BY <2>1, <1>2
<1> HIDE DEF a, b, c
<1>6. \A l \in Lines : ~Before(l, l)
    BY <1>4, <1>5
<1>7. \A l, m \in Lines : l # m => Before(l, m) \/ Before(m, l)
    <2> SUFFICES ASSUME NEW l \in Lines, NEW m \in Lines, l # m PROVE Before(l, m) \/ Before(m, l)
        OBVIOUS
    <2>1. Q(l, m) \/ Q(m, l)
        BY <1>3, <1>4
    <2> QED
        BY <2>1, <1>5
<1>8. ASSUME NEW l \in Lines, NEW m \in Lines, NEW k \in Lines, Before(l, m), Before(m, k)
      PROVE  Before(l, k)
    <2>1. Q(l, m) /\ Q(m, k)
        BY <1>5, <1>8
    <2>2. Q(l, k)
        BY <2>1, <1>4
    <2> QED
        BY <2>2, <1>5
<1> QED
    BY <1>6, <1>7, <1>8

-----------------------------------------------------------------------------
(* What is available, and how much of it a line gets.                        *)

\* A finite set of numbers has a largest.
LEMMA LargestMember ==
    ASSUME NEW S, S \subseteq Int, S # {}, IsFiniteSet(S)
    PROVE  Max(S) \in S /\ \A x \in S : x <= Max(S)
<1> DEFINE P == {T \in SUBSET S : T # {} => \E m \in T : \A x \in T : m >= x}
<1>1. {} \in P
    OBVIOUS
<1>2. ASSUME NEW T \in SUBSET S, NEW y \in S \ T, T \in P PROVE T \union {y} \in P
    <2>1. CASE T = {}
        BY <2>1
    <2>2. CASE T # {}
        <3>1. PICK m \in T : \A x \in T : m >= x
            BY <1>2, <2>2
        <3>2. CASE m >= y
            BY <3>1, <3>2
        <3>3. CASE ~(m >= y)
            <4>1. \A x \in T \union {y} : y >= x
                BY <3>1, <3>3
            <4> QED
                BY <4>1
        <3> QED
            BY <3>2, <3>3
    <2> QED
        BY <2>1, <2>2
<1>3. S \in P
    <2> HIDE DEF P
    <2> QED
        BY <1>1, <1>2, SetsInduct
<1>4. PICK m \in S : \A x \in S : m >= x
    BY <1>3
<1>5. Max(S) \in S /\ \A x \in S : Max(S) >= x
    BY <1>4 DEF Max
<1> QED
    BY <1>5

LEMMA SupplyTypes ==
    ASSUME PlanTypeOK
    PROVE  \A d, excluded : BeforeSafety(d, excluded, 0) \in Int
<1> SUFFICES ASSUME NEW d, NEW excluded PROVE BeforeSafety(d, excluded, 0) \in Int
    OBVIOUS
<1>1. SupplyThrough(d) \in Int
    <2> DEFINE E == {e \in Days : e <= d}
    <2>1. IsFiniteSet(Days)
        BY FS_Interval, OrderPromisingAssumption DEF Days
    <2>2. IsFiniteSet(E)
        BY <2>1, FS_Subset
    <2>3. \A e \in E : plant.due[e] \in Int
        BY DEF PlanTypeOK, PlantStates
    <2> HIDE DEF E
    <2>4. SumFunctionOnSet(plant.due, E) \in Int
        BY <2>2, <2>3, SumType
    <2> QED
        BY <2>4 DEF SupplyThrough, E
<1>2. Committed(d, excluded) \in Int
    <2> DEFINE f == [l \in Lines |-> Unallocated(l)]
               L == {l \in Lines \ excluded : order[OrderOf[l]] \in OpenStatus /\ DemandDate(l) <= d}
    <2>1. IsFiniteSet(L)
        BY SalesOrdersAssumption, FS_Subset
    <2>2. \A l \in Lines : Unallocated(l) \in Int
        <3> TAKE l \in Lines
        <3>1. OpenQty(l) \in Nat /\ line[l].allocated \in Nat
            BY OpenType DEF PlanTypeOK, SalesTypeOK, SalesOrderLine
        <3> QED
            BY <3>1 DEF Unallocated, Positive
    <2>3. \A l \in L : f[l] \in Int
        BY <2>2
    <2> HIDE DEF f, L
    <2>4. SumFunctionOnSet(f, L) \in Int
        BY <2>1, <2>3, SumType
    <2> QED
        BY <2>4 DEF Committed, f, L
<1>3. Reserved \in Int
    <2> DEFINE R == Lines \union {Others}
    <2>1. IsFiniteSet(R) /\ reserved \in [R -> Nat]
        BY SalesOrdersAssumption, FS_AddElement DEF PlanTypeOK, SalesTypeOK
    <2> HIDE DEF R
    <2> QED
        BY <2>1, ZeroSum DEF Reserved
<1>4. sellable \in Nat
    BY DEF PlanTypeOK, SalesTypeOK
<1> QED
    BY <1>1, <1>2, <1>3, <1>4 DEF BeforeSafety, Positive

LEMMA AvailableTypes ==
    ASSUME PlanTypeOK
    PROVE  \A d, excluded : /\ AvailableThrough(d, excluded, 0) \in Nat
                           /\ AvailableThrough(d, excluded, 0) <= Positive(BeforeSafety(d, excluded, 0))
<1> SUFFICES ASSUME NEW d, NEW excluded
             PROVE  /\ AvailableThrough(d, excluded, 0) \in Nat
                    /\ AvailableThrough(d, excluded, 0) <= Positive(BeforeSafety(d, excluded, 0))
    OBVIOUS
<1>1. BeforeSafety(d, excluded, 0) \in Int
    BY SupplyTypes
<1>2. plant.safety \in Nat
    BY DEF PlanTypeOK, PlantStates
<1> QED
    BY <1>1, <1>2 DEF AvailableThrough, Positive

\* The most there is up to a day is no less than what there is on any day before.
LEMMA MostIsMost ==
    ASSUME PlanTypeOK, NEW d \in Days, NEW e \in 1..d, NEW lines
    PROVE  Positive(BeforeSafety(e, lines, 0)) <= MostBy(d, lines) /\ MostBy(d, lines) \in Int
<1> DEFINE by == [x \in 1..d |-> BeforeSafety(x, lines, 0)]
           S == {0} \union {BeforeSafety(x, lines, 0) : x \in 1..d}
<1>1. \A x \in 1..d : by[x] \in Int
    BY SupplyTypes
<1>2. S = {0} \union {by[x] : x \in 1..d}
    OBVIOUS
<1>3. S \subseteq Int
    BY <1>1, <1>2
<1>4. d \in Nat /\ by = [x \in 1..d |-> by[x]]
    BY OrderPromisingAssumption DEF Days
<1>5. MostBy(d, lines) = Max(S)
    BY DEF MostBy
<1>6. 0 \in S /\ by[e] \in S /\ by[e] = BeforeSafety(e, lines, 0)
    OBVIOUS
<1> HIDE DEF by, S
<1>7. IsFiniteSet(S)
    <2> DEFINE T == {by[x] : x \in 1..d}
    <2>1. IsFiniteSet(1..d)
        <3>1. d \in Int /\ 1 \in Int
            BY <1>4
        <3> QED
            BY <3>1, FS_Interval
    <2>2. by \in Surjection(1..d, T)
        <3>1. \A y \in T : \E x \in 1..d : by[x] = y
            OBVIOUS
        <3>2. by \in [1..d -> T]
            BY <1>4
        <3> HIDE DEF T
        <3> QED
            BY <3>1, <3>2 DEF Surjection
    <2> HIDE DEF T
    <2>3. IsFiniteSet(T)
        BY <2>1, <2>2, FS_Surjection
    <2>4. IsFiniteSet(T \union {0})
        BY <2>3, FS_AddElement
    <2>5. S = T \union {0}
        BY <1>2 DEF T
    <2> QED
        BY <2>4, <2>5
<1>8. Max(S) \in S /\ \A x \in S : x <= Max(S)
    BY <1>3, <1>6, <1>7, LargestMember
<1> QED
    BY <1>3, <1>5, <1>6, <1>8 DEF Positive

LEMMA TakeBounds ==
    ASSUME NEW s, s.atp \in Nat, NEW qty \in Nat, NEW available \in Nat
    PROVE  /\ TakeATP(s, qty, available) \in Nat
           /\ TakeATP(s, qty, available) = 0 \/ s.atp + TakeATP(s, qty, available) <= available
BY DEF TakeATP, Lesser, Positive

\* What a plan gives a class.
ShareOf(a, c) == IF c \in DOMAIN Share[a] THEN Share[a][c] ELSE 0
LEMMA ShareBounds ==
    ASSUME NEW s, s.plan = None \/ s.plan \in Plans, s.pool \in Nat,
           NEW c \in Classes, s.given[c] \in Nat, NEW free \in Nat
    PROVE  /\ WithinShare(s, c, free) \in Nat /\ WithinShare(s, c, free) <= free
           /\ s.plan # None => \/ WithinShare(s, c, free) = 0
                              \/ (s.given[c] + WithinShare(s, c, free)) * 100 <= s.pool * ShareOf(s.plan, c)
<1>1. CASE s.plan = None
    BY <1>1 DEF WithinShare
<1>2. CASE s.plan # None /\ c \notin DOMAIN Share[s.plan]
    BY <1>2 DEF WithinShare
<1>3. CASE s.plan # None /\ c \in DOMAIN Share[s.plan]
    <2> DEFINE w == WithinShare(s, c, free)
               x == s.pool * Share[s.plan][c]
               g == s.given[c]
    <2>1. Share[s.plan][c] \in 1..100
        BY <1>3, BackordersAssumption
    <2>2. x \in Nat
        BY <2>1
    <2>3. w = Lesser(free, Positive((x \div 100) - g))
        BY <1>3 DEF WithinShare
    <2>4. x = s.pool * ShareOf(s.plan, c)
        BY <1>3 DEF ShareOf
    <2>5. g \in Nat
        OBVIOUS
    <2> HIDE DEF x, g, w
    <2>6. (x \div 100) \in Nat /\ (x \div 100) * 100 <= x
        BY <2>2
    <2>7. w \in Nat /\ w <= free /\ (w = 0 \/ g + w <= (x \div 100))
        BY <2>3, <2>5, <2>6 DEF Lesser, Positive
    <2> DEFINE q == x \div 100
    <2>8. q \in Nat /\ q * 100 <= x /\ w \in Nat /\ (w = 0 \/ g + w <= q) /\ g \in Nat /\ x \in Nat
        BY <2>2, <2>5, <2>6, <2>7
    <2> HIDE DEF q
    <2>9. w = 0 \/ (g + w) * 100 <= x
        BY ONLY <2>8
    <2> QED
        BY <2>4, <2>7, <2>9 DEF w, g
<1> QED
    BY <1>1, <1>2, <1>3

-----------------------------------------------------------------------------
(* One line after the other.                                                 *)

ClassOf(l) == class[CustomerOf[OrderOf[l]]]
FirstDay(l) == IF RequestedOn[l] < today THEN today ELSE RequestedOn[l]
FreeFor(s, l) ==
    TakeATP(s, OpenQty(l) - Lesser(line[l].allocated, OpenQty(l)), AvailableThrough(FirstDay(l), s.lines, 0))
ShareFor(s, l) == WithinShare(s, ClassOf(l), FreeFor(s, l))
IsState(s) == s = [atp |-> s.atp, parts |-> s.parts, from |-> s.from, end |-> s.end, lines |-> s.lines,
                   plan |-> s.plan, pool |-> s.pool, given |-> s.given, result |-> s.result]
\* What the promise of line l adds to what has been promised.
Adds(s, t, l, c) ==
    /\ c.atp = ShareFor(s, l) /\ c.atpDate = FirstDay(l)
    /\ t.result = With(s.result, l, c)
    /\ t.atp = s.atp + ShareFor(s, l)
    /\ t.given = [s.given EXCEPT ![ClassOf(l)] = @ + ShareFor(s, l)]
    /\ t.lines = s.lines /\ t.plan = s.plan /\ t.pool = s.pool
LEMMA ReallocateAdds ==
    ASSUME NEW s, IsState(s), NEW l
    PROVE  IsState(Reallocate(s, l)) /\ \E c : Adds(s, Reallocate(s, l), l, c)
<1> DEFINE fixed == Lesser(line[l].allocated, OpenQty(l))
           w == ShareFor(s, l)
           s1 == [s EXCEPT !.given[ClassOf(l)] = @ + w]
           c1 == [open |-> OpenQty(l), fixed |-> fixed, atp |-> w, ctp |-> 0, atpDate |-> FirstDay(l),
                  date |-> FirstDay(l), constraint |-> IF w < FreeFor(s, l) THEN "PRODUCT_ALLOCATION" ELSE "NONE",
                  current |-> promised[l], class |-> ClassOf(l), rank |-> Cardinality(DOMAIN s.result) + 1]
<1>1. Reallocate(s, l) = PromiseWith(s1, l, c1)
    BY DEF Reallocate, FreeFor, ShareFor, ClassOf, FirstDay
<1>2. /\ s1 = [atp |-> s.atp, parts |-> s.parts, from |-> s.from, end |-> s.end, lines |-> s.lines,
               plan |-> s.plan, pool |-> s.pool, given |-> [s.given EXCEPT ![ClassOf(l)] = @ + w],
               result |-> s.result]
      /\ c1.atp = w /\ c1.atpDate = FirstDay(l)
    <2>1. s1 = [s EXCEPT !.given = [s.given EXCEPT ![ClassOf(l)] = @ + w]]
        BY DEF IsState
    <2> QED
        BY <2>1 DEF IsState
<1> HIDE DEF w, s1
<1> DEFINE rest == c1.open - c1.fixed - c1.atp
           ctp == CTP(rest, c1.atpDate, s1.parts, s1.from, s1.end)
           g == [s.given EXCEPT ![ClassOf(l)] = @ + w]
           c2 == [c1 EXCEPT !.ctp = IF ctp.date = None THEN 0 ELSE rest, !.date = ctp.date,
                            !.constraint = IF @ # "NONE" /\ ctp.constraint # "HORIZON" THEN @ ELSE ctp.constraint]
<1>3. CASE rest = 0
    <2>1. PromiseWith(s1, l, c1) =
             [atp |-> s.atp + w, parts |-> s.parts, from |-> s.from, end |-> s.end, lines |-> s.lines,
              plan |-> s.plan, pool |-> s.pool, given |-> g, result |-> With(s.result, l, c1)]
        BY <1>2, <1>3 DEF PromiseWith
    <2> HIDE DEF c1, g
    <2>2. Adds(s, PromiseWith(s1, l, c1), l, c1)
        BY <2>1, <1>2 DEF Adds, w, g
    <2> QED
        BY <2>1, <2>2, <1>1 DEF IsState
<1>4. CASE rest # 0
    <2>1. PromiseWith(s1, l, c1) =
             [atp |-> s.atp + w, parts |-> s.parts + rest, from |-> ctp.from, end |-> s.end, lines |-> s.lines,
              plan |-> s.plan, pool |-> s.pool, given |-> g, result |-> With(s.result, l, c2)]
        <3> DEFINE after == [s1 EXCEPT !.atp = @ + c1.atp]
        <3>1. PromiseWith(s1, l, c1) = [after EXCEPT !.parts = @ + rest, !.from = ctp.from,
                                                     !.result = With(s1.result, l, c2)]
            <4> HIDE DEF c1
            <4> QED
                BY <1>4 DEF PromiseWith
        <3> HIDE DEF c1, c2, rest, ctp
        <3>2. after = [atp |-> s.atp + w, parts |-> s.parts, from |-> s.from, end |-> s.end, lines |-> s.lines,
                       plan |-> s.plan, pool |-> s.pool, given |-> g, result |-> s.result] /\ s1.result = s.result
            BY <1>2
        <3> HIDE DEF after
        <3> QED
            BY <3>1, <3>2
    <2>2. c2.atp = w /\ c2.atpDate = FirstDay(l)
        BY <1>2
    <2> HIDE DEF c1, c2, g, rest, ctp
    <2>3. Adds(s, PromiseWith(s1, l, c1), l, c2)
        BY <2>1, <2>2 DEF Adds, w, g
    <2> QED
        BY <2>1, <2>3, <1>1 DEF IsState
<1> QED
    BY <1>3, <1>4

\* The sums over the promises grow by what the line was promised.
Grown(result, l, c) ==
    /\ DOMAIN With(result, l, c) = DOMAIN result \union {l}
    /\ \A m \in DOMAIN result : With(result, l, c)[m] = result[m]
    /\ With(result, l, c)[l] = c
    /\ \A d : /\ ATPBy(result, d) \in Nat
             /\ ATPBy(With(result, l, c), d) = ATPBy(result, d) + IF c.atpDate <= d THEN c.atp ELSE 0
    /\ \A k : /\ ATPOfClass(result, k) \in Nat
             /\ ATPOfClass(With(result, l, c), k) = ATPOfClass(result, k) + IF ClassOf(l) = k THEN c.atp ELSE 0
LEMMA PromisesAdd ==
    ASSUME NEW result, IsFiniteSet(DOMAIN result), NEW l, l \notin DOMAIN result, NEW c, c.atp \in Nat,
           \A m \in DOMAIN result : result[m].atp \in Nat
    PROVE  Grown(result, l, c)
<1> DEFINE more == With(result, l, c)
<1>1. /\ DOMAIN more = DOMAIN result \union {l}
      /\ \A m \in DOMAIN result : more[m] = result[m]
      /\ more[l] = c
    BY DEF With
<1> HIDE DEF more
<1>2. ASSUME NEW S, S \subseteq DOMAIN result
      PROVE  /\ SumFunctionOnSet(ATP(result), S) \in Nat
             /\ SumFunctionOnSet(ATP(more), S) = SumFunctionOnSet(ATP(result), S)
             /\ SumFunctionOnSet(ATP(more), S \union {l}) = SumFunctionOnSet(ATP(result), S) + c.atp
    <2>1. IsFiniteSet(S)
        BY <1>2, FS_Subset
    <2>2. \A m \in S : ATP(result)[m] \in Nat /\ ATP(more)[m] = ATP(result)[m]
        BY <1>1, <1>2 DEF ATP
    <2>3. ATP(more)[l] = c.atp /\ l \notin S
        BY <1>1, <1>2 DEF ATP
    <2>4. SumFunctionOnSet(ATP(result), S) \in Nat
        BY <2>1, <2>2, SumNat
    <2>5. SumFunctionOnSet(ATP(more), S) = SumFunctionOnSet(ATP(result), S)
        BY <2>1, <2>2, SumSame
    <2>6. \A m \in S \union {l} : ATP(more)[m] \in Int
        BY <2>2, <2>3
    <2>7. SumFunctionOnSet(ATP(more), S \union {l}) = SumFunctionOnSet(ATP(more), S) + ATP(more)[l]
        BY <2>1, <2>3, <2>6, SumInsert
    <2> QED
        BY <2>3, <2>4, <2>5, <2>7
<1>3. \A d : /\ ATPBy(result, d) \in Nat
            /\ ATPBy(more, d) = ATPBy(result, d) + IF c.atpDate <= d THEN c.atp ELSE 0
    <2> SUFFICES ASSUME NEW d
                 PROVE  /\ ATPBy(result, d) \in Nat
                        /\ ATPBy(more, d) = ATPBy(result, d) + IF c.atpDate <= d THEN c.atp ELSE 0
        OBVIOUS
    <2> DEFINE S == {m \in DOMAIN result : result[m].atpDate <= d}
               T == {m \in DOMAIN more : more[m].atpDate <= d}
    <2>1. T = IF c.atpDate <= d THEN S \union {l} ELSE S
        BY <1>1
    <2>2. ATPBy(result, d) = SumFunctionOnSet(ATP(result), S) /\ ATPBy(more, d) = SumFunctionOnSet(ATP(more), T)
        BY DEF ATPBy
    <2>3. S \subseteq DOMAIN result
        OBVIOUS
    <2> HIDE DEF S, T
    <2> QED
        BY <1>2, <2>1, <2>2, <2>3
<1>4. \A k : /\ ATPOfClass(result, k) \in Nat
            /\ ATPOfClass(more, k) = ATPOfClass(result, k) + IF ClassOf(l) = k THEN c.atp ELSE 0
    <2> SUFFICES ASSUME NEW k
                 PROVE  /\ ATPOfClass(result, k) \in Nat
                        /\ ATPOfClass(more, k) = ATPOfClass(result, k) + IF ClassOf(l) = k THEN c.atp ELSE 0
        OBVIOUS
    <2> DEFINE S == {m \in DOMAIN result : ClassOf(m) = k}
               T == {m \in DOMAIN more : ClassOf(m) = k}
    <2>1. T = IF ClassOf(l) = k THEN S \union {l} ELSE S
        BY <1>1
    <2>2. /\ ATPOfClass(result, k) = SumFunctionOnSet(ATP(result), S)
          /\ ATPOfClass(more, k) = SumFunctionOnSet(ATP(more), T)
        BY DEF ATPOfClass, ClassOf
    <2>3. S \subseteq DOMAIN result
        OBVIOUS
    <2> HIDE DEF S, T
    <2> QED
        BY <1>2, <2>1, <2>2, <2>3
<1> QED
    BY <1>1, <1>3, <1>4 DEF more, Grown

LEMMA PolicyType ==
    ASSUME PlanTypeOK
    PROVE  ActivePolicy = None \/ ActivePolicy \in Plans
<1> DEFINE now == {a \in Plans : allocation[a] = "ACTIVE" /\ From[a] <= today /\ today <= To[a]}
           C == {today - From[a] : a \in now}
<1>1. CASE now = {}
    BY <1>1 DEF ActivePolicy
<1>2. CASE now # {}
    <2>1. ASSUME NEW a \in now PROVE today - From[a] \in Nat
        <3>1. From[a] \in Int /\ today \in Int /\ From[a] <= today
            BY BackordersAssumption, OrderPromisingAssumption DEF PlanTypeOK, Days
        <3> QED
            BY <3>1
    <2>2. C \subseteq Nat /\ C # {}
        BY <1>2, <2>1
    <2>3. PICK n \in C : \A m \in C : n <= m
        <3> HIDE DEF C
        <3> QED
            BY <2>2, SmallestNumber
    <2>4. PICK a \in now : n = today - From[a]
        BY <2>3
    <2>5. \A b \in now : From[b] <= From[a]
        <3> SUFFICES ASSUME NEW b \in now PROVE From[b] <= From[a]
            OBVIOUS
        <3>1. today - From[a] <= today - From[b]
            BY <2>3, <2>4
        <3>2. From[a] \in Int /\ From[b] \in Int /\ today \in Int
            BY BackordersAssumption, OrderPromisingAssumption DEF PlanTypeOK, Days
        <3> QED
            BY <3>1, <3>2
    <2>6. ActivePolicy = CHOOSE x \in now : \A b \in now : From[b] <= From[x]
        BY <1>2 DEF ActivePolicy
    <2> HIDE DEF now
    <2>7. ActivePolicy \in now
        BY <2>5, <2>6
    <2> QED
        BY <2>7 DEF now
<1> QED
    BY <1>1, <1>2

\* What the promises of the lines done so far add up to.
Promises(s, done, lines, h) ==
    /\ IsState(s) /\ s.lines = lines /\ s.plan = ActivePolicy
    /\ s.pool = AvailableThrough(HorizonEnd(h), lines, 0)
    /\ DOMAIN s.result = done /\ \A m \in done : s.result[m].atp \in Nat
    /\ s.atp \in Nat /\ s.given \in [Classes -> Nat]
    /\ \A k \in Classes : s.given[k] = ATPOfClass(s.result, k)
    /\ s.plan # None => \A k \in Classes : s.given[k] * 100 <= s.pool * ShareOf(s.plan, k)
    /\ \A d \in Days : ATPBy(s.result, d) <= s.atp /\ ATPBy(s.result, d) <= MostBy(d, lines)

LEMMA NextLine ==
    ASSUME PlanTypeOK, NEW s, NEW done, NEW lines, lines \subseteq Lines, NEW h, done \subseteq lines,
           Promises(s, done, lines, h), NEW l \in lines \ done
    PROVE  Promises(Reallocate(s, l), done \union {l}, lines, h)
<1> DEFINE t == Reallocate(s, l)
           w == ShareFor(s, l)
           k0 == ClassOf(l)
           d0 == FirstDay(l)
           avail == AvailableThrough(d0, lines, 0)
<1>1. IsState(t) /\ \E c : Adds(s, t, l, c)
    BY ReallocateAdds DEF Promises
<1> HIDE DEF t
<1>2. PICK c : Adds(s, t, l, c)
    BY <1>1
<1>3. d0 \in Days /\ k0 \in Classes
    <2>1. l \in Lines /\ RequestedOn[l] \in Days /\ today \in Days
        BY OrderPromisingAssumption DEF PlanTypeOK
    <2>2. CustomerOf[OrderOf[l]] \in Customers
        BY <2>1, SalesOrdersAssumption
    <2> QED
        BY <2>1, <2>2 DEF FirstDay, ClassOf, PlanTypeOK, BackordersTypeOK
<1>4. avail \in Nat /\ avail <= Positive(BeforeSafety(d0, lines, 0))
    BY AvailableTypes
<1>5. s.pool \in Nat
    BY AvailableTypes DEF Promises
<1>6. OpenQty(l) - Lesser(line[l].allocated, OpenQty(l)) \in Nat
    <2>1. OpenQty(l) \in Nat /\ line[l].allocated \in Nat
        BY OpenType DEF PlanTypeOK, SalesTypeOK, SalesOrderLine
    <2> QED
        BY <2>1 DEF Lesser
<1>7. /\ FreeFor(s, l) \in Nat
      /\ FreeFor(s, l) = 0 \/ s.atp + FreeFor(s, l) <= avail
    <2>1. s.atp \in Nat /\ s.lines = lines
        BY DEF Promises
    <2> HIDE DEF avail
    <2> QED
        BY <1>4, <1>6, <2>1, TakeBounds DEF FreeFor, avail
<1>8. /\ w \in Nat /\ w <= FreeFor(s, l)
      /\ s.plan # None => w = 0 \/ (s.given[k0] + w) * 100 <= s.pool * ShareOf(s.plan, k0)
    <2>1. s.plan = None \/ s.plan \in Plans
        BY PolicyType DEF Promises
    <2>2. s.given[k0] \in Nat
        BY <1>3 DEF Promises
    <2> HIDE DEF k0
    <2> QED
        BY <1>3, <1>5, <1>7, <2>1, <2>2, ShareBounds DEF ShareFor, k0
<1>9. w = 0 \/ s.atp + w <= avail
    BY <1>4, <1>7, <1>8 DEF Promises
<1> HIDE DEF w, avail
<1>10. /\ t.atp = s.atp + w /\ c.atp = w /\ c.atpDate = d0 /\ t.result = With(s.result, l, c)
       /\ t.given = [s.given EXCEPT ![k0] = @ + w] /\ t.lines = s.lines /\ t.plan = s.plan /\ t.pool = s.pool
    BY <1>2 DEF Adds, w
<1>11. IsFiniteSet(DOMAIN s.result) /\ DOMAIN s.result = done /\ \A m \in done : s.result[m].atp \in Nat
    BY SalesOrdersAssumption, FS_Subset DEF Promises
<1>12. /\ DOMAIN t.result = done \union {l}
       /\ \A m \in done : t.result[m] = s.result[m]
       /\ t.result[l] = c
       /\ \A d : /\ ATPBy(s.result, d) \in Nat
                /\ ATPBy(t.result, d) = ATPBy(s.result, d) + IF d0 <= d THEN w ELSE 0
       /\ \A k : /\ ATPOfClass(s.result, k) \in Nat
                /\ ATPOfClass(t.result, k) = ATPOfClass(s.result, k) + IF k0 = k THEN w ELSE 0
    <2> DEFINE R == s.result
    <2>1. /\ IsFiniteSet(DOMAIN R) /\ l \notin DOMAIN R /\ c.atp \in Nat
          /\ \A m \in DOMAIN R : R[m].atp \in Nat
        BY <1>8, <1>10, <1>11
    <2>2. DOMAIN R = done /\ t.result = With(R, l, c) /\ c.atp = w /\ c.atpDate = d0
        BY <1>10, <1>11
    <2> HIDE DEF R
    <2>3. Grown(R, l, c)
        BY ONLY <2>1, PromisesAdd
    <2> HIDE DEF d0
    <2> QED
        BY <2>2, <2>3 DEF R, Grown
<1> HIDE DEF k0, d0
<1>13. \A m \in done \union {l} : t.result[m].atp \in Nat
    BY <1>8, <1>10, <1>11, <1>12
<1>14. t.atp \in Nat /\ t.given \in [Classes -> Nat]
    BY <1>3, <1>8, <1>10 DEF Promises
<1>15. \A k \in Classes : t.given[k] = s.given[k] + IF k0 = k THEN w ELSE 0
    BY <1>3, <1>8, <1>10 DEF Promises
<1>16. \A k \in Classes : t.given[k] = ATPOfClass(t.result, k)
    BY <1>12, <1>15 DEF Promises
<1>17. ASSUME t.plan # None, NEW k \in Classes PROVE t.given[k] * 100 <= t.pool * ShareOf(t.plan, k)
    <2>1. s.given[k] * 100 <= s.pool * ShareOf(s.plan, k) /\ s.given[k] \in Nat
        BY <1>10, <1>17 DEF Promises
    <2>2. CASE k0 = k /\ w # 0
        BY <1>8, <1>10, <1>15, <1>17, <2>2
    <2>3. CASE k0 # k \/ w = 0
        <3>1. t.given[k] = s.given[k]
            BY <1>15, <2>1, <2>3
        <3> QED
            BY <1>10, <2>1, <3>1
    <2> QED
        BY <2>2, <2>3
<1>18. ASSUME NEW d \in Days PROVE ATPBy(t.result, d) <= t.atp /\ ATPBy(t.result, d) <= MostBy(d, lines)
    <2>1. ATPBy(s.result, d) <= s.atp /\ ATPBy(s.result, d) <= MostBy(d, lines) /\ s.atp \in Nat
        BY DEF Promises
    <2>2. /\ ATPBy(s.result, d) \in Nat
          /\ ATPBy(t.result, d) = ATPBy(s.result, d) + IF d0 <= d THEN w ELSE 0
        BY <1>12
    <2>3. ATPBy(t.result, d) <= t.atp
        BY <1>8, <1>10, <2>1, <2>2
    <2>4. CASE d0 <= d /\ w # 0
        <3>1. d0 \in 1..d
            BY <1>3, <2>4, OrderPromisingAssumption DEF Days
        <3>2. Positive(BeforeSafety(d0, lines, 0)) <= MostBy(d, lines) /\ MostBy(d, lines) \in Int
            BY <3>1, MostIsMost
        <3>3. Positive(BeforeSafety(d0, lines, 0)) \in Int
            BY SupplyTypes DEF Positive
        <3>4. s.atp + w <= avail
            BY <1>9, <2>4
        <3> QED
            BY <1>4, <1>8, <1>10, <2>1, <2>2, <2>3, <3>2, <3>3, <3>4 DEF avail
    <2>5. CASE ~(d0 <= d) \/ w = 0
        BY <2>1, <2>2, <2>3, <2>5
    <2> QED
        BY <2>4, <2>5
<1>19. t.lines = lines /\ t.plan = ActivePolicy /\ t.pool = AvailableThrough(HorizonEnd(h), lines, 0)
    BY <1>10 DEF Promises
<1>20. Promises(t, done \union {l}, lines, h)
    BY <1>1, <1>12, <1>13, <1>14, <1>16, <1>17, <1>18, <1>19 DEF Promises
<1> QED
    BY <1>20 DEF t

\* The state after each line is that of the lines before and the promise of this one.
LEMMA AfterLinesIs ==
    ASSUME NEW h, NEW N \in Nat, Len(Ranked(Candidates(h))) = N
    PROVE  /\ AfterLines(h)[0] = BeforeFirst(h)
           /\ \A n \in 1..N : AfterLines(h)[n] = Reallocate(AfterLines(h)[n - 1], Ranked(Candidates(h))[n])
<1> DEFINE ranked == Ranked(Candidates(h))
           Is(f, m) == f = [n \in 0..m |-> IF n = 0 THEN BeforeFirst(h) ELSE Reallocate(f[n - 1], ranked[n])]
           P == {m \in 0..N : \E f : Is(f, m)}
<1>1. 0 \in P
    <2> DEFINE f == [n \in 0..0 |-> BeforeFirst(h)]
    <2>1. f = [n \in 0..0 |-> IF n = 0 THEN BeforeFirst(h) ELSE Reallocate(f[n - 1], ranked[n])]
        OBVIOUS
    <2> HIDE DEF f
    <2> QED
        BY <2>1
<1>2. ASSUME NEW m \in 1..N, m - 1 \in P PROVE m \in P
    <2>1. PICK f : Is(f, m - 1)
        BY <1>2
    <2> DEFINE g == [n \in 0..m |-> IF n = m THEN Reallocate(f[m - 1], ranked[m]) ELSE f[n]]
    <2>2. \A n \in 0..(m - 1) : f[n] = IF n = 0 THEN BeforeFirst(h) ELSE Reallocate(f[n - 1], ranked[n])
        BY <2>1
    <2>3. ASSUME NEW n \in 0..m
          PROVE  g[n] = IF n = 0 THEN BeforeFirst(h) ELSE Reallocate(g[n - 1], ranked[n])
        <3>1. CASE n = m
            <4>1. g[n] = Reallocate(f[m - 1], ranked[m]) /\ g[n - 1] = f[m - 1] /\ n # 0
                BY <3>1
            <4> HIDE DEF g
            <4> QED
                BY <3>1, <4>1
        <3>2. CASE n # m /\ n = 0
            BY <2>2, <3>2
        <3>3. CASE n # m /\ n # 0
            <4>1. g[n] = f[n] /\ g[n - 1] = f[n - 1] /\ n \in 0..(m - 1)
                BY <3>3
            <4> HIDE DEF g
            <4> QED
                BY <2>2, <3>3, <4>1
        <3> QED
            BY <3>1, <3>2, <3>3
    <2>4. g = [n \in 0..m |-> g[n]]
        OBVIOUS
    <2> HIDE DEF g
    <2>5. Is(g, m)
        BY <2>3, <2>4
    <2> QED
        BY <2>5
<1>3. \E f : Is(f, N)
    <2>1. 0..N \subseteq P
        <3> HIDE DEF P
        <3> QED
            BY <1>1, <1>2, NumbersInduct
    <2> QED
        BY <2>1
<1>4. AfterLines(h) = CHOOSE f : Is(f, N)
    BY DEF AfterLines
<1> HIDE DEF Is
<1>5. Is(AfterLines(h), N)
    BY <1>3, <1>4
<1> QED
    BY <1>5 DEF Is

LEMMA CandidatesRanked ==
    ASSUME PlanTypeOK, NEW h
    PROVE  /\ Cardinality(Candidates(h)) \in Nat
           /\ Len(Ranked(Candidates(h))) = Cardinality(Candidates(h))
           /\ Ranked(Candidates(h)) \in [1..Cardinality(Candidates(h)) -> Candidates(h)]
           /\ \A i, j \in 1..Cardinality(Candidates(h)) :
                 Ranked(Candidates(h))[i] = Ranked(Candidates(h))[j] => i = j
           /\ \A l \in Candidates(h) : \E i \in 1..Cardinality(Candidates(h)) : Ranked(Candidates(h))[i] = l
<1> DEFINE C == Candidates(h)
           before == {x \in C \X C : Before(x[1], x[2])}
<1>1. C \subseteq Lines
    BY DEF Candidates
<1> HIDE DEF C
<1>2. IsFiniteSet(C)
    BY <1>1, SalesOrdersAssumption, FS_Subset
<1>3. \A l, m \in C : <<l, m>> \in before <=> Before(l, m)
    OBVIOUS
<1>4. /\ \A l \in C : <<l, l>> \notin before
      /\ \A l, m, k \in C : <<l, m>> \in before /\ <<m, k>> \in before => <<l, k>> \in before
      /\ \A l, m \in C : l # m => <<l, m>> \in before \/ <<m, l>> \in before
    <2> HIDE DEF before
    <2> QED
        BY <1>1, <1>3, RankIsOrder
<1>5. Ranked(C) = Queue(C, before)
    BY DEF Ranked
<1> HIDE DEF before
<1>6. /\ Cardinality(C) \in Nat
      /\ Queue(C, before) \in [1..Cardinality(C) -> C]
      /\ \A i, j \in 1..Cardinality(C) : Queue(C, before)[i] = Queue(C, before)[j] => i = j
      /\ \A l \in C : \E i \in 1..Cardinality(C) : Queue(C, before)[i] = l
    BY <1>2, <1>4, QueueIsOrder
<1>7. Len(Ranked(C)) = Cardinality(C)
    <2> DEFINE q == Ranked(C)
               n == Cardinality(C)
    <2>1. q \in [1..n -> C] /\ n \in Nat
        BY <1>5, <1>6
    <2> HIDE DEF q, n
    <2>2. q \in Seq(C) /\ Len(q) = n
        BY <2>1
    <2> QED
        BY <2>2 DEF q, n
<1> QED
    BY <1>5, <1>6, <1>7 DEF C

\* What is calculated for all open demand fits the supply it is calculated on.
LEMMA CalculatedFits ==
    ASSUME PlanTypeOK, NEW r, r.horizon \in Horizons, r.result = BackordersOf(r.horizon), r.plan = ActivePolicy
    PROVE  FitsSupply(r)
<1> DEFINE h == r.horizon
           C == Candidates(h)
           N == Cardinality(C)
           ranked == Ranked(C)
           done(n) == {ranked[i] : i \in 1..n}
           state == AfterLines(h)
           P == {n \in 0..N : Promises(state[n], done(n), C, h)}
<1>1. /\ N \in Nat /\ Len(ranked) = N /\ ranked \in [1..N -> C]
      /\ \A i, j \in 1..N : ranked[i] = ranked[j] => i = j
      /\ \A l \in C : \E i \in 1..N : ranked[i] = l
    BY CandidatesRanked
<1>2. /\ state[0] = BeforeFirst(h)
      /\ \A n \in 1..N : state[n] = Reallocate(state[n - 1], ranked[n])
    <2> HIDE DEF h, N
    <2> QED
        BY <1>1, AfterLinesIs
<1>3. C \subseteq Lines
    BY DEF Candidates
<1>4. r.result = state[N].result
    BY DEF BackordersOf
<1> HIDE DEF C, ranked, state, h
<1>5. 0 \in P
    <2> DEFINE s == BeforeFirst(h)
    <2>1. /\ IsState(s) /\ s.lines = C /\ s.plan = ActivePolicy /\ s.pool = AvailableThrough(HorizonEnd(h), C, 0)
          /\ s.atp = 0 /\ s.given = [k \in Classes |-> 0] /\ s.result = <<>>
        BY DEF BeforeFirst, IsState, C
    <2>2. DOMAIN s.result = {}
        BY <2>1
    <2>3. done(0) = {}
        OBVIOUS
    <2> HIDE DEF s
    <2>4. \A d : ATPBy(s.result, d) = 0
        <3> TAKE d
        <3> DEFINE S == {l \in DOMAIN s.result : s.result[l].atpDate <= d}
        <3>1. S = {}
            BY <2>2
        <3>2. ATPBy(s.result, d) = SumFunctionOnSet(ATP(s.result), S)
            BY DEF ATPBy
        <3> HIDE DEF S
        <3> QED
            BY <3>1, <3>2, FS_EmptySet, SumFirst
    <2>5. \A k : ATPOfClass(s.result, k) = 0
        <3> TAKE k
        <3> DEFINE S == {l \in DOMAIN s.result : class[CustomerOf[OrderOf[l]]] = k}
        <3>1. S = {}
            BY <2>2
        <3>2. ATPOfClass(s.result, k) = SumFunctionOnSet(ATP(s.result), S)
            BY DEF ATPOfClass
        <3> HIDE DEF S
        <3> QED
            BY <3>1, <3>2, FS_EmptySet, SumFirst
    <2>6. \A d \in Days : 0 <= MostBy(d, C)
        <3> TAKE d \in Days
        <3>1. 1 \in 1..d
            BY OrderPromisingAssumption DEF Days
        <3>2. Positive(BeforeSafety(1, C, 0)) <= MostBy(d, C) /\ MostBy(d, C) \in Int
            BY <3>1, MostIsMost
        <3>3. Positive(BeforeSafety(1, C, 0)) \in Nat
            BY SupplyTypes DEF Positive
        <3> QED
            BY <3>2, <3>3
    <2>7. s.plan # None => \A k \in Classes : s.given[k] * 100 <= s.pool * ShareOf(s.plan, k)
        <3> SUFFICES ASSUME s.plan # None, NEW k \in Classes PROVE s.given[k] * 100 <= s.pool * ShareOf(s.plan, k)
            OBVIOUS
        <3>1. s.plan \in Plans
            BY <2>1, PolicyType
        <3>2. ShareOf(s.plan, k) \in Nat
            BY <3>1, BackordersAssumption DEF ShareOf
        <3>3. s.pool \in Nat /\ s.given[k] = 0
            BY <2>1, AvailableTypes
        <3>4. s.pool * ShareOf(s.plan, k) \in Nat
            BY <3>2, <3>3
        <3> QED
            BY <3>3, <3>4
    <2>8. Promises(s, {}, C, h)
        BY <2>1, <2>2, <2>4, <2>5, <2>6, <2>7 DEF Promises
    <2>9. state[0] = s /\ 0 \in 0..N
        BY <1>1, <1>2 DEF s
    <2> HIDE DEF done, N
    <2>10. Promises(state[0], done(0), C, h)
        BY <2>3, <2>8, <2>9
    <2> QED
        BY <2>9, <2>10
<1>6. ASSUME NEW n \in 1..N, n - 1 \in P PROVE n \in P
    <2>1. Promises(state[n - 1], done(n - 1), C, h)
        BY <1>6
    <2>2. done(n - 1) \subseteq C /\ ranked[n] \in C \ done(n - 1) /\ done(n) = done(n - 1) \union {ranked[n]}
        <3>1. N \in Nat /\ n \in 1..N
            BY <1>1
        <3>2. \A i \in 1..(n - 1) : i \in 1..N /\ i # n /\ i \in 1..n
            BY <3>1
        <3>3. \A i \in 1..n : i \in 1..(n - 1) \/ i = n
            BY <3>1
        <3>4. n \in 1..n
            BY <3>1
        <3> HIDE DEF N
        <3> QED
            BY <1>1, <3>2, <3>3, <3>4
    <2> HIDE DEF done
    <2>3. Promises(Reallocate(state[n - 1], ranked[n]), done(n - 1) \union {ranked[n]}, C, h)
        BY <1>3, <2>1, <2>2, NextLine
    <2>4. state[n] = Reallocate(state[n - 1], ranked[n]) /\ n \in 0..N
        BY <1>1, <1>2
    <2> HIDE DEF N
    <2>5. Promises(state[n], done(n), C, h)
        BY <2>2, <2>3, <2>4
    <2> QED
        BY <2>4, <2>5
<1>7. Promises(state[N], C, C, h)
    <2>1. 0..N \subseteq P
        <3> HIDE DEF P, N
        <3> QED
            BY <1>1, <1>5, <1>6, NumbersInduct
    <2>2. N \in P /\ done(N) = C
        <3> HIDE DEF N, P
        <3> QED
            BY <1>1, <2>1
    <2> QED
        BY <2>2
<1> HIDE DEF N
<1>8. /\ DOMAIN r.result = C
      /\ \A d \in Days : ATPBy(r.result, d) <= MostBy(d, C)
      /\ r.plan # None => \A k \in Classes : ATPOfClass(r.result, k) * 100 <= state[N].pool * ShareOf(r.plan, k)
      /\ state[N].pool = AvailableThrough(HorizonEnd(h), C, 0)
    BY <1>4, <1>7 DEF Promises
<1>9. ASSUME r.plan # None
      PROVE  \E t \in 1..today : \A k \in Classes :
                ATPOfClass(r.result, k) * 100 <= Positive(BeforeSafety(t + h - 1, C, 0)) * ShareOf(r.plan, k)
    <2> DEFINE a == AvailableThrough(HorizonEnd(h), C, 0)
               b == Positive(BeforeSafety(today + h - 1, C, 0))
    <2>1. today \in 1..today
        BY OrderPromisingAssumption DEF PlanTypeOK, Days
    <2>2. a \in Nat /\ b \in Nat /\ a <= b
        BY AvailableTypes, SupplyTypes DEF HorizonEnd, Positive
    <2>3. ASSUME NEW k \in Classes PROVE ATPOfClass(r.result, k) * 100 <= b * ShareOf(r.plan, k)
        <3> DEFINE q == ShareOf(r.plan, k)
                   x == ATPOfClass(r.result, k) * 100
        <3>1. r.plan \in Plans
            BY <1>9, PolicyType
        <3>2. q \in Nat
            BY <3>1, BackordersAssumption DEF ShareOf
        <3>3. x <= a * q
            BY <1>8, <1>9
        <3>4. x \in Int
            BY <1>7, <1>4 DEF Promises
        <3> HIDE DEF q, x, a, b
        <3>5. a * q <= b * q /\ a * q \in Int /\ b * q \in Int
            BY <2>2, <3>2
        <3>6. x <= b * q
            BY <3>3, <3>4, <3>5
        <3> QED
            BY <3>6 DEF q, x
    <2> HIDE DEF b
    <2>4. \A k \in Classes : ATPOfClass(r.result, k) * 100 <= b * ShareOf(r.plan, k)
        BY <2>3
    <2> QED
        BY <2>1, <2>4 DEF b
<1> QED
    BY <1>8, <1>9 DEF FitsSupply, ShareOf, h

-----------------------------------------------------------------------------
(* From the calculation under the locks to the publication nothing that it   *)
(* read changes: who would change it waits, or changes what was not counted. *)

PublicationInv ==
    /\ BackordersTypeOK /\ today \in Days /\ plant \in PlantStates
    /\ \A r \in Runs : run[r].kind = "BACKORDER" => run[r].horizon \in Horizons
    /\ \A p \in Planners : \A v :
           planner[p].doing = "PUBLISH" /\ v = run[planner[p].run] => FitsSupply(v)

\* A later day and another safety stock or maintenance plan take nothing away.
LEMMA FitsKeeps ==
    ASSUME UNCHANGED <<salesVars, class, promised>>, plant'.due = plant.due,
           today \in Days, today' \in Days, today <= today', NEW v, FitsSupply(v)
    PROVE  FitsSupply(v)'
<1>1. UNCHANGED <<order, line, sellable, reserved>>
    BY DEF salesVars
<1>2. \A d : SupplyThrough(d)' = SupplyThrough(d)
    BY DEF SupplyThrough
<1>3. \A d, excluded : Committed(d, excluded)' = Committed(d, excluded)
    BY <1>1 DEF Committed, Unallocated, OpenQty, DemandDate, HeaderDate, LinesOf
<1>4. \A d, lines : BeforeSafety(d, lines, 0)' = BeforeSafety(d, lines, 0)
    BY <1>1, <1>2, <1>3 DEF BeforeSafety, Reserved
<1>5. \A d, lines : MostBy(d, lines)' = MostBy(d, lines)
    BY <1>4 DEF MostBy
<1>6. \A k : ATPOfClass(v.result, k)' = ATPOfClass(v.result, k)
    BY DEF ATPOfClass
<1>7. \A t \in 1..today : t \in 1..today'
    BY OrderPromisingAssumption DEF Days
<1>8. \A d \in Days : ATPBy(v.result, d) <= MostBy(d, DOMAIN v.result)'
    BY <1>5 DEF FitsSupply
<1>9. ASSUME v.plan # None
      PROVE  \E t \in 1..today' : \A c \in Classes :
                ATPOfClass(v.result, c)' * 100 <= Positive(BeforeSafety(t + v.horizon - 1, DOMAIN v.result, 0)')
                    * (IF c \in DOMAIN Share[v.plan] THEN Share[v.plan][c] ELSE 0)
    <2>1. PICK t \in 1..today : \A c \in Classes :
                ATPOfClass(v.result, c) * 100 <= Positive(BeforeSafety(t + v.horizon - 1, DOMAIN v.result, 0))
                    * (IF c \in DOMAIN Share[v.plan] THEN Share[v.plan][c] ELSE 0)
        BY <1>9 DEF FitsSupply
    <2> QED
        BY <2>1, <1>4, <1>6, <1>7
<1> QED
    BY <1>8, <1>9 DEF FitsSupply

LEMMA PublicationStep ==
    ASSUME PublicationInv, DecisionsInv, SalesTypeOK, [CustomerNext]_customerVars
    PROVE  PublicationInv'
<1> DEFINE Publishing(p) == planner[p].doing = "PUBLISH"
           Old(p) == planner'[p].doing = "PUBLISH" =>
                        Publishing(p) /\ planner'[p].run = planner[p].run /\ run'[planner[p].run] = run[planner[p].run]
           Quiet == /\ UNCHANGED <<salesVars, class, promised>> /\ plant'.due = plant.due
                    /\ today' \in Days /\ today <= today'
\* What a step may do to what a publication rests on.
<1>1. ASSUME BackordersTypeOK', today' \in Days, plant' \in PlantStates,
             \A r \in Runs : run'[r].kind = "BACKORDER" => run'[r].horizon \in Horizons,
             \A p \in Planners : planner'[p].doing = "PUBLISH" => Quiet /\ Old(p)
      PROVE  PublicationInv'
    <2>1. ASSUME NEW p \in Planners, NEW v, planner'[p].doing = "PUBLISH", v = run'[planner'[p].run]
          PROVE  FitsSupply(v)'
        <3>1. Quiet /\ Old(p)
            BY <1>1, <2>1
        <3>2. v = run[planner[p].run] /\ Publishing(p)
            BY <2>1, <3>1
        <3>3. FitsSupply(v)
            BY <3>2 DEF PublicationInv
        <3> QED
            BY <3>1, <3>3, FitsKeeps DEF PublicationInv
    <2> QED
        BY <1>1, <2>1 DEF PublicationInv
<1>2. ASSUME UNCHANGED <<policyVars, today, plant, run>> 
      PROVE  /\ BackordersTypeOK' /\ today' \in Days /\ plant' \in PlantStates
             /\ \A r \in Runs : run'[r].kind = "BACKORDER" => run'[r].horizon \in Horizons
    BY <1>2 DEF PublicationInv, policyVars, BackordersTypeOK
<1>3. today \in Int
    BY OrderPromisingAssumption DEF PublicationInv, Days
<1>4. CASE UNCHANGED customerVars
    <2>1. UNCHANGED <<policyVars, today, plant, run, planner, salesVars, class, promised>>
        BY <1>4 DEF customerVars, planVars, policyVars
    <2>2. Quiet /\ \A p \in Planners : Old(p)
        BY <2>1, <1>3 DEF PublicationInv
    <2> QED
        BY <1>1, <1>2, <2>1, <2>2
<1>5. CASE SalesStep
    <2>1. UNCHANGED <<policyVars, today, plant, run, planner>> /\ ~Frozen
        BY <1>5 DEF SalesStep, planVars
    <2>2. \A p \in Planners : planner'[p].doing # "PUBLISH"
        BY <2>1 DEF Frozen
    <2> QED
        BY <1>1, <1>2, <2>1, <2>2
<1>6. CASE PolicyStep
    <2>1. UNCHANGED <<today, plant, run, planner>> /\ ~Frozen
        BY <1>6 DEF PolicyStep, SetCustomerServiceClass, SetSalesOrderPriority, CreatePlan, ActivatePlan,
                    DeactivatePlan, MovePlan, planVars
    <2>2. \A p \in Planners : planner'[p].doing # "PUBLISH"
        BY <2>1 DEF Frozen
    <2>3. BackordersTypeOK'
        <3>1. ASSUME NEW c \in Customers, NEW k \in Classes, SetCustomerServiceClass(c, k) PROVE BackordersTypeOK'
            BY <3>1 DEF SetCustomerServiceClass, PublicationInv, BackordersTypeOK
        <3>2. ASSUME NEW o \in Orders, NEW k \in 1..3, SetSalesOrderPriority(o, Priorities[k])
              PROVE  BackordersTypeOK'
            <4>1. UNCHANGED <<class, allocation>> /\ priority' = [priority EXCEPT ![o] = Priorities[k]]
                BY <3>2 DEF SetSalesOrderPriority
            <4>2. k \in DOMAIN Priorities
                BY DEF Priorities
            <4>3. \A q \in Orders : priority'[q] = Priorities[k] \/ priority'[q] = priority[q]
                BY <4>1
            <4>4. \A q \in Orders : \E n \in DOMAIN Priorities : priority'[q] = Priorities[n]
                BY <4>2, <4>3 DEF PublicationInv, BackordersTypeOK
            <4> QED
                BY <4>1, <4>4 DEF PublicationInv, BackordersTypeOK
        <3>3. ASSUME NEW a \in Plans, CreatePlan(a) \/ ActivatePlan(a) \/ DeactivatePlan(a) PROVE BackordersTypeOK'
            BY <3>3 DEF CreatePlan, ActivatePlan, DeactivatePlan, MovePlan, PublicationInv, BackordersTypeOK, PlanStatus
        <3> QED
            BY <1>6, <3>1, <3>2, <3>3 DEF PolicyStep
    <2>4. \A r \in Runs : run'[r].kind = "BACKORDER" => run'[r].horizon \in Horizons
        BY <2>1 DEF PublicationInv
    <2> QED
        BY <1>1, <2>1, <2>2, <2>3, <2>4 DEF PublicationInv
<1>7. CASE PlantStep
    <2>1. UNCHANGED <<salesVars, class, promised, run, planner, policyVars>>
        BY <1>7 DEF PlantStep, NextDay, Replan, policyVars
    <2>2. \A p \in Planners : Old(p)
        BY <2>1
    <2> DEFINE Later == /\ today' \in Days /\ today <= today' /\ plant' \in PlantStates
                        /\ Frozen => plant'.due = plant.due
    <2>3. Later
        <3>1. ASSUME NextDay PROVE Later
            BY <3>1, <1>3, OrderPromisingAssumption DEF NextDay, PublicationInv, Days
        <3>2. ASSUME NEW x \in Plants, Replan(x) PROVE Later
            <4>1. plant' = x /\ UNCHANGED today /\ x \in PlantStates
                BY <3>2, OrderPromisingAssumption DEF Replan
            <4>2. "due" \in DOMAIN plant \ {"safety", "free"}
                BY DEF PublicationInv, PlantStates
            <4>3. Frozen => x["due"] = plant["due"]
                BY <3>2, <4>2 DEF Replan
            <4> QED
                BY <4>1, <4>3, <1>3 DEF PublicationInv
        <3> HIDE DEF Later
        <3> QED
            BY <1>7, <3>1, <3>2 DEF PlantStep
    <2>4. BackordersTypeOK' /\ \A r \in Runs : run'[r].kind = "BACKORDER" => run'[r].horizon \in Horizons
        BY <2>1 DEF PublicationInv, policyVars, BackordersTypeOK
    <2>5. \A p \in Planners : planner'[p].doing # "PUBLISH" \/ Frozen
        BY <2>1 DEF Frozen
    <2> QED
        BY <1>1, <2>1, <2>2, <2>3, <2>4, <2>5
<1>8. ASSUME NEW r \in Runs, NEW o \in Orders, NEW h \in Horizons, Check(r, o, h), UNCHANGED policyVars
      PROVE  PublicationInv'
    <2>1. /\ UNCHANGED <<salesVars, today, plant, promised, planner, policyVars>> /\ run[r].kind = "NONE"
          /\ \A q \in Runs : q # r => run'[q] = run[q]
          /\ run'[r].kind # "BACKORDER"
        BY <1>8 DEF Check, NoRun, DecisionsInv
    <2>2. \A p \in Planners : Old(p)
        BY <2>1 DEF DecisionsInv, Stored
    <2>3. \A q \in Runs : run'[q].kind = "BACKORDER" => run'[q].horizon \in Horizons
        BY <2>1 DEF PublicationInv
    <2>4. BackordersTypeOK' /\ Quiet /\ plant' \in PlantStates
        BY <2>1, <1>3 DEF PublicationInv, policyVars, BackordersTypeOK
    <2> QED
        BY <1>1, <2>2, <2>3, <2>4
<1>9. ASSUME NEW r \in Runs, NEW h \in Horizons, Preview(r, h) PROVE PublicationInv'
    <2>1. /\ UNCHANGED <<salesVars, today, plant, promised, planner, policyVars>> /\ run[r].kind = "NONE"
          /\ \A q \in Runs : q # r => run'[q] = run[q]
          /\ run'[r].horizon = h
        BY <1>9 DEF Preview, NoRun, DecisionsInv
    <2>2. \A p \in Planners : Old(p)
        BY <2>1 DEF DecisionsInv, Stored
    <2>3. \A q \in Runs : run'[q].kind = "BACKORDER" => run'[q].horizon \in Horizons
        BY <2>1 DEF PublicationInv
    <2>4. BackordersTypeOK' /\ Quiet /\ plant' \in PlantStates
        BY <2>1, <1>3 DEF PublicationInv, policyVars, BackordersTypeOK
    <2> QED
        BY <1>1, <2>2, <2>3, <2>4
<1>10. ASSUME NEW p \in Planners, (\E r \in Runs : Reconsider(p, r)) \/ GiveUp(p), UNCHANGED policyVars
       PROVE  PublicationInv'
    <2>1. /\ UNCHANGED <<salesVars, today, plant, promised, run, policyVars>>
          /\ \A q \in Planners : planner'[q] = planner[q] \/ planner'[q].doing # "PUBLISH"
        BY <1>10 DEF Reconsider, GiveUp, Resting, DecisionsInv
    <2>2. Quiet /\ \A q \in Planners : planner'[q].doing # "PUBLISH" \/ Old(q)
        BY <2>1, <1>3 DEF PublicationInv, policyVars
    <2> QED
        BY <1>1, <1>2, <2>1, <2>2
<1>11. ASSUME NEW p \in Planners, ~Frozen, Accept(p), UNCHANGED policyVars PROVE PublicationInv'
    <2>1. UNCHANGED <<today, plant, run, policyVars>> /\ \A q \in Planners : planner'[q].doing # "PUBLISH"
        BY <1>11 DEF Accept, Resting, Frozen, DecisionsInv
    <2> QED
        BY <1>1, <1>2, <2>1
<1>12. ASSUME NEW p \in Planners, Publish(p) PROVE PublicationInv'
    <2>1. UNCHANGED <<today, plant, run, policyVars>> /\ \A q \in Planners : planner'[q].doing # "PUBLISH"
        BY <1>12 DEF Publish, Resting, DecisionsInv
    <2> QED
        BY <1>1, <1>2, <2>1
<1>13. ASSUME NEW p \in Planners, NEW r \in Runs, BeginPublish(p, r) PROVE PublicationInv'
    <2>1. /\ UNCHANGED <<salesVars, today, plant, promised, run, policyVars>>
          /\ run[r].kind = "BACKORDER" /\ StillTheResult(r)
          /\ planner' = [planner EXCEPT ![p] = [doing |-> "PUBLISH", run |-> r]]
        BY <1>13 DEF BeginPublish
    <2>2. Quiet
        BY <2>1, <1>3 DEF PublicationInv, policyVars
    <2>3. ASSUME NEW v, v = run[r] PROVE FitsSupply(v)
        <3>1. v.horizon \in Horizons /\ v.result = BackordersOf(v.horizon) /\ v.plan = ActivePolicy
            BY <2>1, <2>3 DEF StillTheResult, PublicationInv
        <3>2. PlanTypeOK
            BY DEF PlanTypeOK, PublicationInv
        <3> QED
            BY <3>1, <3>2, CalculatedFits
    <2>4. ASSUME NEW q \in Planners, NEW v, planner'[q].doing = "PUBLISH", v = run'[planner'[q].run]
          PROVE  FitsSupply(v)'
        <3>1. FitsSupply(v)
            <4>1. CASE q = p
                BY <2>1, <2>3, <2>4, <4>1 DEF DecisionsInv
            <4>2. CASE q # p
                BY <2>1, <2>4, <4>2 DEF PublicationInv
            <4> QED
                BY <4>1, <4>2
        <3> QED
            BY <2>2, <3>1, FitsKeeps DEF PublicationInv
    <2> QED
        BY <1>2, <2>1, <2>4 DEF PublicationInv
<1>14. CASE PromisingStep
    BY <1>8, <1>10, <1>11, <1>14 DEF PromisingStep
<1>15. CASE BackorderStep
    BY <1>9, <1>12, <1>13, <1>15 DEF BackorderStep
<1> QED
    BY <1>4, <1>5, <1>6, <1>7, <1>14, <1>15 DEF CustomerNext

\* A publication promises no more from stock and supply than there is, and no class more than its share,
\* for every number of orders, lines, planners and plans and whatever changes between the calculation and
\* the dates being written (Publish, calculate, AvailableThrough).
THEOREM PublicationsFit == CustomerSpec => PublishedFitsSupply
<1>1. CustomerInit => PublicationInv
    <2> SUFFICES ASSUME CustomerInit PROVE PublicationInv
        OBVIOUS
    <2>1. /\ run = [r \in Runs |-> NoRun] /\ planner = [p \in Planners |-> Resting]
          /\ today = 1 /\ plant \in Plants
        BY DEF CustomerInit, PromisingInit
    <2>2. today \in Days /\ plant \in PlantStates
        BY <2>1, OrderPromisingAssumption DEF Days
    <2>3. BackordersTypeOK
        <3>1. priority = [o \in Orders |-> "NORMAL"] /\ Priorities[3] = "NORMAL" /\ 3 \in DOMAIN Priorities
            BY DEF CustomerInit, BackordersInit, Priorities
        <3>2. class \in [Customers -> Classes] /\ allocation \in [Plans -> PlanStatus]
            BY DEF CustomerInit, BackordersInit, PlanStatus
        <3> QED
            BY <3>1, <3>2 DEF BackordersTypeOK
    <2>4. /\ \A r \in Runs : run[r].kind # "BACKORDER"
          /\ \A p \in Planners : planner[p].doing # "PUBLISH"
        BY <2>1 DEF NoRun, Resting
    <2> QED
        BY <2>2, <2>3, <2>4 DEF PublicationInv
<1>2. PublicationInv /\ DecisionsInv /\ SalesTypeOK /\ [CustomerNext]_customerVars => PublicationInv'
    BY PublicationStep
<1>3. PublicationInv => \A p \in Planners : Publish(p) => FitsSupply(run[planner[p].run])
    BY DEF PublicationInv, Publish
<1>4. PublicationInv /\ [CustomerNext]_customerVars
      => [\A p \in Planners : Publish(p) => FitsSupply(run[planner[p].run])]_customerVars
    BY <1>3
<1>5. CustomerSpec => []PublicationInv
    BY <1>1, <1>2, DecisionsInductive, OrdersTrade, SalesTypeCorrect, PTL DEF CustomerSpec
<1> QED
    BY <1>4, <1>5, PTL DEF CustomerSpec, PublishedFitsSupply

=============================================================================
