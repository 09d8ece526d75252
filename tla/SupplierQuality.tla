-------------------------- MODULE SupplierQuality --------------------------
(***************************************************************************)
(* What may happen to a supplier's lot between its delivery and its use:    *)
(* inspections, nonconformance reports (NCRs) opened by hand or by a FAIL,  *)
(* the one disposition each NCR gets, and the lot's quality status, which   *)
(* the issues of the ledger obey.                                          *)
(*                                                                         *)
(* Inspections, NCR creation and the physical dispositions lock the lot     *)
(* before they look at anything of it and are one action each.  USE_AS_IS   *)
(* locks its NCR, looks for other NCRs of the lot, and locks the lot only    *)
(* to set it OK: it is two actions, with the NCR locked from the first.     *)
(***************************************************************************)
EXTENDS Integers, FiniteSetsExt

CONSTANTS
    Lots,          \* lots with a supplier
    NCRs,          \* ids of supplier_ncrs
    MaxDelivered   \* bound: the quantity ever delivered into a lot

ASSUME SupplierQualityAssumption == MaxDelivered \in Nat

VARIABLES
    quality,     \* lots.quality_status
    delivered,   \* lots.quantity
    onHand,      \* the sum of the lot's movements
    used,        \* of that, what was issued
    ncr,         \* supplier_ncrs joined with supplier_ncr_dispositions
    deciding,    \* the NCRs whose USE_AS_IS has seen no other active NCR
    known        \* history, by NCR: what was reported on its lot when it saw that

vars == <<quality, delivered, onHand, used, ncr, deciding, known>>

Quality == {"OK", "HOLD", "REJECTED"}
InspectionResult == {"PASS", "FAIL", "HOLD"}
Physical == {"RETURN_TO_SUPPLIER", "SCRAP"}

\* An NCR that was never created has no lot; passed is whether its lot passed
\* an inspection after its disposition.
NoNCR == [status |-> "NONE"]
NCR == [status : {"OPEN", "IN_REWORK", "CLOSED"}, lot : Lots, affected : Nat,
        disposition : Physical \union {"NONE", "REWORK", "USE_AS_IS"},
        qty : Nat, passed : BOOLEAN]

TypeOK ==
    /\ quality \in [Lots -> Quality]
    /\ delivered \in [Lots -> Nat]
    /\ onHand \in [Lots -> Nat]
    /\ used \in [Lots -> Nat]
    /\ ncr \in [NCRs -> NCR \union {NoNCR}]
    /\ deciding \subseteq {n \in NCRs : ncr[n].status = "OPEN"}
    /\ known \in [NCRs -> SUBSET NCRs]

\* A lot exists from its first delivery on, which was under inspection or not.
Init ==
    /\ quality \in [Lots -> {"OK", "HOLD"}]
    /\ delivered \in [Lots -> 1..MaxDelivered]
    /\ onHand = delivered
    /\ used = [l \in Lots |-> 0]
    /\ ncr = [n \in NCRs |-> NoNCR]
    /\ deciding = {}
    /\ known = [n \in NCRs |-> {}]

-----------------------------------------------------------------------------
Against(l) == {n \in NCRs : ncr[n] # NoNCR /\ ncr[n].lot = l}
Open(l) == {n \in Against(l) : ncr[n].status = "OPEN"}
Active(l) == {n \in Against(l) : ncr[n].status \in {"OPEN", "IN_REWORK"}}

\* mutant: the NCR row is read without a lock
OpenForAnyone(n) == ncr[n].status = "OPEN"

\* The disposition transaction of n has the row to itself.
Undecided(n) == ncr[n].status = "OPEN" /\ n \notin deciding

NewNCR(l, affected) ==
    [status |-> "OPEN", lot |-> l, affected |-> affected,
     disposition |-> "NONE", qty |-> 0, passed |-> FALSE]

DecidedAs(n, status, d, q) == [ncr[n] EXCEPT !.status = status, !.disposition = d, !.qty = q]

WithinAffected(n, q) == ncr[n].affected > 0 => q <= ncr[n].affected

\* mutant: PASS releases whatever is open
ReleasedByPass(l, result) ==
    CASE result = "PASS" -> "OK" [] result = "FAIL" -> "REJECTED" [] result = "HOLD" -> "HOLD"

\* quality_inspection_before_insert: PASS does not release a lot with an OPEN NCR.
ResultingStatus(l, result) ==
    CASE result = "PASS" -> IF Open(l) = {} THEN "OK" ELSE "HOLD"
      [] result = "FAIL" -> "REJECTED"
      [] result = "HOLD" -> "HOLD"

-----------------------------------------------------------------------------
(* The lot *)

\* A further delivery, under incoming inspection or not.
Deliver(l, q, inspect) ==
    /\ delivered[l] + q <= MaxDelivered
    /\ delivered' = [delivered EXCEPT ![l] = @ + q]
    /\ onHand' = [onHand EXCEPT ![l] = @ + q]
    /\ quality' = [quality EXCEPT ![l] = IF inspect /\ @ = "OK" THEN "HOLD" ELSE @]
    /\ UNCHANGED <<used, ncr, deciding, known>>

\* The ledger issues from OK lots only.
Issue(l, q) ==
    /\ quality[l] = "OK"
    /\ q <= onHand[l]
    /\ onHand' = [onHand EXCEPT ![l] = @ - q]
    /\ used' = [used EXCEPT ![l] = @ + q]
    /\ UNCHANGED <<quality, delivered, ncr, deciding, known>>

\* The NCRs in rework take note of a PASS on their lot.
NotingPass(l, result) ==
    [n \in NCRs |-> IF n \in Against(l) /\ ncr[n].status = "IN_REWORK" /\ result = "PASS"
                    THEN [ncr[n] EXCEPT !.passed = TRUE] ELSE ncr[n]]

\* A FAIL opens an NCR for the defects found, or for all that is on hand.
Inspect(l, result, defects) ==
    /\ defects <= delivered[l]
    /\ quality' = [quality EXCEPT ![l] = ResultingStatus(l, result)]
    /\ IF result = "FAIL"
       THEN \E n \in NCRs :
                /\ ncr[n] = NoNCR
                /\ ncr' = [ncr EXCEPT ![n] =
                        NewNCR(l, IF defects > 0 THEN defects ELSE onHand[l])]
       ELSE ncr' = NotingPass(l, result)
    /\ UNCHANGED <<delivered, onHand, used, deciding, known>>

-----------------------------------------------------------------------------
(* Nonconformance reports *)

CreateNCR(n, l, affected) ==
    /\ ncr[n] = NoNCR
    /\ ncr' = [ncr EXCEPT ![n] = NewNCR(l, affected)]
    /\ quality' = [quality EXCEPT ![l] = IF @ = "OK" THEN "HOLD" ELSE @]
    /\ UNCHANGED <<delivered, onHand, used, deciding, known>>

\* mutant: returning the goods leaves them in stock
CloseOnly(n, d, q) ==
    /\ Undecided(n)
    /\ WithinAffected(n, q) /\ q <= onHand[ncr[n].lot]
    /\ ncr' = [ncr EXCEPT ![n] = DecidedAs(n, "CLOSED", d, q)]
    /\ UNCHANGED <<quality, delivered, onHand, used, deciding, known>>

\* RETURN_TO_SUPPLIER and SCRAP take the goods out of the lot.
RemoveFromLot(n, d, q) ==
    /\ Undecided(n)
    /\ WithinAffected(n, q)
    /\ q <= onHand[ncr[n].lot]
    /\ onHand' = [onHand EXCEPT ![ncr[n].lot] = @ - q]
    /\ ncr' = [ncr EXCEPT ![n] = DecidedAs(n, "CLOSED", d, q)]
    /\ UNCHANGED <<quality, delivered, used, deciding, known>>

Rework(n, q) ==
    /\ Undecided(n)
    /\ WithinAffected(n, q)
    /\ quality' = [quality EXCEPT ![ncr[n].lot] = "HOLD"]
    /\ ncr' = [ncr EXCEPT ![n] = DecidedAs(n, "IN_REWORK", "REWORK", q)]
    /\ UNCHANGED <<delivered, onHand, used, deciding, known>>

CloseRework(n) ==
    /\ ncr[n].status = "IN_REWORK"
    /\ ncr[n].passed
    /\ ncr' = [ncr EXCEPT ![n].status = "CLOSED"]
    /\ UNCHANGED <<quality, delivered, onHand, used, deciding, known>>

\* mutant: reports in rework are forgotten
NoOtherOpen(n) == Open(ncr[n].lot) = {n}

NoOtherActive(n) == Active(ncr[n].lot) = {n}

\* USE_AS_IS, until its trigger has checked the other NCRs of the lot.
ConsiderUseAsIs(n) ==
    /\ Undecided(n)
    /\ NoOtherActive(n)
    /\ deciding' = deciding \union {n}
    /\ known' = [known EXCEPT ![n] = Against(ncr[n].lot)]
    /\ UNCHANGED <<quality, delivered, onHand, used, ncr>>

EndUseAsIs(n) ==
    /\ n \in deciding
    /\ deciding' = deciding \ {n}
    /\ known' = [known EXCEPT ![n] = {}]

\* And from there to its commit.
UseAsIs(n, q) ==
    /\ EndUseAsIs(n)
    /\ WithinAffected(n, q)
    /\ quality' = [quality EXCEPT ![ncr[n].lot] = "OK"]
    /\ ncr' = [ncr EXCEPT ![n] = DecidedAs(n, "CLOSED", "USE_AS_IS", q)]
    /\ UNCHANGED <<delivered, onHand, used>>

\* Or to its rollback: the quantity is too much for the report, or an insert fails.
GiveUpUseAsIs(n) ==
    /\ EndUseAsIs(n)
    /\ UNCHANGED <<quality, delivered, onHand, used, ncr>>

Quantities == 1..MaxDelivered

Disposition(n) ==
    \/ ConsiderUseAsIs(n) \/ GiveUpUseAsIs(n)
    \/ \E q \in Quantities :
            \/ \E d \in Physical : RemoveFromLot(n, d, q)
            \/ Rework(n, q)
            \/ UseAsIs(n, q)

Next ==
    \/ \E l \in Lots :
            \/ \E q \in Quantities : Issue(l, q) \/ \E b \in BOOLEAN : Deliver(l, q, b)
            \/ \E result \in InspectionResult, defects \in 0..MaxDelivered :
                    Inspect(l, result, defects)
            \/ \E n \in NCRs, affected \in 0..MaxDelivered : CreateNCR(n, l, affected)
    \/ \E n \in NCRs : Disposition(n) \/ CloseRework(n)

Spec == Init /\ [][Next]_vars

-----------------------------------------------------------------------------
Removed(l) ==
    SumFunctionOnSet([n \in NCRs |-> ncr[n].qty],
                     {n \in Against(l) : ncr[n].disposition \in Physical})

\* What was delivered is on hand, used, or went out with the one decision of
\* an NCR that covers it, however decisions, issues and deliveries interleave.
StockAccountsForDecisions ==
    \A l \in Lots : onHand[l] + used[l] + Removed(l) = delivered[l]

\* An NCR still to be resolved: nobody decided, or the rework was not passed.
Unresolved(l) ==
    {n \in Active(l) : ncr[n].status = "OPEN" \/ ~ncr[n].passed}

\* The USE_AS_IS of l that ends in a step.
Conceded(l) == (deciding \ deciding') \intersect Against(l)

\* A quarantined lot becomes usable only when no NCR on it is unresolved: one
\* PASS or one concession does not clear another report.  The one exception is
\* a report filed after the concession that releases the lot had checked for
\* others and before it committed.
ReleasedWhenClear ==
    [][\A l \in Lots : quality[l] # "OK" /\ quality'[l] = "OK" =>
         \A m \in Unresolved(l)' : \E n \in Conceded(l) : m \notin known[n]]_vars

KeepsDecision(n) ==
    ncr[n] # NoNCR =>
        /\ ncr'[n] # NoNCR
        /\ ncr[n].disposition # "NONE" =>
             ncr'[n].disposition = ncr[n].disposition /\ ncr'[n].qty = ncr[n].qty
        /\ ncr[n].status = "CLOSED" => ncr'[n].status = "CLOSED"

\* An NCR is decided once: whatever two planners do at the same time, neither
\* its disposition nor its quantity changes and a closed NCR stays closed.
DecidedOnce == [][\A n \in NCRs : KeepsDecision(n)]_vars
=============================================================================
