----------------------------- MODULE Commitments -----------------------------
(***************************************************************************)
(* What releasing and completing work orders promises about stock, without *)
(* lots, batches, operations or bills of materials: units are free or      *)
(* promised to an order, an order is promised everything it needs at once  *)
(* or nothing, and what it uses comes out of its own promise.  The steps   *)
(* are relations between two states, with no bound on the amounts moved.   *)
(* Production implements it.                                               *)
(***************************************************************************)
EXTENDS Integers

CONSTANTS
    Orders,
    Items

VARIABLES
    free,      \* units nobody is promised, by item
    promised,  \* units set aside for an order and not yet used, by order and item
    used       \* units an order has used

commitVars == <<free, promised, used>>

Amounts == [Items -> Nat]

Nothing == [i \in Items |-> 0]

Uncommitted(w) == promised[w] = Nothing /\ used[w] = Nothing

\* Only order w's share of what f records may change, and not below nothing.
OnlyOrder(w, f, fNext) ==
    /\ fNext = [f EXCEPT ![w] = fNext[w]]
    /\ fNext[w] \in Amounts

CommitInit ==
    /\ free = Nothing
    /\ promised = [w \in Orders |-> Nothing]
    /\ used = [w \in Orders |-> Nothing]

\* Units arrive, from a supplier or as what an order yields.
Gained == free' \in Amounts /\ \A i \in Items : free'[i] >= free[i]

Supply == Gained /\ UNCHANGED <<promised, used>>

\* All that w will ever be promised, out of what is free.
Promise(w) ==
    /\ Uncommitted(w)
    /\ OnlyOrder(w, promised, promised')
    /\ free' \in Amounts
    /\ \A i \in Items : free'[i] = free[i] - promised'[w][i]
    /\ UNCHANGED used

\* Part of w's promise is used; what that yields is free.
Fulfil(w) ==
    /\ OnlyOrder(w, promised, promised')
    /\ OnlyOrder(w, used, used')
    /\ \A i \in Items :
           /\ promised'[w][i] <= promised[w][i]
           /\ promised'[w][i] + used'[w][i] = promised[w][i] + used[w][i]
    /\ Gained

CommitNext == Supply \/ \E w \in Orders : Promise(w) \/ Fulfil(w)

CommitSpec == CommitInit /\ [][CommitNext]_commitVars

-----------------------------------------------------------------------------
\* Nothing is promised twice: neither what is free nor what is promised ever
\* falls below nothing, so all promises can be kept together.
NeverOverPromised ==
    /\ free \in Amounts
    /\ promised \in [Orders -> Amounts]
    /\ used \in [Orders -> Amounts]

\* Once made, a promise is neither topped up nor cut: what an order still holds
\* and what it has used add up to the same amount in every later state.
FixedFor(w) ==
    ~Uncommitted(w) =>
        \A i \in Items : promised'[w][i] + used'[w][i] = promised[w][i] + used[w][i]

PromiseIsFixed == [][\A w \in Orders : FixedFor(w)]_commitVars
=============================================================================
