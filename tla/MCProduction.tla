---------------------------- MODULE MCProduction ----------------------------
(* One order makes two gears of one steel each; the other one car of one gear *)
(* and one steel, both of which the first order also touches.  A revision     *)
(* doubles the steel in a gear, before or after the release.                  *)
EXTENDS Production, TLC

CONSTANTS steel, gear, car, gears, cars

Symmetry == Permutations(CompletionIds)

MCQuantity == [w \in WorkOrders |-> IF w = gears THEN 2 ELSE 1]
MCNumSteps == [w \in WorkOrders |-> 1]
MCTransferBatch == [w \in WorkOrders |-> [i \in 1..1 |-> 0]]
MCProduct == [w \in WorkOrders |-> IF w = gears THEN gear ELSE car]
MCLotItem == [l \in 1..4 |-> CASE l < 3 -> steel [] l = 3 -> gear [] l = 4 -> car]

MCInitialBOM ==
    [p \in Items |-> [c \in Items |->
        IF <<p, c>> \in {<<gear, steel>>, <<car, gear>>, <<car, steel>>} THEN 1 ELSE 0]]
MCRevisions == {<<gear, steel, 2>>}
=============================================================================
