-------------------------- MODULE MC_TableService --------------------------
(***************************************************************************)
(* Instances of TableService small enough for TLC.  The whole composition  *)
(* is too large for more than tiny bounds, so scenarios leave out whole    *)
(* services: the orders and the kitchen without payments, the bill without *)
(* the kitchen.                                                            *)
(***************************************************************************)
EXTENDS TableService, TLC

CONSTANTS grill, bar

\* An order of 2, and what an option with a negative price_delta deducts from it.
TwoLessOne == {2, -1}

\* Every line is cooked at the grill, or the first lines at the grill and one at the bar.
OneStation  == [i \in Items |-> grill]
TwoStations == [i \in Items |-> IF i = CHOOSE j \in Items : TRUE THEN bar ELSE grill]

Symmetry == Permutations(Procs) \cup Permutations(Orders) \cup Permutations(Payments)
              \cup Permutations(Sessions) \cup Permutations(Items)

SymmetryButItems == Permutations(Procs) \cup Permutations(Orders)
              \cup Permutations(Payments) \cup Permutations(Sessions)

OrderingNext == \E p \in Procs :
    \/ SessionBegin(p) \/ SessionProceed(p)
    \/ OrderBegin(p) \/ OrderProceed(p)
    \/ KitchenBegin(p) \/ KitchenProceed(p)
    \/ Abort(p)

OrderingSpec == Init /\ [][OrderingNext]_vars

BillingNext == \E p \in Procs :
    \/ SessionBegin(p) \/ SessionProceed(p)
    \/ OrderBegin(p) \/ OrderProceed(p)
    \/ PaymentBegin(p) \/ PaymentProceed(p)
    \/ Abort(p)

BillingSpec == Init /\ [][BillingNext]_vars
=============================================================================
