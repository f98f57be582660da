---------------------------- MODULE TableService ----------------------------
(***************************************************************************)
(* A branch's tables in service: the four services' request handlers run   *)
(* concurrently against one database.  The properties that need more than  *)
(* one of the services are stated here.                                    *)
(***************************************************************************)
EXTENDS SessionService, OrderService, PaymentService, KitchenService, Functions

(* Service requests, as far as settlement tears them down *)

\* create_request serialises on the table's row lock and checks no session token.
CallStaff(t) ==
    /\ \E g \in guests : g.table = t
    /\ TableFree(t)
    /\ called' = called \cup {t}
    /\ UNCHANGED <<table, order, item, payment, collected, guests, dispatched,
                   tableLock, orderLock, pc, job>>

StaffAnswers(t) ==
    /\ t \in called
    /\ called' = called \ {t}
    /\ UNCHANGED <<table, order, item, payment, collected, guests, dispatched,
                   tableLock, orderLock, pc, job>>

-----------------------------------------------------------------------------
Begin(p)   == SessionBegin(p) \/ OrderBegin(p) \/ PaymentBegin(p) \/ KitchenBegin(p)
Proceed(p) == SessionProceed(p) \/ OrderProceed(p) \/ PaymentProceed(p) \/ KitchenProceed(p)

Next ==
    \/ \E p \in Procs : Begin(p) \/ Proceed(p) \/ Abort(p)
    \/ \E t \in Tables : CallStaff(t) \/ StaffAnswers(t)

Spec == Init /\ [][Next]_vars

(* Row locks.  Some statements wait for a row, while the handler may hold    *)
(* others.                                                                   *)

\* p stands before a statement that waits for a row which q holds: an UPDATE of the table
\* or its FOR UPDATE; an UPDATE of the order, its foreign-key check or its FOR UPDATE.
WaitsFor(p, q) ==
    \/ /\ pc[p] \in {"offline_table", "settle_lock"} \/ (pc[p] = "verify" /\ job[p].seen # "join")
       /\ tableLock[job[p].table] = q
    \/ /\ pc[p] \in {"initiate", "offline_insert", "transition", "settle", "bump_lock"}
          \/ (pc[p] = "checkout" /\ job[p].order # None)
       /\ orderLock[job[p].order] = q
    \/ /\ pc[p] \in {"transition", "settle", "bump_lock"}
       /\ q \in KeySharers(job[p].order)

\* Every member waits for a member.
Deadlocked(D) == D # {} /\ \A p \in D : \E q \in D : WaitsFor(p, q)

(* Fairness.  A handler that can execute its next statement does, and a      *)
(* waiter for a row is not overtaken for ever: row locks are queued.  The    *)
(* database aborts one of several transactions that wait in a circle.        *)
(* Guests and staff need not send anything, and nothing else needs to fail.  *)

DeadlockVictim(p) ==
    /\ \E D \in SUBSET Procs :
          p \in D /\ Deadlocked(D) /\ \A E \in SUBSET D : Deadlocked(E) => E = D
    /\ Abort(p)

Fairness ==
    /\ \A p \in Procs : SF_vars(Proceed(p))
    /\ WF_vars(\E p \in Procs : DeadlockVictim(p))

FairSpec == Spec /\ Fairness

-----------------------------------------------------------------------------
(* What holds *)

\* What an order row and its completed payments say of the diners' bill.
BillState(o) ==
    CASE order[o].status = "UNUSED"              -> "none"
      [] order[o].status \in OPEN_ORDER_STATUSES -> "open"
      [] order[o].status = "CANCELLED"           -> "cancelled"
      [] order[o].status = "CLOSED" -> IF order[o].is_paid THEN "settled" ELSE "closed"

BillOf(o) == [state |-> BillState(o), table |-> order[o].table,
              due |-> order[o].total, paid |-> collected[o]]

Bill == INSTANCE OrderBill WITH bill <- [o \in Orders |-> BillOf(o)]

\* The handlers, however they interleave, bill as OrderBill does: one open bill per
\* table, every payment booked once, and settlement exactly when the sum covers.
ImplementsOrderBill == Bill!Spec

\* A table never has two open orders: the shared cart of a table is one order,
\* because checkout looks for it and creates it under the table's row lock.
OneOpenOrderPerTable ==
    \A t \in Tables : \A o1, o2 \in OpenOrders(t) : o1 = o2

Covered(o) == collected[o] > 0 /\ collected[o] >= order[o].total

\* The completed payments of a paid order cover its total: nothing is marked paid early,
\* and no later checkout raises the total of a paid order.
PaidIsCovered == \A o \in Orders : order[o].is_paid => Covered(o)

\* Whichever of several settlements brings the payments of an order up to its total marks
\* it paid, however they race.  Only a checkout that deducts can cover an order unpaid.
CoveringPays ==
    [][\A o \in Orders : ~Covered(o) /\ Covered(o)' =>
          order'[o].is_paid \/ order'[o].total < order[o].total]_<<order, collected>>

\* What the query of both settlement handlers adds up: the COMPLETED rows of an order.
Amounts == [k \in Payments |-> payment[k].amount]

CompletedOf(o) == {k \in Payments : payment[k].order = o /\ payment[k].status = "COMPLETED"}

\* What is recorded as collected is that sum: however webhooks, cashiers and replays
\* of both interleave, no payment is counted twice or missed.
CollectedIsSum == \A o \in Orders : collected[o] = SumFunctionOnSet(Amounts, CompletedOf(o))

\* A paid order is closed.
PaidOrdersAreClosed ==
    \A o \in Orders : order[o].is_paid => order[o].status = "CLOSED"

\* Nothing reopens a closed order or changes what it cost: a checkout that found
\* it open still finds it open when it commits.
ClosedOrdersAreFrozen ==
    [][\A o \in Orders : order[o].status = "CLOSED" =>
          /\ order'[o].status = "CLOSED"
          /\ order'[o].total = order[o].total]_order

\* A table that waits for food or eats has an open order.
ServedTablesHaveOrders ==
    \A t \in Tables :
       table[t].status \in {"AWAITING_FOOD", "EATING"} => OpenOrders(t) # {}

\* Whoever bumps the last unbumped line of an order in the kitchen makes it
\* READY: two concurrent bumps cannot each take the other's line for unbumped.
LastBumpFinishes ==
    [][\A i \in Items :
          LET o == item[i].order
          IN  /\ o # None /\ ~item[i].is_bumped /\ item'[i].is_bumped
              /\ \A j \in ItemsOf(o) : item'[j].is_bumped
              => order'[o].status \notin {"SUBMITTED", "PREPARING"}]_<<item, order>>

\* A row is locked by exactly the handler that is in its critical section for it: a
\* checkout, transition or settlement for its table, a bump for its order.  Nobody leaves
\* without unlocking, by commit, error or failure.
LocksAreHeld ==
    \A p \in Procs :
       /\ \A t \in Tables : tableLock[t] = p <=>
             pc[p] \in {"checkout", "transition", "settle"} /\ job[p].table = t
       /\ \A o \in Orders : orderLock[o] = p <=>
             pc[p] \in {"bump", "bump_station"} /\ job[p].order = o

\* p has inserted a payment of the order q waits for, and waits for q's table.
WaitForEachOther(p, q) ==
    /\ pc[p] = "offline_table" /\ tableLock[job[p].table] = q
    /\ pc[q] \in {"transition", "settle"} /\ p \in KeySharers(job[q].order)

\* Handlers deadlock in one way only: request_offline_payment, which takes its order before
\* its table, against a transition or settlement, unless it was asked to pay an order of
\* another table and so ties two tables together.
DeadlocksAreOffline ==
    \A D \in SUBSET Procs : Deadlocked(D) =>
       \/ \E p, q \in D : WaitForEachOther(p, q)
       \/ \E p \in D : pc[p] = "offline_table" /\ order[job[p].order].table # job[p].table

\* Every request that has begun ends, and with it every lock is released: no
\* cycle of row locks survives and no waiter is forgotten.
RequestsFinish == \A p \in Procs : pc[p] # "idle" ~> pc[p] = "idle"

-----------------------------------------------------------------------------
(* The inductive invariant behind what holds: what every row and every      *)
(* handler between two of its statements satisfy.                           *)

OrderRowsOK ==
    \A o \in Orders :
       IF order[o].status = "UNUSED"
       THEN ~order[o].is_paid /\ order[o].total = 0 /\ collected[o] = 0
       ELSE order[o].table \in Tables

PaymentRowsOK ==
    \A k \in Payments : payment[k].status # "UNUSED" =>
       /\ payment[k].order \in Orders /\ order[payment[k].order].status # "UNUSED"
       /\ payment[k].amount > 0
       /\ payment[k].status = "COMPLETED" => collected[payment[k].order] > 0

\* The rows p has locked, and those it has read and will write, are still as
\* it needs them.
TableInHand(p) ==
    /\ pc[p] = "verify" => job[p].table \in Tables /\ job[p].sid \in Sessions
    /\ pc[p] \in {"checkout", "transition", "settle"} =>
          job[p].table \in Tables /\ tableLock[job[p].table] = p
    /\ pc[p] = "checkout" =>
          IF job[p].order = None THEN OpenOrders(job[p].table) = {}
          ELSE job[p].order \in OpenOrders(job[p].table)

OrderInHand(p) ==
    /\ pc[p] \in {"transition", "settle_lock", "settle"} =>
          /\ job[p].order \in Orders
          /\ order[job[p].order].status # "UNUSED"
          /\ order[job[p].order].table = job[p].table
    /\ pc[p] = "bump_lock" => job[p].order \in Orders
    /\ pc[p] \in {"bump", "bump_station"} =>
          job[p].order \in Orders /\ orderLock[job[p].order] = p

PaymentInHand(p) ==
    /\ pc[p] \in {"settle_lock", "settle"} =>
          /\ job[p].pay \in Payments
          /\ payment[job[p].pay].status # "UNUSED"
          /\ payment[job[p].pay].order = job[p].order
    /\ pc[p] \in {"initiate", "offline_insert", "offline_table"} =>
          /\ job[p].pay \in Payments /\ job[p].amount > 0
          /\ job[p].order \in Orders /\ order[job[p].order].status # "UNUSED"
    /\ pc[p] \in {"offline_insert", "offline_table"} =>
          /\ job[p].table \in Tables
          /\ payment[job[p].pay].status = "UNUSED"
          /\ \A q \in Procs \ {p} : job[q].pay # job[p].pay

HandlersOK == \A p \in Procs : TableInHand(p) /\ OrderInHand(p) /\ PaymentInHand(p)

\* The inductive invariant: LocksAreHeld and the three properties of orders need
\* what the handlers hold, and the handlers need the properties of the rows.
IInv ==
    /\ TypeOK
    /\ OrderRowsOK /\ PaymentRowsOK /\ HandlersOK
    /\ OneOpenOrderPerTable /\ PaidIsCovered /\ PaidOrdersAreClosed

-----------------------------------------------------------------------------
(* What the documents promise and the code does not keep *)

\* Payments never exceed the order's total.
NoOverpayment == \A o \in Orders : collected[o] <= order[o].total

\* A cancelled order stays cancelled.
CancelledIsFinal ==
    [][\A o \in Orders :
          order[o].status = "CANCELLED" => order'[o].status = "CANCELLED"]_order

\* An order a bump made READY has no unbumped line.
ReadyMeansBumped ==
    [][\A o \in Orders :
          /\ order[o].status \in {"SUBMITTED", "PREPARING"} /\ order'[o].status = "READY"
          /\ orderLock[o] # None
          => \A i \in ItemsOf(o) : item'[i].is_bumped]_order
=============================================================================
