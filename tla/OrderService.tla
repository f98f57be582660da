---------------------------- MODULE OrderService ----------------------------
(***************************************************************************)
(* checkout_order and transition_order_status of                           *)
(* app/services/order_service.py.  Both lock the Table row first.          *)
(***************************************************************************)
EXTENDS BranchDatabase

(* Checkout (OrderService.checkout_order) *)

\* The departed-diner guard, evaluated on the locked table row.
SessionAdmitted(g) ==
    /\ ~(table[g.table].status = "AVAILABLE" /\ table[g.table].token = None)
    /\ table[g.table].token # None => table[g.table].token = g.sid

\* Fault: the table is read without FOR UPDATE.
CheckoutLookup(p, g) ==
    /\ pc[p] = "idle"
    /\ SessionAdmitted(g)
    /\ \E o \in IF OpenOrders(g.table) = {} THEN {None} ELSE OpenOrders(g.table) :
          Goto(p, "checkout",
               [NoJob EXCEPT !.table = g.table, !.verified = g.verified, !.order = o,
                             !.seen = IF o = None THEN "none" ELSE order[o].status])
    /\ UNCHANGED <<rows, guests, dispatched, tableLock, orderLock>>

\* Locks the table, then looks the open order up without locking it.
CheckoutLock(p, g) ==
    /\ pc[p] = "idle"
    /\ TableFree(g.table)
    /\ SessionAdmitted(g)
    /\ \E o \in IF OpenOrders(g.table) = {} THEN {None} ELSE OpenOrders(g.table) :
          Goto(p, "checkout",
               [NoJob EXCEPT !.table = g.table, !.verified = g.verified, !.order = o,
                             !.seen = IF o = None THEN "none" ELSE order[o].status])
    /\ LockTable(p, g.table)
    /\ UNCHANGED <<rows, guests, dispatched, orderLock>>

\* What both checkout commits share: new lines, the table's status, and the
\* kitchen dispatch owed when the order, as this handler saw it, is cooking.
CheckoutWrites(p, o, lines, status) ==
    /\ lines # {} /\ \A i \in lines : item[i].order = None
    /\ item' = [i \in Items |-> IF i \in lines
                                THEN [order |-> o, is_bumped |-> FALSE] ELSE item[i]]
    /\ table' = [table EXCEPT ![job[p].table].status =
                    IF job[p].verified THEN "AWAITING_FOOD" ELSE @]
    /\ FreeTable(job[p].table)
    /\ IF status \in {"SUBMITTED", "PREPARING"}
       THEN Goto(p, "dispatch", [NoJob EXCEPT !.order = o, !.items = lines])
       ELSE Return(p)
    /\ UNCHANGED <<payment, collected, called, guests, dispatched, orderLock>>

CheckoutOpen(p, o, lines, price) ==
    LET status == IF job[p].verified THEN "SUBMITTED" ELSE "PENDING_STAFF_CONFIRMATION"
    IN  /\ pc[p] = "checkout"
        /\ job[p].order = None
        /\ order[o].status = "UNUSED"
        /\ order' = [order EXCEPT ![o] = [status |-> status, table |-> job[p].table,
                                          total |-> price, is_paid |-> FALSE]]
        /\ CheckoutWrites(p, o, lines, status)

\* The status column is written only when the value read calls for a new one.
CheckoutAppend(p, lines, price) ==
    LET o == job[p].order
        restarts == job[p].verified /\ job[p].seen \in {"DRAFT", "DELIVERED"}
    IN  /\ pc[p] = "checkout"
        /\ o # None
        /\ OrderFree(o)
        /\ order' = [order EXCEPT ![o].total = @ + price,
                                  ![o].status = IF restarts THEN "SUBMITTED" ELSE @]
        /\ CheckoutWrites(p, o, lines, IF restarts THEN "SUBMITTED" ELSE job[p].seen)

\* An unknown or unavailable item, or a modifier out of bounds: rolled back.
CheckoutReject(p) ==
    /\ pc[p] = "checkout"
    /\ FreeTable(job[p].table)
    /\ Return(p)
    /\ UNCHANGED <<rows, guests, dispatched, orderLock>>

\* After the commit: sub-tickets of the lines this checkout added.
CheckoutDispatch(p) ==
    /\ pc[p] = "dispatch"
    /\ dispatched' = dispatched \cup job[p].items
    /\ Return(p)
    /\ UNCHANGED <<rows, guests, tableLock, orderLock>>

-----------------------------------------------------------------------------
(* Status transitions (OrderService.transition_order_status) *)

TransitionLock(p, o) ==
    /\ pc[p] = "idle"
    /\ order[o].status # "UNUSED"
    /\ TableFree(order[o].table)
    /\ LockTable(p, order[o].table)
    /\ Goto(p, "transition", [NoJob EXCEPT !.order = o, !.table = order[o].table])
    /\ UNCHANGED <<rows, guests, dispatched, orderLock>>

TransitionCommit(p, to, role, reasoned) ==
    LET o    == job[p].order
        t    == job[p].table
        from == order[o].status
    IN  /\ pc[p] = "transition"
        /\ Lockable(o)
        /\ MayTransition(from, to, role, reasoned)
        /\ order' = [order EXCEPT ![o].status = to]
        /\ table' = [table EXCEPT ![t].status =
                        TableStatusAfter(to, OpenOrders(t) \ {o} # {}, @)]
        /\ FreeTable(t)
        /\ IF /\ from \in {"PENDING_STAFF_CONFIRMATION", "DRAFT"}
              /\ to \in {"SUBMITTED", "PREPARING"}
           THEN Goto(p, "dispatch_all", [NoJob EXCEPT !.order = o])
           ELSE Return(p)
        /\ UNCHANGED <<item, payment, collected, called, guests, dispatched, orderLock>>

\* Fault: the error leaves the transaction, and its locks, open.
TransitionRaise(p) ==
    /\ pc[p] = "transition"
    /\ Lockable(job[p].order)
    /\ Return(p)
    /\ UNCHANGED <<rows, guests, dispatched, tableLock, orderLock>>

\* INVALID_STATE_TRANSITION, CANCELLATION_RESTRICTED_TO_STAFF, ...: rolled back.
TransitionReject(p) ==
    /\ pc[p] = "transition"
    /\ Lockable(job[p].order)
    /\ FreeTable(job[p].table)
    /\ Return(p)
    /\ UNCHANGED <<rows, guests, dispatched, orderLock>>

\* After the commit: sub-tickets of every line the order has by then.
TransitionDispatch(p) ==
    /\ pc[p] = "dispatch_all"
    /\ dispatched' = dispatched \cup ItemsOf(job[p].order)
    /\ Return(p)
    /\ UNCHANGED <<rows, guests, tableLock, orderLock>>

-----------------------------------------------------------------------------
OrderBegin(p) ==
    \/ \E g \in guests : CheckoutLock(p, g)
    \/ \E o \in Orders : TransitionLock(p, o)

OrderProceed(p) ==
    \/ \E lines \in SUBSET Items, price \in Prices :
          \/ \E o \in Orders : CheckoutOpen(p, o, lines, price)
          \/ CheckoutAppend(p, lines, price)
    \/ CheckoutReject(p)
    \/ CheckoutDispatch(p)
    \/ \E to \in OrderStatuses, role \in StaffRoles \cup {Guest}, reasoned \in BOOLEAN :
          TransitionCommit(p, to, role, reasoned)
    \/ TransitionReject(p)
    \/ TransitionDispatch(p)
=============================================================================
