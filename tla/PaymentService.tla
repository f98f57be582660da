--------------------------- MODULE PaymentService ---------------------------
(***************************************************************************)
(* Online payments, provider webhooks and cashier settlement of            *)
(* app/services/payment_service.py.                                        *)
(***************************************************************************)
EXTENDS BranchDatabase

\* The order a guest names, or the table's latest one: anything but CANCELLED.
Payable(o) == order[o].status \notin {"UNUSED", "CANCELLED"}

\* An amount the balance check accepts, on the values read without a lock.
WithinBalance(o, amount) ==
    ~order[o].is_paid /\ amount > 0 /\ amount + collected[o] <= order[o].total

\* k stands for the client's idempotency key; a key already used is answered
\* with the payment it made, which changes nothing.
InitiateRead(p, k, o, amount) ==
    /\ pc[p] = "idle"
    /\ guests # {}
    /\ Payable(o)
    /\ payment[k].status = "UNUSED"
    /\ \A q \in Procs : pc[q] \in {"offline_insert", "offline_table"} => job[q].pay # k
    /\ WithinBalance(o, amount)
    /\ Goto(p, "initiate", [NoJob EXCEPT !.order = o, !.pay = k, !.amount = amount])
    /\ UNCHANGED <<rows, guests, dispatched, tableLock, orderLock>>

\* The unique index on idempotency_key refuses the second insert.
InitiateCommit(p) ==
    LET k == job[p].pay
    IN  /\ pc[p] = "initiate"
        /\ OrderFree(job[p].order)
        /\ payment' = IF payment[k].status = "UNUSED"
                      THEN [payment EXCEPT ![k] = [status |-> "PENDING",
                               order |-> job[p].order, amount |-> job[p].amount]]
                      ELSE payment
        /\ Return(p)
        /\ UNCHANGED <<table, order, item, collected, called, guests, dispatched,
                       tableLock, orderLock>>

AwaitingCashier(o) ==
    {k \in Payments : /\ payment[k].status = "PENDING_CASHIER_VERIFICATION"
                      /\ payment[k].order = o}

OfflineRead(p, g, k, o, amount) ==
    /\ pc[p] = "idle"
    /\ g.verified
    /\ Payable(o)
    /\ AwaitingCashier(o) = {}
    /\ WithinBalance(o, amount)
    /\ k \in FreshPayments
    /\ Goto(p, "offline_insert", [NoJob EXCEPT !.table = g.table, !.order = o, !.pay = k,
                                               !.amount = amount])
    /\ UNCHANGED <<rows, guests, dispatched, tableLock, orderLock>>

\* db.flush() inserts the payment, which shares a lock on its order; then the
\* table is read, without a lock, before its status is assigned.
OfflineInsert(p) ==
    /\ pc[p] = "offline_insert"
    /\ OrderFree(job[p].order)
    /\ Goto(p, "offline_table",
            [job[p] EXCEPT !.flag = (table[job[p].table].status = "BILL_REQUESTED")])
    /\ UNCHANGED <<rows, guests, dispatched, tableLock, orderLock>>

\* The table's UPDATE is sent by the commit and waits for the row.
OfflineCommit(p) ==
    LET t == job[p].table
    IN  /\ pc[p] = "offline_table"
        /\ TableFree(t)
        /\ payment' = [payment EXCEPT ![job[p].pay] =
              [status |-> "PENDING_CASHIER_VERIFICATION", order |-> job[p].order,
               amount |-> job[p].amount]]
        /\ table' = [table EXCEPT ![t].status =
                        IF job[p].flag THEN @ ELSE "BILL_REQUESTED"]
        /\ Return(p)
        /\ UNCHANGED <<order, item, collected, called, guests, dispatched,
                       tableLock, orderLock>>

\* Both settlement handlers look the payment up without a lock and stop early
\* only on COMPLETED.
SettlementRead(p, k) ==
    /\ pc[p] = "idle"
    /\ payment[k].status \notin {"UNUSED", "COMPLETED"}
    /\ Goto(p, "settle_lock", [NoJob EXCEPT !.pay = k, !.order = payment[k].order,
                                            !.table = order[payment[k].order].table])
    /\ UNCHANGED <<rows, guests, dispatched, tableLock, orderLock>>

ProcessWebhook(p, k)       == SettlementRead(p, k)
VerifyOfflinePayment(p, k) == SettlementRead(p, k)

\* Fault: the settlement does not lock the table.
SettlementUnlocked(p) ==
    /\ pc[p] = "settle_lock"
    /\ Goto(p, "settle", job[p])
    /\ UNCHANGED <<rows, guests, dispatched, tableLock, orderLock>>

SettlementLock(p) ==
    /\ pc[p] = "settle_lock"
    /\ TableFree(job[p].table)
    /\ LockTable(p, job[p].table)
    /\ Goto(p, "settle", job[p])
    /\ UNCHANGED <<rows, guests, dispatched, orderLock>>

\* Fault: this handler's payment is counted again on a replay.
CompletedTwice(o, k) == collected[o] + payment[k].amount

\* COMPLETED payments of the order as the query under the locks returns them,
\* with this handler's payment counted once whether or not it is among them.
CompletedWith(o, k) ==
    collected[o] + IF payment[k].status = "COMPLETED" THEN 0 ELSE payment[k].amount

\* Fault: strict comparison.
Exceeds(sum, total) == sum > total

Covers(sum, total) == sum >= total

\* A covering sum closes the order, frees its table, clears the session token
\* and dismisses the table's service requests; a partial one only counts.
SettlementCommit(p) ==
    LET o    == job[p].order
        t    == job[p].table
        k    == job[p].pay
        sum  == CompletedWith(o, k)
        full == Covers(sum, order[o].total)
    IN  /\ pc[p] = "settle"
        /\ Lockable(o)
        /\ payment' = [payment EXCEPT ![k].status = "COMPLETED"]
        /\ collected' = [collected EXCEPT ![o] = sum]
        /\ order' = [order EXCEPT ![o].status = IF full THEN "CLOSED" ELSE @,
                                  ![o].is_paid = full \/ @]
        /\ table' = [table EXCEPT ![t] = IF full THEN [status |-> "AVAILABLE",
                                                       token |-> None] ELSE @]
        /\ called' = IF full THEN called \ {t} ELSE called
        /\ FreeTable(t)
        /\ Return(p)
        /\ UNCHANGED <<item, guests, dispatched, orderLock>>

-----------------------------------------------------------------------------
PaymentBegin(p) ==
    \/ \E o \in Orders : \E amount \in 1 .. order[o].total :
          \E k \in Payments : \/ InitiateRead(p, k, o, amount)
                             \/ \E g \in guests : OfflineRead(p, g, k, o, amount)
    \/ \E k \in Payments : ProcessWebhook(p, k) \/ VerifyOfflinePayment(p, k)

PaymentProceed(p) ==
    \/ InitiateCommit(p)
    \/ OfflineInsert(p)
    \/ OfflineCommit(p)
    \/ SettlementLock(p)
    \/ SettlementCommit(p)
=============================================================================
