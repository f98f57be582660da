------------------------ MODULE TableService_proofs ------------------------
(***************************************************************************)
(* Proofs of the safety properties of TableService for any number of       *)
(* handlers, tables, orders, lines, payments and sessions.                 *)
(*                                                                         *)
(* 1. Every step keeps TypeOK (one lemma per service).                     *)
(* 2. A step of one handler leaves to the others what they hold (Frame).   *)
(* 3. Every step keeps IInv: statements that write no order or payment.    *)
(* 4. Statements that do, and the theorems about states.                   *)
(* 5. Closed orders are frozen, covering payments settle, and every step   *)
(*    is a step of OrderBill.                                              *)
(* 6. Served tables have orders.                                           *)
(* 7. The last bump finishes its order.                                    *)
(* 8. What is collected is the sum of the completed payments.              *)
(* 9. Row locks: who holds them, and how handlers can deadlock.            *)
(***************************************************************************)
EXTENDS TableService, SumTheorems

(***************************************************************************)
(* 1. Types                                                                *)
(***************************************************************************)

\* An idle handler has well-typed local values.
LEMMA NoJobType == NoJob \in Job
BY DEF NoJob, Job

\* Moving on keeps the control state of every handler well typed.
LEMMA GotoType ==
    ASSUME TypeOK, NEW p \in Procs, NEW label \in Labels, NEW local \in Job,
           Goto(p, label, local)
    PROVE  pc' \in [Procs -> Labels] /\ job' \in [Procs -> Job]
BY DEF TypeOK, Goto

\* So does ending a request.
LEMMA ReturnType ==
    ASSUME TypeOK, NEW p \in Procs, Return(p)
    PROVE  pc' \in [Procs -> Labels] /\ job' \in [Procs -> Job]
BY NoJobType, GotoType DEF Return, Labels

\* Every statement of session_service keeps the types.
LEMMA SessionTypes ==
    ASSUME TypeOK, HandlersOK, NEW p \in Procs, SessionBegin(p) \/ SessionProceed(p)
    PROVE  TypeOK'
<1>1. ASSUME NEW t \in Tables, NEW verified \in BOOLEAN, VerifyPresenceRead(p, t, verified)
      PROVE  TypeOK'
  <2>. DEFINE mode == IF table[t].status = "AVAILABLE" THEN "occupy"
                      ELSE IF table[t].token = None THEN "rebind" ELSE "join"
              local(sid) == [NoJob EXCEPT !.table = t, !.sid = sid,
                                          !.verified = verified, !.seen = mode]
  <2>1. PICK sid \in Sessions : Goto(p, "verify", local(sid))
    BY <1>1 DEF VerifyPresenceRead, TypeOK, Table, FreshSessions
  <2>2. local(sid) \in Job
    BY DEF NoJob, Job
  <2>3. pc' \in [Procs -> Labels] /\ job' \in [Procs -> Job]
    BY <2>1, <2>2 DEF TypeOK, Goto, Labels
  <2>. QED BY <1>1, <2>3 DEF VerifyPresenceRead, TypeOK, rows
<1>2. ASSUME VerifyPresenceCommit(p)
      PROVE  TypeOK'
  <2>1. pc' \in [Procs -> Labels] /\ job' \in [Procs -> Job]
    BY <1>2, ReturnType DEF VerifyPresenceCommit
  <2>2. job[p].table \in Tables /\ job[p].sid \in Sessions /\ job[p].verified \in BOOLEAN
    BY <1>2 DEF VerifyPresenceCommit, HandlersOK, TableInHand, TypeOK, Job
  <2>3. table' \in [Tables -> Table]
    BY <1>2, <2>2 DEF VerifyPresenceCommit, TypeOK, Table, TableStatuses
  <2>4. guests' \subseteq GuestJWT
    BY <1>2, <2>2 DEF VerifyPresenceCommit, TypeOK, GuestJWT
  <2>. QED BY <1>2, <2>1, <2>3, <2>4 DEF VerifyPresenceCommit, TypeOK
<1>. QED BY <1>1, <1>2 DEF SessionBegin, SessionProceed

\* What both checkout commits do besides writing the order.
LEMMA CheckoutWritesTypes ==
    ASSUME TypeOK, HandlersOK, NEW p \in Procs, pc[p] = "checkout", NEW o \in Orders,
           NEW lines \in SUBSET Items, NEW status, CheckoutWrites(p, o, lines, status),
           order' \in [Orders -> Order]
    PROVE  TypeOK'
<1>1. pc' \in [Procs -> Labels] /\ job' \in [Procs -> Job]
  <2>1. [NoJob EXCEPT !.order = o, !.items = lines] \in Job
    BY DEF NoJob, Job
  <2>. QED BY <2>1, GotoType, ReturnType DEF CheckoutWrites, Labels
<1>2. table' \in [Tables -> Table]
  <2>1. job[p].table \in Tables
    BY DEF HandlersOK, TableInHand
  <2>. QED BY <2>1 DEF CheckoutWrites, TypeOK, Table, TableStatuses
<1>3. tableLock' \in [Tables -> Procs \cup {None}]
  BY DEF CheckoutWrites, TypeOK, FreeTable
<1>4. item' \in [Items -> Item]
  BY DEF CheckoutWrites, TypeOK, Item
<1>. QED BY <1>1, <1>2, <1>3, <1>4 DEF CheckoutWrites, TypeOK

\* Every statement of order_service keeps the types.
LEMMA OrderTypes ==
    ASSUME TypeOK, HandlersOK, NEW p \in Procs, OrderBegin(p) \/ OrderProceed(p)
    PROVE  TypeOK'
<1>1. ASSUME NEW g \in guests, CheckoutLock(p, g)
      PROVE  TypeOK'
  <2>1. g.table \in Tables /\ g.verified \in BOOLEAN
    BY DEF TypeOK, GuestJWT
  <2>2. PICK o \in Orders \cup {None} :
           /\ Goto(p, "checkout",
                   [NoJob EXCEPT !.table = g.table, !.verified = g.verified, !.order = o,
                                 !.seen = IF o = None THEN "none" ELSE order[o].status])
           /\ o \in OpenOrders(g.table) \/ o = None
    BY <1>1 DEF CheckoutLock, OpenOrders
  <2>3. [NoJob EXCEPT !.table = g.table, !.verified = g.verified, !.order = o,
                      !.seen = IF o = None THEN "none" ELSE order[o].status] \in Job
    BY <2>1, <2>2 DEF NoJob, Job, OpenOrders, OPEN_ORDER_STATUSES
  <2>4. pc' \in [Procs -> Labels] /\ job' \in [Procs -> Job]
    BY <2>2, <2>3, GotoType DEF Labels
  <2>. QED BY <1>1, <2>4 DEF CheckoutLock, LockTable, TypeOK, rows
<1>2. ASSUME NEW lines \in SUBSET Items, NEW price \in Prices, NEW o \in Orders,
             CheckoutOpen(p, o, lines, price)
      PROVE  TypeOK'
  <2>1. job[p].table \in Tables
    BY <1>2 DEF CheckoutOpen, HandlersOK, TableInHand
  <2>2. order' \in [Orders -> Order]
    BY <1>2, <2>1, PricesAreIntegers DEF CheckoutOpen, TypeOK, Order, OrderStatuses
  <2>. QED BY <1>2, <2>2, CheckoutWritesTypes DEF CheckoutOpen
<1>3. ASSUME NEW lines \in SUBSET Items, NEW price \in Prices, CheckoutAppend(p, lines, price)
      PROVE  TypeOK'
  <2>1. job[p].order \in Orders
    BY <1>3 DEF CheckoutAppend, TypeOK, Job
  <2>2. order' \in [Orders -> Order]
    <3>1. order[job[p].order].total + price \in Int
      BY <2>1, PricesAreIntegers DEF TypeOK, Order
    <3>2. PICK status \in OrderStatuses \cup {"UNUSED"} :
             order' = [order EXCEPT ![job[p].order].total = @ + price,
                                    ![job[p].order].status = status]
      BY <1>3, <2>1 DEF CheckoutAppend, TypeOK, Order, OrderStatuses
    <3>. QED BY <2>1, <3>1, <3>2 DEF TypeOK, Order
  <2>. QED BY <1>3, <2>1, <2>2, CheckoutWritesTypes DEF CheckoutAppend
<1>4. ASSUME CheckoutReject(p) \/ CheckoutDispatch(p) \/ TransitionReject(p) \/ TransitionDispatch(p)
      PROVE  TypeOK'
  <2>1. pc' \in [Procs -> Labels] /\ job' \in [Procs -> Job]
    BY <1>4, ReturnType DEF CheckoutReject, CheckoutDispatch, TransitionReject, TransitionDispatch
  <2>2. dispatched' \subseteq Items
    BY <1>4 DEF CheckoutReject, CheckoutDispatch, TransitionReject, TransitionDispatch, TypeOK,
                Job, ItemsOf
  <2>. QED BY <1>4, <2>1, <2>2 DEF CheckoutReject, CheckoutDispatch, TransitionReject,
                TransitionDispatch, FreeTable, TypeOK, rows
<1>5. ASSUME NEW o \in Orders, TransitionLock(p, o)
      PROVE  TypeOK'
  <2>1. [NoJob EXCEPT !.order = o, !.table = order[o].table] \in Job
    BY DEF NoJob, Job, TypeOK, Order
  <2>2. pc' \in [Procs -> Labels] /\ job' \in [Procs -> Job]
    BY <1>5, <2>1, GotoType DEF TransitionLock, Labels
  <2>. QED BY <1>5, <2>2 DEF TransitionLock, LockTable, TypeOK, rows
<1>6. ASSUME NEW to \in OrderStatuses, NEW role, NEW reasoned \in BOOLEAN,
             TransitionCommit(p, to, role, reasoned)
      PROVE  TypeOK'
  <2>1. job[p].order \in Orders /\ job[p].table \in Tables
    BY <1>6 DEF TransitionCommit, HandlersOK, TableInHand, OrderInHand
  <2>2. pc' \in [Procs -> Labels] /\ job' \in [Procs -> Job]
    <3>1. [NoJob EXCEPT !.order = job[p].order] \in Job
      BY <2>1 DEF NoJob, Job
    <3>. QED BY <1>6, <3>1, GotoType, ReturnType DEF TransitionCommit, Labels
  <2>3. order' \in [Orders -> Order]
    BY <1>6 DEF TransitionCommit, TypeOK, Order
  <2>4. table' \in [Tables -> Table]
    <3>1. PICK status \in TableStatuses : table' = [table EXCEPT ![job[p].table].status = status]
      BY <1>6, <2>1 DEF TransitionCommit, TypeOK, Table, TableStatuses, TableStatusAfter
    <3>. QED BY <3>1 DEF TypeOK, Table
  <2>. QED BY <1>6, <2>2, <2>3, <2>4 DEF TransitionCommit, FreeTable, TypeOK
<1>. QED BY <1>1, <1>2, <1>3, <1>4, <1>5, <1>6 DEF OrderBegin, OrderProceed

\* Every statement of payment_service keeps the types.
LEMMA PaymentTypes ==
    ASSUME TypeOK, PaymentRowsOK, HandlersOK, NEW p \in Procs, PaymentBegin(p) \/ PaymentProceed(p)
    PROVE  TypeOK'
<1>1. ASSUME NEW o \in Orders, NEW amount \in 1 .. order[o].total, NEW k \in Payments,
             InitiateRead(p, k, o, amount)
      PROVE  TypeOK'
  <2>1. amount \in Nat
    BY DEF TypeOK, Order
  <2>2. [NoJob EXCEPT !.order = o, !.pay = k, !.amount = amount] \in Job
    BY <2>1 DEF NoJob, Job
  <2>3. pc' \in [Procs -> Labels] /\ job' \in [Procs -> Job]
    BY <1>1, <2>2, GotoType DEF InitiateRead, Labels
  <2>. QED BY <1>1, <2>3 DEF InitiateRead, TypeOK, rows
<1>2. ASSUME NEW o \in Orders, NEW amount \in 1 .. order[o].total, NEW k \in Payments,
             NEW g \in guests, OfflineRead(p, g, k, o, amount)
      PROVE  TypeOK'
  <2>1. amount \in Nat /\ g.table \in Tables
    BY DEF TypeOK, Order, GuestJWT
  <2>2. [NoJob EXCEPT !.table = g.table, !.order = o, !.pay = k, !.amount = amount] \in Job
    BY <2>1 DEF NoJob, Job
  <2>3. pc' \in [Procs -> Labels] /\ job' \in [Procs -> Job]
    BY <1>2, <2>2, GotoType DEF OfflineRead, Labels
  <2>. QED BY <1>2, <2>3 DEF OfflineRead, TypeOK, rows
<1>3. ASSUME NEW k \in Payments, SettlementRead(p, k)
      PROVE  TypeOK'
  <2>1. [NoJob EXCEPT !.pay = k, !.order = payment[k].order,
                      !.table = order[payment[k].order].table] \in Job
    <3>1. payment[k].order \in Orders
      BY <1>3 DEF SettlementRead, PaymentRowsOK
    <3>. QED BY <3>1 DEF NoJob, Job, TypeOK, Order
  <2>2. pc' \in [Procs -> Labels] /\ job' \in [Procs -> Job]
    BY <1>3, <2>1, GotoType DEF SettlementRead, Labels
  <2>. QED BY <1>3, <2>2 DEF SettlementRead, TypeOK, rows
<1>4. ASSUME OfflineInsert(p)
      PROVE  TypeOK'
  <2>1. [job[p] EXCEPT !.flag = (table[job[p].table].status = "BILL_REQUESTED")] \in Job
    BY DEF TypeOK, Job
  <2>2. pc' \in [Procs -> Labels] /\ job' \in [Procs -> Job]
    BY <1>4, <2>1, GotoType DEF OfflineInsert, Labels
  <2>. QED BY <1>4, <2>2 DEF OfflineInsert, TypeOK, rows
<1>5. ASSUME InitiateCommit(p)
      PROVE  TypeOK'
  <2>1. pc' \in [Procs -> Labels] /\ job' \in [Procs -> Job]
    BY <1>5, ReturnType DEF InitiateCommit
  <2>2. payment' \in [Payments -> Payment]
    BY <1>5 DEF InitiateCommit, HandlersOK, PaymentInHand, TypeOK, Job, Payment, PaymentStatuses
  <2>. QED BY <1>5, <2>1, <2>2 DEF InitiateCommit, TypeOK
<1>6. ASSUME OfflineCommit(p)
      PROVE  TypeOK'
  <2>1. pc' \in [Procs -> Labels] /\ job' \in [Procs -> Job]
    BY <1>6, ReturnType DEF OfflineCommit
  <2>2. payment' \in [Payments -> Payment]
    BY <1>6 DEF OfflineCommit, HandlersOK, PaymentInHand, TypeOK, Job, Payment, PaymentStatuses
  <2>3. table' \in [Tables -> Table]
    <3>1. job[p].table \in Tables
      BY <1>6 DEF OfflineCommit, HandlersOK, PaymentInHand
    <3>. QED BY <1>6, <3>1 DEF OfflineCommit, TypeOK, Table, TableStatuses
  <2>. QED BY <1>6, <2>1, <2>2, <2>3 DEF OfflineCommit, TypeOK
<1>7. ASSUME SettlementLock(p)
      PROVE  TypeOK'
  <2>1. pc' \in [Procs -> Labels] /\ job' \in [Procs -> Job]
    BY <1>7, GotoType DEF SettlementLock, Labels, TypeOK
  <2>. QED BY <1>7, <2>1 DEF SettlementLock, LockTable, TypeOK, rows
<1>8. ASSUME SettlementCommit(p)
      PROVE  TypeOK'
  <2>1. pc' \in [Procs -> Labels] /\ job' \in [Procs -> Job]
    BY <1>8, ReturnType DEF SettlementCommit
  <2>2. /\ job[p].order \in Orders /\ job[p].pay \in Payments /\ job[p].table \in Tables
        /\ CompletedWith(job[p].order, job[p].pay) \in Nat
    BY <1>8 DEF SettlementCommit, HandlersOK, TableInHand, OrderInHand, PaymentInHand,
                CompletedWith, TypeOK, Payment
  <2>3. payment' \in [Payments -> Payment] /\ collected' \in [Orders -> Nat]
    BY <1>8, <2>2 DEF SettlementCommit, TypeOK, Payment, PaymentStatuses
  <2>4. order' \in [Orders -> Order]
    <3>1. PICK status \in OrderStatuses \cup {"UNUSED"}, paid \in BOOLEAN :
             order' = [order EXCEPT ![job[p].order].status = status,
                                    ![job[p].order].is_paid = paid]
      BY <1>8, <2>2 DEF SettlementCommit, TypeOK, Order, OrderStatuses
    <3>2. order[job[p].order] \in Order
      BY <2>2 DEF TypeOK
    <3>3. \A r \in Order : [r EXCEPT !.status = status, !.is_paid = paid] \in Order
      BY ZenonT(30) DEF Order
    <3>4. order' = [order EXCEPT ![job[p].order] =
                       [order[job[p].order] EXCEPT !.status = status, !.is_paid = paid]]
      BY <2>2, <3>1 DEF TypeOK, Order
    <3>. QED BY <3>2, <3>3, <3>4 DEF TypeOK
  <2>5. table' \in [Tables -> Table]
    BY <1>8, <2>2 DEF SettlementCommit, TypeOK, Table, TableStatuses
  <2>. QED BY <1>8, <2>1, <2>3, <2>4, <2>5 DEF SettlementCommit, FreeTable, TypeOK
<1>. QED BY <1>1, <1>2, <1>3, <1>4, <1>5, <1>6, <1>7, <1>8
         DEF PaymentBegin, PaymentProceed, ProcessWebhook, VerifyOfflinePayment

\* The commit of a bump writes well-typed lines and orders.
LEMMA BumpWritesTypes ==
    ASSUME TypeOK, NEW p \in Procs, job[p].order \in Orders, NEW bumped \in BOOLEAN, NEW written,
           BumpWrites(p, bumped, written)
    PROVE  TypeOK'
<1>1. pc' \in [Procs -> Labels] /\ job' \in [Procs -> Job]
  BY ReturnType DEF BumpWrites
<1>2. item' \in [Items -> Item]
  BY DEF BumpWrites, TypeOK, Item
<1>3. order' \in [Orders -> Order]
  <2>1. PICK status \in OrderStatuses \cup {"UNUSED"} :
           order' = [order EXCEPT ![job[p].order].status = status]
    BY DEF BumpWrites, StatusAfterBump, TypeOK, Order, OrderStatuses
  <2>. QED BY <2>1 DEF TypeOK, Order
<1>. QED BY <1>1, <1>2, <1>3 DEF BumpWrites, FreeOrder, TypeOK

\* Every statement of the bump bar keeps the types.
LEMMA KitchenTypes ==
    ASSUME TypeOK, HandlersOK, NEW p \in Procs, KitchenBegin(p) \/ KitchenProceed(p)
    PROVE  TypeOK'
<1>1. ASSUME NEW i \in Items, BumpRead(p, i)
      PROVE  TypeOK'
  <2>1. [NoJob EXCEPT !.order = item[i].order, !.items = {i}, !.flag = item[i].is_bumped] \in Job
    BY DEF NoJob, Job, TypeOK, Item
  <2>2. pc' \in [Procs -> Labels] /\ job' \in [Procs -> Job]
    BY <1>1, <2>1, GotoType DEF BumpRead, Labels
  <2>. QED BY <1>1, <2>2 DEF BumpRead, TypeOK, rows
<1>2. ASSUME BumpLock(p)
      PROVE  TypeOK'
  <2>1. [job[p] EXCEPT !.others = UnbumpedOf(job[p].order) \ job[p].items] \in Job
    BY DEF TypeOK, Job, UnbumpedOf, ItemsOf
  <2>2. pc' \in [Procs -> Labels] /\ job' \in [Procs -> Job]
    BY <1>2, <2>1, GotoType DEF BumpLock, Labels
  <2>. QED BY <1>2, <2>2 DEF BumpLock, LockOrder, TypeOK, rows
<1>3. ASSUME NEW o \in Orders, NEW s \in Stations, BumpStationLock(p, o, s)
      PROVE  TypeOK'
  <2>. DEFINE lines == {i \in ItemsOf(o) : StationOf[i] = s}
  <2>1. [NoJob EXCEPT !.order = o, !.items = lines, !.others = UnbumpedOf(o) \ lines] \in Job
    BY DEF NoJob, Job, UnbumpedOf, ItemsOf
  <2>2. pc' \in [Procs -> Labels] /\ job' \in [Procs -> Job]
    BY <1>3, <2>1, GotoType DEF BumpStationLock, Labels
  <2>. QED BY <1>3, <2>2 DEF BumpStationLock, LockOrder, TypeOK, rows
<1>4. ASSUME NEW bumped \in BOOLEAN, BumpCommit(p, bumped) \/ BumpStationCommit(p, bumped)
      PROVE  TypeOK'
  <2>1. job[p].order \in Orders
    BY <1>4 DEF BumpCommit, BumpStationCommit, HandlersOK, OrderInHand
  <2>. QED BY <1>4, <2>1, BumpWritesTypes DEF BumpCommit, BumpStationCommit
<1>. QED BY <1>1, <1>2, <1>3, <1>4 DEF KitchenBegin, KitchenProceed

\* Every step of the composition keeps the types.
LEMMA NextTypes ==
    ASSUME TypeOK, PaymentRowsOK, HandlersOK, Next
    PROVE  TypeOK'
<1>1. ASSUME NEW p \in Procs, Begin(p) \/ Proceed(p)
      PROVE  TypeOK'
  BY <1>1, SessionTypes, OrderTypes, PaymentTypes, KitchenTypes DEF Begin, Proceed
<1>2. ASSUME NEW p \in Procs, Abort(p)
      PROVE  TypeOK'
  <2>1. pc' \in [Procs -> Labels] /\ job' \in [Procs -> Job]
    BY <1>2, ReturnType DEF Abort
  <2>. QED BY <1>2, <2>1 DEF Abort, TypeOK, rows
<1>3. ASSUME NEW t \in Tables, CallStaff(t) \/ StaffAnswers(t)
      PROVE  TypeOK'
  BY <1>3 DEF CallStaff, StaffAnswers, TypeOK
<1>. QED BY <1>1, <1>2, <1>3 DEF Next

(***************************************************************************)
(* 2. What a step of handler p leaves to the others                        *)
(***************************************************************************)

LocksKept(p) ==
    \A q \in Procs \ {p} :
       /\ \A t \in Tables : tableLock[t] = q => tableLock'[t] = q
       /\ \A o \in Orders : orderLock[o] = q => orderLock'[o] = q

\* The other handlers stand where they stood and hold the locks they held.
OthersKeep(p) ==
    /\ \A q \in Procs \ {p} : pc'[q] = pc[q] /\ job'[q] = job[q]
    /\ LocksKept(p)

\* Rows are never deleted, which orders of a table are open changes only under its
\* lock, and payment keys in use are left to their users.
RowsGrow(p) ==
    /\ \A o \in Orders : order[o].status # "UNUSED" =>
          order'[o].status # "UNUSED" /\ order'[o].table = order[o].table
    /\ \A t \in Tables : tableLock[t] # p => OpenOrders(t)' = OpenOrders(t)
    /\ \A k \in Payments : payment[k].status # "UNUSED" =>
          payment'[k].status # "UNUSED" /\ payment'[k].order = payment[k].order
    /\ \A q \in Procs \ {p} : pc[q] \in {"offline_insert", "offline_table"} =>
          /\ payment'[job[q].pay].status = "UNUSED"
          /\ job'[p].pay # job[q].pay

InHand(p) == TableInHand(p) /\ OrderInHand(p) /\ PaymentInHand(p)

\* A handler that keeps away from what the others locked and lets rows only grow
\* leaves to every other handler what it has in hand.
LEMMA Frame ==
    ASSUME TypeOK, TypeOK', HandlersOK, NEW p \in Procs, OthersKeep(p), RowsGrow(p),
           InHand(p)'
    PROVE  HandlersOK'
<1>. SUFFICES ASSUME NEW q \in Procs \ {p}
              PROVE  TableInHand(q)' /\ OrderInHand(q)' /\ PaymentInHand(q)'
  BY DEF HandlersOK, InHand
<1>0. pc'[q] = pc[q] /\ job'[q] = job[q] /\ q # p
  BY DEF OthersKeep
<1>1. TableInHand(q)'
  <2>1. TableInHand(q)
    BY DEF HandlersOK
  <2>2. job[q].table \in Tables /\ tableLock[job[q].table] = q =>
           /\ tableLock'[job[q].table] = q
           /\ OpenOrders(job[q].table)' = OpenOrders(job[q].table)
    BY <1>0 DEF OthersKeep, LocksKept, RowsGrow
  <2>3. OpenOrders(job[q].table)' = {o \in Orders : /\ order'[o].table = (job[q].table)'
                                                   /\ order'[o].status \in OPEN_ORDER_STATUSES}
    BY DEF OpenOrders
  <2>. QED BY <1>0, <2>1, <2>2, <2>3 DEF TableInHand, OpenOrders
<1>2. OrderInHand(q)'
  <2>1. OrderInHand(q)
    BY DEF HandlersOK
  <2>. QED BY <1>0, <2>1 DEF OrderInHand, OthersKeep, LocksKept, RowsGrow
<1>3. PaymentInHand(q)'
  <2>1. PaymentInHand(q)
    BY DEF HandlersOK
  <2>2. pc[q] \in {"offline_insert", "offline_table"} =>
           \A r \in Procs \ {q} : job'[r].pay # job[q].pay
    BY <1>0, <2>1 DEF PaymentInHand, OthersKeep, RowsGrow
  <2>. QED BY <1>0, <2>1, <2>2 DEF PaymentInHand, RowsGrow
<1>. QED BY <1>1, <1>2, <1>3

\* Only the moving handler changes its control state.
LEMMA GotoOthers ==
    ASSUME TypeOK, NEW p \in Procs, NEW label, NEW local, Goto(p, label, local)
    PROVE  /\ pc'[p] = label /\ job'[p] = local
           /\ \A q \in Procs \ {p} : pc'[q] = pc[q] /\ job'[q] = job[q]
BY DEF TypeOK, Goto

\* A handler that has committed, or been rolled back, needs nothing any more.
LEMMA DoneInHand ==
    ASSUME NEW p \in Procs, pc'[p] \in {"idle", "dispatch", "dispatch_all"}
    PROVE  InHand(p)'
BY DEF InHand, TableInHand, OrderInHand, PaymentInHand

(***************************************************************************)
(* 3. The invariant: statements that write no order and no payment         *)
(***************************************************************************)

RowsOK ==
    /\ OrderRowsOK /\ PaymentRowsOK
    /\ OneOpenOrderPerTable /\ PaidIsCovered /\ PaidOrdersAreClosed

\* What is said of rows holds as long as the rows do not change.
LEMMA QuietRows ==
    ASSUME RowsOK, UNCHANGED <<order, payment, collected>>
    PROVE  RowsOK'
BY DEF RowsOK, OrderRowsOK, PaymentRowsOK, OneOpenOrderPerTable, OpenOrders, PaidIsCovered, Covered,
       PaidOrdersAreClosed

\* No other handler waits to insert the payment p works on.
KeyIsFree(p, k) ==
    \A q \in Procs \ {p} :
       pc[q] \in {"offline_insert", "offline_table"} => job[q].pay # k

\* A handler without a payment disturbs nobody's payment key.
LEMMA NoKeyIsFree ==
    ASSUME HandlersOK, NEW p \in Procs
    PROVE  KeyIsFree(p, None)
BY NoneIsNoRow DEF KeyIsFree, HandlersOK, PaymentInHand

\* A statement that writes no order and no payment keeps the invariant.
LEMMA QuietStep ==
    ASSUME IInv, TypeOK', NEW p \in Procs, NEW label, NEW local, Goto(p, label, local),
           UNCHANGED <<order, payment, collected>>, LocksKept(p),
           KeyIsFree(p, local.pay), InHand(p)'
    PROVE  IInv'
<1>1. OthersKeep(p) /\ job'[p] = local
  BY GotoOthers DEF OthersKeep, IInv
<1>2. RowsGrow(p)
  <2>1. \A t \in Tables : OpenOrders(t)' = OpenOrders(t)
    BY DEF OpenOrders
  <2>2. \A q \in Procs \ {p} : pc[q] \in {"offline_insert", "offline_table"} =>
           payment'[job[q].pay].status = "UNUSED" /\ job'[p].pay # job[q].pay
    BY <1>1 DEF IInv, HandlersOK, PaymentInHand, KeyIsFree
  <2>. QED BY <2>1, <2>2 DEF RowsGrow
<1>3. HandlersOK'
  BY <1>1, <1>2, Frame DEF IInv
<1>. QED BY <1>3, QuietRows DEF IInv, RowsOK

\* So does ending a request that wrote neither.
LEMMA QuietReturn ==
    ASSUME IInv, TypeOK', NEW p \in Procs, Return(p),
           UNCHANGED <<order, payment, collected>>, LocksKept(p)
    PROVE  IInv'
<1>1. Goto(p, "idle", NoJob) /\ NoJob.pay = None
  BY DEF Return, NoJob
<1>2. InHand(p)'
  BY <1>1, GotoOthers, DoneInHand DEF IInv
<1>3. KeyIsFree(p, NoJob.pay)
  BY <1>1, NoKeyIsFree DEF IInv
<1>. QED BY <1>1, <1>2, <1>3, QuietStep

\* Locking a free table takes it from nobody.
LEMMA LockTaken ==
    ASSUME TypeOK, NEW p \in Procs, NEW t \in Tables, TableFree(t), LockTable(p, t), UNCHANGED orderLock
    PROVE  LocksKept(p) /\ tableLock'[t] = p
BY NoneIsNoRow DEF LocksKept, TableFree, LockTable, TypeOK

\* Locking a free order takes it from nobody.
LEMMA OrderLockTaken ==
    ASSUME TypeOK, NEW p \in Procs, NEW o \in Orders, Lockable(o), LockOrder(p, o), UNCHANGED tableLock
    PROVE  LocksKept(p) /\ orderLock'[o] = p
BY NoneIsNoRow DEF LocksKept, Lockable, OrderFree, LockOrder, TypeOK

\* A handler that frees a table it holds takes it from nobody else.
LEMMA LockReleased ==
    ASSUME TypeOK, NEW p \in Procs, NEW t \in Tables, tableLock[t] = p, FreeTable(t), UNCHANGED orderLock
    PROVE  LocksKept(p)
BY DEF LocksKept, FreeTable, TypeOK

\* A QR scan keeps the invariant.
LEMMA SessionInvariant ==
    ASSUME IInv, TypeOK', NEW p \in Procs, SessionBegin(p) \/ SessionProceed(p)
    PROVE  IInv'
<1>1. ASSUME NEW t \in Tables, NEW verified \in BOOLEAN, VerifyPresenceRead(p, t, verified)
      PROVE  IInv'
  <2>. DEFINE mode == IF table[t].status = "AVAILABLE" THEN "occupy"
                      ELSE IF table[t].token = None THEN "rebind" ELSE "join"
              local(sid) == [NoJob EXCEPT !.table = t, !.sid = sid,
                                          !.verified = verified, !.seen = mode]
  <2>1. PICK sid \in Sessions : Goto(p, "verify", local(sid))
    BY <1>1 DEF VerifyPresenceRead, IInv, TypeOK, Table, FreshSessions
  <2>2. /\ UNCHANGED <<order, payment, collected>> /\ LocksKept(p)
    BY <1>1 DEF VerifyPresenceRead, rows, LocksKept
  <2>3. local(sid).pay = None /\ local(sid).table = t /\ local(sid).sid = sid
    BY DEF NoJob
  <2>4. pc'[p] = "verify" /\ job'[p] = local(sid)
    BY <2>1, GotoOthers DEF IInv
  <2>5. InHand(p)'
    BY <2>3, <2>4 DEF InHand, TableInHand, OrderInHand, PaymentInHand
  <2>6. KeyIsFree(p, local(sid).pay)
    BY <2>3, NoKeyIsFree DEF IInv
  <2>. HIDE DEF local
  <2>. QED BY <2>1, <2>2, <2>5, <2>6, QuietStep
<1>2. ASSUME VerifyPresenceCommit(p)
      PROVE  IInv'
  BY <1>2, QuietReturn DEF VerifyPresenceCommit, LocksKept
<1>. QED BY <1>1, <1>2 DEF SessionBegin, SessionProceed

(***************************************************************************)
(* 4. The invariant: statements that write orders or payments              *)
(***************************************************************************)

\* A statement that writes orders or payments keeps the invariant if the rows stay
\* right and the other handlers keep what they have in hand.
LEMMA WriteStep ==
    ASSUME IInv, TypeOK', NEW p \in Procs, OthersKeep(p), RowsGrow(p), InHand(p)', RowsOK'
    PROVE  IInv'
<1>1. HandlersOK'
  BY Frame DEF IInv
<1>. QED BY <1>1 DEF IInv, RowsOK

\* A commit ends the transaction: p is done and works on no payment.
LEMMA DoneStep ==
    ASSUME IInv, NEW p \in Procs, NEW label \in {"idle", "dispatch", "dispatch_all"},
           NEW local, local.pay = None, Goto(p, label, local), LocksKept(p)
    PROVE  OthersKeep(p) /\ InHand(p)' /\ job'[p].pay = None
<1>1. pc'[p] = label /\ job'[p] = local
  BY GotoOthers DEF IInv
<1>. QED BY <1>1, GotoOthers, DoneInHand DEF IInv, OthersKeep

\* A step that writes no payment grows the rows if it keeps what the orders need.
LEMMA OrdersGrow ==
    ASSUME IInv, NEW p \in Procs, UNCHANGED payment, job'[p].pay = None,
           \A o \in Orders : order[o].status # "UNUSED" =>
              order'[o].status # "UNUSED" /\ order'[o].table = order[o].table,
           \A t \in Tables : tableLock[t] # p => OpenOrders(t)' = OpenOrders(t)
    PROVE  RowsGrow(p)
<1>1. \A q \in Procs \ {p} : pc[q] \in {"offline_insert", "offline_table"} =>
         payment'[job[q].pay].status = "UNUSED" /\ job'[p].pay # job[q].pay
  BY NoneIsNoRow DEF IInv, HandlersOK, PaymentInHand
<1>. QED BY <1>1 DEF RowsGrow

\* Open orders stay open, unpaid whatever their totals become; other orders do not change.
LEMMA OpenOrdersStay ==
    ASSUME IInv, TypeOK', UNCHANGED <<payment, collected>>,
           \A o \in Orders :
              \/ order'[o] = order[o]
              \/ /\ order[o].status \in OPEN_ORDER_STATUSES
                 /\ order'[o].status \in OPEN_ORDER_STATUSES
                 /\ order'[o].table = order[o].table
                 /\ order'[o].is_paid = order[o].is_paid
    PROVE  /\ RowsOK'
           /\ \A t \in Tables : OpenOrders(t)' = OpenOrders(t)
           /\ \A o \in Orders : order[o].status # "UNUSED" =>
                 order'[o].status # "UNUSED" /\ order'[o].table = order[o].table
<1>1. \A t \in Tables : OpenOrders(t)' = OpenOrders(t)
  BY DEF OpenOrders
<1>2. \A o \in Orders : order[o].status \in OPEN_ORDER_STATUSES =>
         order[o].status # "UNUSED" /\ ~order[o].is_paid
  BY DEF IInv, PaidOrdersAreClosed, OPEN_ORDER_STATUSES, OrderStatuses
<1>3. OrderRowsOK'
  BY <1>2 DEF IInv, OrderRowsOK, OPEN_ORDER_STATUSES, OrderStatuses
<1>4. PaymentRowsOK'
  BY DEF IInv, PaymentRowsOK, OPEN_ORDER_STATUSES, OrderStatuses
<1>5. OneOpenOrderPerTable'
  BY <1>1 DEF IInv, OneOpenOrderPerTable
<1>6. PaidIsCovered'
  BY <1>2 DEF IInv, PaidIsCovered, Covered
<1>7. PaidOrdersAreClosed'
  BY <1>2 DEF IInv, PaidOrdersAreClosed
<1>. QED BY <1>1, <1>2, <1>3, <1>4, <1>5, <1>6, <1>7
         DEF RowsOK, OPEN_ORDER_STATUSES, OrderStatuses

\* After its commit a checkout is idle or owes a dispatch.
LEMMA CheckoutEnds ==
    ASSUME IInv, NEW p \in Procs, pc[p] = "checkout", NEW o \in Orders,
           NEW lines \in SUBSET Items, NEW status, CheckoutWrites(p, o, lines, status)
    PROVE  OthersKeep(p) /\ InHand(p)' /\ job'[p].pay = None
<1>1. LocksKept(p)
  BY LockReleased DEF CheckoutWrites, IInv, HandlersOK, TableInHand
<1>2. CASE Goto(p, "dispatch", [NoJob EXCEPT !.order = o, !.items = lines])
  <2>1. [NoJob EXCEPT !.order = o, !.items = lines].pay = None
    BY DEF NoJob
  <2>. QED BY <1>1, <1>2, <2>1, DoneStep
<1>3. CASE Return(p)
  <2>1. NoJob.pay = None
    BY DEF NoJob
  <2>. QED BY <1>1, <1>3, <2>1, DoneStep DEF Return
<1>. QED BY <1>2, <1>3 DEF CheckoutWrites

\* The checkout that creates a table's order keeps the invariant.
LEMMA CheckoutOpenInvariant ==
    ASSUME IInv, TypeOK', NEW p \in Procs, NEW lines \in SUBSET Items, NEW price \in Prices,
           NEW o \in Orders, CheckoutOpen(p, o, lines, price)
    PROVE  IInv'
<1>1. /\ pc[p] = "checkout" /\ job[p].order = None
      /\ order[o].status = "UNUSED" /\ UNCHANGED <<payment, collected>>
      /\ OthersKeep(p) /\ InHand(p)' /\ job'[p].pay = None
  BY CheckoutEnds DEF CheckoutOpen, CheckoutWrites
<1>2. PICK t \in Tables : t = job[p].table /\ tableLock[t] = p /\ OpenOrders(t) = {}
  BY <1>1 DEF IInv, HandlersOK, TableInHand
<1>3. PICK status \in {"SUBMITTED", "PENDING_STAFF_CONFIRMATION"} :
         order' = [order EXCEPT ![o] = [status |-> status, table |-> t, total |-> price,
                                        is_paid |-> FALSE]]
  BY <1>2 DEF CheckoutOpen
<1>4. /\ order'[o] = [status |-> status, table |-> t, total |-> price, is_paid |-> FALSE]
      /\ \A q \in Orders \ {o} : order'[q] = order[q]
  BY <1>3 DEF IInv, TypeOK
<1>5. collected[o] = 0
  BY <1>1 DEF IInv, OrderRowsOK
<1>6. /\ \A s \in Tables \ {t} : OpenOrders(s)' = OpenOrders(s)
      /\ OpenOrders(t)' = {o}
  BY <1>1, <1>2, <1>4 DEF OpenOrders, OPEN_ORDER_STATUSES, OrderStatuses
<1>7. \A q \in Orders : order[q].status # "UNUSED" =>
         order'[q].status # "UNUSED" /\ order'[q].table = order[q].table
  BY <1>1, <1>4
<1>8. RowsGrow(p)
  BY <1>1, <1>2, <1>6, <1>7, OrdersGrow
<1>9. RowsOK'
  <2>1. OrderRowsOK'
    BY <1>1, <1>2, <1>4 DEF IInv, OrderRowsOK
  <2>2. PaymentRowsOK'
    BY <1>1, <1>7 DEF IInv, PaymentRowsOK
  <2>3. OneOpenOrderPerTable'
    BY <1>6 DEF IInv, OneOpenOrderPerTable
  <2>4. PaidIsCovered'
    BY <1>1, <1>4 DEF IInv, PaidIsCovered, Covered
  <2>5. PaidOrdersAreClosed'
    BY <1>4 DEF IInv, PaidOrdersAreClosed
  <2>. QED BY <2>1, <2>2, <2>3, <2>4, <2>5 DEF RowsOK
<1>. QED BY <1>1, <1>8, <1>9, WriteStep

\* The checkout that extends an open order keeps the invariant.
LEMMA CheckoutAppendInvariant ==
    ASSUME IInv, TypeOK', NEW p \in Procs, NEW lines \in SUBSET Items, NEW price \in Prices,
           CheckoutAppend(p, lines, price)
    PROVE  IInv'
<1>. DEFINE o == job[p].order
<1>1. pc[p] = "checkout" /\ o # None /\ o \in OpenOrders(job[p].table)
  BY DEF CheckoutAppend, IInv, HandlersOK, TableInHand
<1>2. o \in Orders /\ order[o].status \in OPEN_ORDER_STATUSES
  BY <1>1 DEF OpenOrders
<1>3. /\ UNCHANGED <<payment, collected>> /\ OthersKeep(p) /\ InHand(p)' /\ job'[p].pay = None
  BY <1>1, <1>2, CheckoutEnds DEF CheckoutAppend, CheckoutWrites
<1>4. PICK status \in OPEN_ORDER_STATUSES :
         order' = [order EXCEPT ![o].total = @ + price, ![o].status = status]
  BY <1>2 DEF CheckoutAppend, OPEN_ORDER_STATUSES, OrderStatuses, IInv, TypeOK, Order
<1>5. /\ \A q \in Orders \ {o} : order'[q] = order[q]
      /\ order'[o].status = status /\ order'[o].table = order[o].table
      /\ order'[o].is_paid = order[o].is_paid
  BY <1>2, <1>4 DEF IInv, TypeOK, Order
<1>6. /\ RowsOK'
      /\ \A t \in Tables : OpenOrders(t)' = OpenOrders(t)
      /\ \A q \in Orders : order[q].status # "UNUSED" =>
            order'[q].status # "UNUSED" /\ order'[q].table = order[q].table
  BY <1>2, <1>3, <1>5, OpenOrdersStay
<1>. QED BY <1>3, <1>6, OrdersGrow, WriteStep

\* Fewer orders are open: order o leaves status from for to, or is paid and closed.
LEMMA OrdersRetire ==
    ASSUME IInv, TypeOK', NEW p \in Procs, NEW o \in Orders, job'[p].pay = None,
           order[o].status # "UNUSED", tableLock[order[o].table] = p,
           order'[o].table = order[o].table, order'[o].total = order[o].total,
           order'[o].status # "UNUSED",
           order[o].status \notin OPEN_ORDER_STATUSES =>
              order'[o].status \notin OPEN_ORDER_STATUSES,
           \A q \in Orders \ {o} : order'[q] = order[q]
    PROVE  /\ \A q \in Orders :
                 /\ order[q].status # "UNUSED" =>
                       order'[q].status # "UNUSED" /\ order'[q].table = order[q].table
                 /\ order'[q].total = order[q].total
           /\ \A t \in Tables : tableLock[t] # p => OpenOrders(t)' = OpenOrders(t)
           /\ OneOpenOrderPerTable'
<1>1. \A t \in Tables : OpenOrders(t)' \subseteq OpenOrders(t)
  BY DEF OpenOrders
<1>2. \A t \in Tables : tableLock[t] # p => OpenOrders(t)' = OpenOrders(t)
  BY DEF OpenOrders
<1>3. OneOpenOrderPerTable'
  BY <1>1 DEF IInv, OneOpenOrderPerTable
<1>. QED BY <1>2, <1>3 DEF IInv, TypeOK, Order

\* A status transition keeps the invariant.
LEMMA TransitionInvariant ==
    ASSUME IInv, TypeOK', NEW p \in Procs, NEW to \in OrderStatuses, NEW role,
           NEW reasoned \in BOOLEAN, TransitionCommit(p, to, role, reasoned)
    PROVE  IInv'
<1>1. /\ pc[p] = "transition" /\ UNCHANGED <<payment, collected>>
  BY DEF TransitionCommit
<1>2. PICK o \in Orders, t \in Tables :
         /\ o = job[p].order /\ t = job[p].table /\ tableLock[t] = p
         /\ order[o].status # "UNUSED" /\ order[o].table = t
  BY <1>1 DEF IInv, HandlersOK, TableInHand, OrderInHand
<1>3. /\ order' = [order EXCEPT ![o].status = to]
      /\ to \in VALID_TRANSITIONS(order[o].status)
  BY <1>2 DEF TransitionCommit, MayTransition
<1>4. /\ order[o].status \in OPEN_ORDER_STATUSES /\ to # "UNUSED"
      /\ ~order[o].is_paid
  BY <1>2, <1>3 DEF VALID_TRANSITIONS, OPEN_ORDER_STATUSES, OrderStatuses, IInv, TypeOK, Order,
                    PaidOrdersAreClosed
<1>5. /\ order'[o].status = to /\ order'[o].table = order[o].table
      /\ order'[o].total = order[o].total /\ order'[o].is_paid = order[o].is_paid
      /\ \A q \in Orders \ {o} : order'[q] = order[q]
  BY <1>3 DEF IInv, TypeOK, Order
<1>6. /\ OthersKeep(p) /\ InHand(p)' /\ job'[p].pay = None
  <2>1. LocksKept(p)
    BY <1>2, LockReleased DEF TransitionCommit, IInv
  <2>2. CASE Goto(p, "dispatch_all", [NoJob EXCEPT !.order = o])
    <3>1. [NoJob EXCEPT !.order = o].pay = None
      BY DEF NoJob
    <3>. QED BY <2>1, <2>2, <3>1, DoneStep
  <2>3. CASE Return(p)
    <3>1. NoJob.pay = None
      BY DEF NoJob
    <3>. QED BY <2>1, <2>3, <3>1, DoneStep DEF Return
  <2>. QED BY <1>2, <2>2, <2>3 DEF TransitionCommit
<1>7. /\ \A q \in Orders :
            /\ order[q].status # "UNUSED" =>
                  order'[q].status # "UNUSED" /\ order'[q].table = order[q].table
            /\ order'[q].total = order[q].total
      /\ \A t1 \in Tables : tableLock[t1] # p => OpenOrders(t1)' = OpenOrders(t1)
      /\ OneOpenOrderPerTable'
  BY <1>2, <1>4, <1>5, <1>6, OrdersRetire
<1>8. RowsGrow(p)
  BY <1>1, <1>6, <1>7, OrdersGrow
<1>9. RowsOK'
  <2>1. OrderRowsOK'
    BY <1>1, <1>2, <1>4, <1>5 DEF IInv, OrderRowsOK
  <2>2. PaymentRowsOK'
    BY <1>1, <1>7 DEF IInv, PaymentRowsOK
  <2>3. PaidIsCovered'
    BY <1>1, <1>5, <1>7 DEF IInv, PaidIsCovered, Covered
  <2>4. PaidOrdersAreClosed'
    BY <1>4, <1>5 DEF IInv, PaidOrdersAreClosed
  <2>. QED BY <1>7, <2>1, <2>2, <2>3, <2>4 DEF RowsOK
<1>. QED BY <1>6, <1>8, <1>9, WriteStep

\* Every statement of order_service keeps the invariant.
LEMMA OrderInvariant ==
    ASSUME IInv, TypeOK', NEW p \in Procs, OrderBegin(p) \/ OrderProceed(p)
    PROVE  IInv'
<1>1. ASSUME NEW g \in guests, CheckoutLock(p, g)
      PROVE  IInv'
  <2>1. PICK t \in Tables : t = g.table
    BY DEF IInv, TypeOK, GuestJWT
  <2>2. PICK o \in Orders \cup {None} :
           /\ Goto(p, "checkout",
                   [NoJob EXCEPT !.table = t, !.verified = g.verified, !.order = o,
                                 !.seen = IF o = None THEN "none" ELSE order[o].status])
           /\ IF o = None THEN OpenOrders(t) = {} ELSE o \in OpenOrders(t)
    BY <1>1, <2>1, NoneIsNoRow DEF CheckoutLock, OpenOrders
  <2>. DEFINE local == [NoJob EXCEPT !.table = t, !.verified = g.verified, !.order = o,
                                 !.seen = IF o = None THEN "none" ELSE order[o].status]
  <2>3. local.pay = None /\ local.table = t /\ local.order = o
    BY DEF NoJob
  <2>4. pc'[p] = "checkout" /\ job'[p] = local
    BY <2>2, GotoOthers DEF IInv
  <2>5. UNCHANGED <<order, payment, collected>> /\ LocksKept(p) /\ tableLock'[t] = p
    BY <1>1, <2>1, LockTaken DEF CheckoutLock, rows, IInv
  <2>6. OpenOrders(t)' = OpenOrders(t)
    BY <2>5 DEF OpenOrders
  <2>7. InHand(p)'
    BY <2>2, <2>3, <2>4, <2>5, <2>6 DEF InHand, TableInHand, OrderInHand, PaymentInHand
  <2>8. KeyIsFree(p, local.pay)
    BY <2>3, NoKeyIsFree DEF IInv
  <2>. QED BY <2>2, <2>5, <2>7, <2>8, QuietStep
<1>2. ASSUME CheckoutReject(p) \/ TransitionReject(p)
      PROVE  IInv'
  <2>1. job[p].table \in Tables /\ tableLock[job[p].table] = p
    BY <1>2 DEF CheckoutReject, TransitionReject, IInv, HandlersOK, TableInHand
  <2>. QED BY <1>2, <2>1, LockReleased, QuietReturn
           DEF CheckoutReject, TransitionReject, IInv, rows
<1>3. ASSUME CheckoutDispatch(p) \/ TransitionDispatch(p)
      PROVE  IInv'
  BY <1>3, QuietReturn DEF CheckoutDispatch, TransitionDispatch, LocksKept, rows
<1>4. ASSUME NEW o \in Orders, TransitionLock(p, o)
      PROVE  IInv'
  <2>1. PICK t \in Tables : t = order[o].table
    BY <1>4 DEF TransitionLock, IInv, OrderRowsOK
  <2>. DEFINE local == [NoJob EXCEPT !.order = o, !.table = order[o].table]
  <2>2. local.pay = None /\ local.table = t /\ local.order = o
    BY <2>1 DEF NoJob
  <2>3. Goto(p, "transition", local)
    BY <1>4 DEF TransitionLock
  <2>4. pc'[p] = "transition" /\ job'[p] = local
    BY <2>3, GotoOthers DEF IInv
  <2>5. UNCHANGED <<order, payment, collected>> /\ LocksKept(p) /\ tableLock'[t] = p
    BY <1>4, <2>1, LockTaken DEF TransitionLock, rows, IInv
  <2>6. InHand(p)'
    BY <1>4, <2>1, <2>2, <2>4, <2>5
       DEF InHand, TableInHand, OrderInHand, PaymentInHand, TransitionLock
  <2>7. KeyIsFree(p, local.pay)
    BY <2>2, NoKeyIsFree DEF IInv
  <2>. QED BY <2>3, <2>5, <2>6, <2>7, QuietStep
<1>. QED BY <1>1, <1>2, <1>3, <1>4, CheckoutOpenInvariant, CheckoutAppendInvariant,
            TransitionInvariant DEF OrderBegin, OrderProceed

\* A bump moves an order between open statuses only, so it needs no table lock.
LEMMA BumpWritesInvariant ==
    ASSUME IInv, TypeOK', NEW p \in Procs, NEW bumped \in BOOLEAN, NEW written,
           job[p].order \in Orders, orderLock[job[p].order] = p,
           BumpWrites(p, bumped, written)
    PROVE  IInv'
<1>. PICK o \in Orders : o = job[p].order
  OBVIOUS
<1>1. UNCHANGED <<payment, collected>> /\ OthersKeep(p) /\ InHand(p)' /\ job'[p].pay = None
  <2>1. LocksKept(p)
    BY DEF BumpWrites, FreeOrder, LocksKept, IInv, TypeOK
  <2>2. NoJob.pay = None
    BY DEF NoJob
  <2>. QED BY <2>1, <2>2, DoneStep DEF BumpWrites, Return
<1>2. PICK status :
         /\ order' = [order EXCEPT ![o].status = status]
         /\ status = order[o].status \/ /\ order[o].status \in {"SUBMITTED", "PREPARING"}
                                        /\ status \in {"PREPARING", "READY"}
  BY DEF BumpWrites, StatusAfterBump, IInv, TypeOK, Order
<1>3. /\ \A q \in Orders \ {o} : order'[q] = order[q]
      /\ order'[o].status = status /\ order'[o].table = order[o].table
      /\ order'[o].is_paid = order[o].is_paid /\ order'[o].total = order[o].total
  BY <1>2 DEF IInv, TypeOK, Order
<1>4. order'[o] = order[o] \/ /\ order[o].status \in OPEN_ORDER_STATUSES
                              /\ status \in OPEN_ORDER_STATUSES
  BY <1>2 DEF OPEN_ORDER_STATUSES, OrderStatuses, IInv, TypeOK, Order
<1>5. /\ RowsOK'
      /\ \A t \in Tables : OpenOrders(t)' = OpenOrders(t)
      /\ \A q \in Orders : order[q].status # "UNUSED" =>
            order'[q].status # "UNUSED" /\ order'[q].table = order[q].table
  BY <1>1, <1>3, <1>4, OpenOrdersStay
<1>. QED BY <1>1, <1>5, OrdersGrow, WriteStep

\* Every statement of the bump bar keeps the invariant.
LEMMA KitchenInvariant ==
    ASSUME IInv, TypeOK', NEW p \in Procs, KitchenBegin(p) \/ KitchenProceed(p)
    PROVE  IInv'
<1>1. ASSUME NEW i \in Items, BumpRead(p, i)
      PROVE  IInv'
  <2>. DEFINE local == [NoJob EXCEPT !.order = item[i].order, !.items = {i},
                                     !.flag = item[i].is_bumped]
  <2>1. Goto(p, "bump_lock", local) /\ UNCHANGED <<order, payment, collected>> /\ LocksKept(p)
    BY <1>1 DEF BumpRead, LocksKept, rows
  <2>2. local.pay = None /\ local.order \in Orders
    BY <1>1 DEF BumpRead, NoJob, IInv, TypeOK, Item
  <2>3. pc'[p] = "bump_lock" /\ job'[p] = local
    BY <2>1, GotoOthers DEF IInv
  <2>4. InHand(p)'
    BY <2>2, <2>3 DEF InHand, TableInHand, OrderInHand, PaymentInHand
  <2>5. KeyIsFree(p, local.pay)
    BY <2>2, NoKeyIsFree DEF IInv
  <2>. QED BY <2>1, <2>4, <2>5, QuietStep
<1>2. ASSUME BumpLock(p)
      PROVE  IInv'
  <2>. DEFINE local == [job[p] EXCEPT !.others = UnbumpedOf(job[p].order) \ job[p].items]
  <2>1. job[p].order \in Orders
    BY <1>2 DEF BumpLock, IInv, HandlersOK, OrderInHand
  <2>2. /\ Goto(p, "bump", local) /\ UNCHANGED <<order, payment, collected>>
        /\ LocksKept(p) /\ orderLock'[job[p].order] = p
    BY <1>2, <2>1, OrderLockTaken DEF BumpLock, IInv, rows
  <2>3. local.pay = job[p].pay /\ local.order = job[p].order
    BY DEF IInv, TypeOK, Job
  <2>4. pc'[p] = "bump" /\ job'[p] = local
    BY <2>2, GotoOthers DEF IInv
  <2>5. InHand(p)'
    BY <2>1, <2>2, <2>3, <2>4 DEF InHand, TableInHand, OrderInHand, PaymentInHand
  <2>6. KeyIsFree(p, local.pay)
    BY <2>3 DEF KeyIsFree, IInv, HandlersOK, PaymentInHand
  <2>. QED BY <2>2, <2>5, <2>6, QuietStep
<1>3. ASSUME NEW o \in Orders, NEW s \in Stations, BumpStationLock(p, o, s)
      PROVE  IInv'
  <2>. DEFINE lines == {i \in ItemsOf(o) : StationOf[i] = s}
              local == [NoJob EXCEPT !.order = o, !.items = lines,
                                     !.others = UnbumpedOf(o) \ lines]
  <2>1. /\ Goto(p, "bump_station", local) /\ UNCHANGED <<order, payment, collected>>
        /\ LocksKept(p) /\ orderLock'[o] = p
    BY <1>3, OrderLockTaken DEF BumpStationLock, IInv, rows
  <2>2. local.pay = None /\ local.order = o
    BY DEF NoJob
  <2>3. pc'[p] = "bump_station" /\ job'[p] = local
    BY <2>1, GotoOthers DEF IInv
  <2>4. InHand(p)'
    BY <2>1, <2>2, <2>3 DEF InHand, TableInHand, OrderInHand, PaymentInHand
  <2>5. KeyIsFree(p, local.pay)
    BY <2>2, NoKeyIsFree DEF IInv
  <2>. QED BY <2>1, <2>4, <2>5, QuietStep
<1>4. ASSUME NEW bumped \in BOOLEAN, BumpCommit(p, bumped) \/ BumpStationCommit(p, bumped)
      PROVE  IInv'
  <2>1. job[p].order \in Orders /\ orderLock[job[p].order] = p
    BY <1>4 DEF BumpCommit, BumpStationCommit, IInv, HandlersOK, OrderInHand
  <2>. QED BY <1>4, <2>1, BumpWritesInvariant DEF BumpCommit, BumpStationCommit
<1>. QED BY <1>1, <1>2, <1>3, <1>4 DEF KitchenBegin, KitchenProceed

\* Inserting payment k of order o.
LEMMA InsertPayment ==
    ASSUME IInv, TypeOK', NEW p \in Procs, NEW k \in Payments, NEW o \in Orders, NEW row,
           job[p].pay = k, payment[k].status = "UNUSED",
           row.status \notin {"UNUSED", "COMPLETED"}, row.order = o, row.amount > 0,
           order[o].status # "UNUSED",
           payment' = [payment EXCEPT ![k] = row], UNCHANGED <<order, collected>>,
           job'[p].pay = None
    PROVE  RowsGrow(p) /\ RowsOK'
<1>1. /\ payment'[k] = row
      /\ \A j \in Payments \ {k} : payment'[j] = payment[j]
  BY DEF IInv, TypeOK
<1>2. \A q \in Procs \ {p} : pc[q] \in {"offline_insert", "offline_table"} =>
         payment'[job[q].pay].status = "UNUSED" /\ job'[p].pay # job[q].pay
  BY <1>1, NoneIsNoRow DEF IInv, HandlersOK, PaymentInHand
<1>3. \A t \in Tables : OpenOrders(t)' = OpenOrders(t)
  BY DEF OpenOrders
<1>4. RowsGrow(p)
  BY <1>1, <1>2, <1>3 DEF RowsGrow
<1>5. PaymentRowsOK'
  BY <1>1 DEF IInv, PaymentRowsOK
<1>6. OrderRowsOK' /\ OneOpenOrderPerTable' /\ PaidIsCovered' /\ PaidOrdersAreClosed'
  BY DEF IInv, OrderRowsOK, OneOpenOrderPerTable, OpenOrders, PaidIsCovered, Covered,
         PaidOrdersAreClosed
<1>. QED BY <1>4, <1>5, <1>6 DEF RowsOK

\* A settlement, of a webhook or of the cashier, keeps the invariant.
LEMMA SettlementInvariant ==
    ASSUME IInv, TypeOK', NEW p \in Procs, SettlementCommit(p)
    PROVE  IInv'
<1>1. PICK o \in Orders, t \in Tables, k \in Payments :
         /\ o = job[p].order /\ t = job[p].table /\ k = job[p].pay /\ tableLock[t] = p
         /\ order[o].status # "UNUSED" /\ order[o].table = t
         /\ payment[k].status # "UNUSED" /\ payment[k].order = o
  BY DEF SettlementCommit, IInv, HandlersOK, TableInHand, OrderInHand, PaymentInHand
<1>. DEFINE sum  == CompletedWith(o, k)
            full == Covers(sum, order[o].total)
<1>2. /\ payment' = [payment EXCEPT ![k].status = "COMPLETED"]
      /\ collected' = [collected EXCEPT ![o] = sum]
      /\ order' = [order EXCEPT ![o].status = IF full THEN "CLOSED" ELSE @,
                                ![o].is_paid = full \/ @]
  BY <1>1 DEF SettlementCommit
<1>3. /\ \A q \in Orders \ {o} : order'[q] = order[q] /\ collected'[q] = collected[q]
      /\ order'[o].status = IF full THEN "CLOSED" ELSE order[o].status
      /\ order'[o].is_paid <=> full \/ order[o].is_paid
      /\ order'[o].table = order[o].table /\ order'[o].total = order[o].total
      /\ collected'[o] = sum
  BY <1>2 DEF IInv, TypeOK, Order
<1>4. /\ payment'[k].status = "COMPLETED" /\ payment'[k].order = o
      /\ payment'[k].amount = payment[k].amount
      /\ \A j \in Payments \ {k} : payment'[j] = payment[j]
  BY <1>1, <1>2 DEF IInv, TypeOK, Payment
<1>5. sum \in Nat /\ sum >= collected[o] /\ sum > 0
  <2>1. /\ payment[k].amount \in Nat /\ payment[k].amount > 0
        /\ payment[k].status = "COMPLETED" => collected[o] > 0
    BY <1>1 DEF IInv, PaymentRowsOK, TypeOK, Payment
  <2>2. collected[o] \in Nat
    BY DEF IInv, TypeOK
  <2>. QED BY <2>1, <2>2 DEF CompletedWith
<1>6. /\ OthersKeep(p) /\ InHand(p)' /\ job'[p].pay = None
  <2>1. LocksKept(p)
    BY <1>1, LockReleased DEF SettlementCommit, IInv
  <2>2. NoJob.pay = None
    BY DEF NoJob
  <2>. QED BY <2>1, <2>2, DoneStep DEF SettlementCommit, Return
<1>7. /\ \A q \in Orders :
            /\ order[q].status # "UNUSED" =>
                  order'[q].status # "UNUSED" /\ order'[q].table = order[q].table
            /\ order'[q].total = order[q].total
      /\ \A t1 \in Tables : tableLock[t1] # p => OpenOrders(t1)' = OpenOrders(t1)
      /\ OneOpenOrderPerTable'
  BY <1>1, <1>3, <1>6, OrdersRetire DEF OPEN_ORDER_STATUSES, OrderStatuses
<1>8. RowsGrow(p)
  <2>1. \A q \in Procs \ {p} : pc[q] \in {"offline_insert", "offline_table"} =>
           payment'[job[q].pay].status = "UNUSED" /\ job'[p].pay # job[q].pay
    BY <1>1, <1>4, <1>6, NoneIsNoRow DEF IInv, HandlersOK, PaymentInHand
  <2>. QED BY <1>1, <1>4, <1>7, <2>1 DEF RowsGrow
<1>9. RowsOK'
  <2>1. OrderRowsOK'
    BY <1>1, <1>3 DEF IInv, OrderRowsOK
  <2>2. PaymentRowsOK'
    <3>. HIDE DEF sum
    <3>. QED BY <1>1, <1>3, <1>4, <1>5 DEF IInv, PaymentRowsOK
  <2>3. PaidIsCovered'
    <3>1. order[o].is_paid => collected[o] >= order[o].total
      BY DEF IInv, PaidIsCovered, Covered
    <3>2. order'[o].is_paid => sum > 0 /\ sum >= order[o].total
      <4>1. collected[o] \in Nat /\ order[o].total \in Int
        BY DEF IInv, TypeOK, Order
      <4>. QED BY <1>3, <1>5, <3>1, <4>1 DEF Covers
    <3>. QED BY <1>3, <3>2 DEF IInv, PaidIsCovered, Covered
  <2>4. PaidOrdersAreClosed'
    BY <1>3 DEF IInv, PaidOrdersAreClosed
  <2>. QED BY <1>7, <2>1, <2>2, <2>3, <2>4 DEF RowsOK
<1>. QED BY <1>6, <1>8, <1>9, WriteStep

\* Every statement of payment_service keeps the invariant.
LEMMA PaymentInvariant ==
    ASSUME IInv, TypeOK', NEW p \in Procs, PaymentBegin(p) \/ PaymentProceed(p)
    PROVE  IInv'
<1>1. ASSUME NEW o \in Orders, NEW amount \in 1 .. order[o].total, NEW k \in Payments,
             InitiateRead(p, k, o, amount)
      PROVE  IInv'
  <2>. DEFINE local == [NoJob EXCEPT !.order = o, !.pay = k, !.amount = amount]
  <2>1. /\ Goto(p, "initiate", local) /\ UNCHANGED <<order, payment, collected>> /\ LocksKept(p)
    BY <1>1 DEF InitiateRead, LocksKept, rows
  <2>2. local.pay = k /\ local.order = o /\ local.amount = amount
    BY DEF NoJob
  <2>3. pc'[p] = "initiate" /\ job'[p] = local
    BY <2>1, GotoOthers DEF IInv
  <2>4. InHand(p)'
    BY <1>1, <2>1, <2>2, <2>3
       DEF InHand, TableInHand, OrderInHand, PaymentInHand, InitiateRead, Payable
  <2>5. KeyIsFree(p, local.pay)
    BY <1>1, <2>2 DEF InitiateRead, KeyIsFree
  <2>. QED BY <2>1, <2>4, <2>5, QuietStep
<1>2. ASSUME NEW o \in Orders, NEW amount \in 1 .. order[o].total, NEW k \in Payments,
             NEW g \in guests, OfflineRead(p, g, k, o, amount)
      PROVE  IInv'
  <2>. DEFINE local == [NoJob EXCEPT !.table = g.table, !.order = o, !.pay = k,
                                     !.amount = amount]
  <2>1. /\ Goto(p, "offline_insert", local) /\ UNCHANGED <<order, payment, collected>>
        /\ LocksKept(p) /\ k \in FreshPayments
    BY <1>2 DEF OfflineRead, LocksKept, rows
  <2>2. /\ local.pay = k /\ local.order = o /\ local.amount = amount
        /\ local.table = g.table /\ g.table \in Tables
    BY DEF NoJob, IInv, TypeOK, GuestJWT
  <2>3. /\ pc'[p] = "offline_insert" /\ job'[p] = local
        /\ \A q \in Procs \ {p} : job'[q] = job[q]
    BY <2>1, GotoOthers DEF IInv
  <2>4. /\ payment[k].status = "UNUSED" /\ \A q \in Procs : job[q].pay # k
        /\ order[o].status # "UNUSED"
    BY <1>2, <2>1 DEF FreshPayments, OfflineRead, Payable
  <2>5. InHand(p)'
    BY <2>1, <2>2, <2>3, <2>4 DEF InHand, TableInHand, OrderInHand, PaymentInHand
  <2>6. KeyIsFree(p, local.pay)
    BY <2>2, <2>4 DEF KeyIsFree
  <2>. QED BY <2>1, <2>5, <2>6, QuietStep
<1>3. ASSUME NEW k \in Payments, SettlementRead(p, k)
      PROVE  IInv'
  <2>1. PICK o \in Orders : /\ o = payment[k].order /\ payment[k].status # "UNUSED"
                            /\ order[o].status # "UNUSED"
    BY <1>3 DEF SettlementRead, IInv, PaymentRowsOK, OrderRowsOK
  <2>. DEFINE local == [NoJob EXCEPT !.pay = k, !.order = o, !.table = order[o].table]
  <2>2. /\ Goto(p, "settle_lock", local) /\ UNCHANGED <<order, payment, collected>>
        /\ LocksKept(p)
    BY <1>3, <2>1 DEF SettlementRead, LocksKept, rows
  <2>3. local.pay = k /\ local.order = o /\ local.table = order[o].table
    BY DEF NoJob
  <2>4. pc'[p] = "settle_lock" /\ job'[p] = local
    BY <2>2, GotoOthers DEF IInv
  <2>5. InHand(p)'
    BY <2>1, <2>2, <2>3, <2>4 DEF InHand, TableInHand, OrderInHand, PaymentInHand
  <2>6. KeyIsFree(p, local.pay)
    BY <2>1, <2>3 DEF KeyIsFree, IInv, HandlersOK, PaymentInHand
  <2>. QED BY <2>2, <2>5, <2>6, QuietStep
<1>4. ASSUME OfflineInsert(p)
      PROVE  IInv'
  <2>. DEFINE local == [job[p] EXCEPT !.flag = (table[job[p].table].status = "BILL_REQUESTED")]
  <2>1. /\ Goto(p, "offline_table", local) /\ UNCHANGED <<order, payment, collected>>
        /\ LocksKept(p) /\ pc[p] = "offline_insert"
    BY <1>4 DEF OfflineInsert, LocksKept, rows
  <2>2. /\ local.pay = job[p].pay /\ local.order = job[p].order
        /\ local.amount = job[p].amount /\ local.table = job[p].table
    BY DEF IInv, TypeOK, Job
  <2>3. /\ pc'[p] = "offline_table" /\ job'[p] = local
        /\ \A q \in Procs \ {p} : job'[q] = job[q]
    BY <2>1, GotoOthers DEF IInv
  <2>4. PaymentInHand(p)
    BY DEF IInv, HandlersOK
  <2>5. InHand(p)'
    BY <2>1, <2>2, <2>3, <2>4 DEF InHand, TableInHand, OrderInHand, PaymentInHand
  <2>6. KeyIsFree(p, local.pay)
    BY <2>2 DEF KeyIsFree, IInv, HandlersOK, PaymentInHand
  <2>. QED BY <2>1, <2>5, <2>6, QuietStep
<1>5. ASSUME SettlementLock(p)
      PROVE  IInv'
  <2>1. PICK t \in Tables : t = job[p].table /\ pc[p] = "settle_lock"
    BY <1>5 DEF SettlementLock, IInv, HandlersOK, OrderInHand, OrderRowsOK
  <2>2. /\ Goto(p, "settle", job[p]) /\ UNCHANGED <<order, payment, collected>>
        /\ LocksKept(p) /\ tableLock'[t] = p
    BY <1>5, <2>1, LockTaken DEF SettlementLock, IInv, rows
  <2>3. pc'[p] = "settle" /\ job'[p] = job[p]
    BY <2>2, GotoOthers DEF IInv
  <2>4. OrderInHand(p) /\ PaymentInHand(p)
    BY DEF IInv, HandlersOK
  <2>5. InHand(p)'
    BY <2>1, <2>2, <2>3, <2>4 DEF InHand, TableInHand, OrderInHand, PaymentInHand
  <2>6. KeyIsFree(p, job[p].pay)
    BY DEF KeyIsFree, IInv, HandlersOK, PaymentInHand
  <2>. QED BY <2>2, <2>5, <2>6, QuietStep
<1>6. ASSUME InitiateCommit(p)
      PROVE  IInv'
  <2>1. PICK k \in Payments, o \in Orders :
           /\ k = job[p].pay /\ o = job[p].order /\ job[p].amount > 0
           /\ order[o].status # "UNUSED"
    BY <1>6 DEF InitiateCommit, IInv, HandlersOK, PaymentInHand
  <2>2. Return(p) /\ UNCHANGED <<order, collected>> /\ LocksKept(p)
    BY <1>6 DEF InitiateCommit, LocksKept
  <2>3. CASE payment[k].status = "UNUSED"
    <3>. DEFINE row == [status |-> "PENDING", order |-> o, amount |-> job[p].amount]
    <3>1. payment' = [payment EXCEPT ![k] = row]
      BY <1>6, <2>1, <2>3 DEF InitiateCommit
    <3>2. OthersKeep(p) /\ InHand(p)' /\ job'[p].pay = None
      BY <2>2, DoneStep DEF Return, NoJob
    <3>3. row.status \notin {"UNUSED", "COMPLETED"} /\ row.order = o /\ row.amount > 0
      BY <2>1
    <3>. HIDE DEF row
    <3>. QED BY <2>1, <2>2, <2>3, <3>1, <3>2, <3>3, InsertPayment, WriteStep
  <2>4. CASE payment[k].status # "UNUSED"
    BY <1>6, <2>1, <2>2, <2>4, QuietReturn DEF InitiateCommit
  <2>. QED BY <2>3, <2>4
<1>7. ASSUME OfflineCommit(p)
      PROVE  IInv'
  <2>1. PICK k \in Payments, o \in Orders :
           /\ k = job[p].pay /\ o = job[p].order /\ job[p].amount > 0
           /\ order[o].status # "UNUSED"
           /\ payment[k].status = "UNUSED"
    BY <1>7 DEF OfflineCommit, IInv, HandlersOK, PaymentInHand
  <2>. DEFINE row == [status |-> "PENDING_CASHIER_VERIFICATION", order |-> o,
                      amount |-> job[p].amount]
  <2>2. /\ Return(p) /\ UNCHANGED <<order, collected>> /\ LocksKept(p)
        /\ payment' = [payment EXCEPT ![k] = row]
    BY <1>7, <2>1 DEF OfflineCommit, LocksKept
  <2>3. OthersKeep(p) /\ InHand(p)' /\ job'[p].pay = None
    BY <2>2, DoneStep DEF Return, NoJob
  <2>4. row.status \notin {"UNUSED", "COMPLETED"} /\ row.order = o /\ row.amount > 0
    BY <2>1
  <2>. HIDE DEF row
  <2>. QED BY <2>1, <2>2, <2>3, <2>4, InsertPayment, WriteStep
<1>. QED BY <1>1, <1>2, <1>3, <1>4, <1>5, <1>6, <1>7, SettlementInvariant
         DEF PaymentBegin, PaymentProceed, ProcessWebhook, VerifyOfflinePayment

\* A rollback or a crash keeps the invariant.
LEMMA AbortInvariant ==
    ASSUME IInv, TypeOK', NEW p \in Procs, Abort(p)
    PROVE  IInv'
<1>1. LocksKept(p)
  BY DEF Abort, LocksKept
<1>. QED BY <1>1, QuietReturn DEF Abort, rows

\* Service requests are of no concern to orders and payments.
LEMMA CallInvariant ==
    ASSUME IInv, TypeOK', UNCHANGED <<order, payment, collected, tableLock, orderLock, pc, job>>
    PROVE  IInv'
<1>1. RowsOK'
  BY QuietRows DEF IInv, RowsOK
<1>2. HandlersOK'
  BY DEF IInv, HandlersOK, TableInHand, OrderInHand, PaymentInHand, OpenOrders
<1>. QED BY <1>1, <1>2 DEF IInv, RowsOK

\* Every step of the composition keeps the invariant.
LEMMA NextInvariant ==
    ASSUME IInv, Next
    PROVE  IInv'
<1>1. TypeOK'
  BY NextTypes DEF IInv
<1>2. ASSUME NEW p \in Procs, Begin(p) \/ Proceed(p)
      PROVE  IInv'
  BY <1>1, <1>2, SessionInvariant, OrderInvariant, PaymentInvariant, KitchenInvariant
     DEF Begin, Proceed
<1>3. ASSUME NEW p \in Procs, Abort(p)
      PROVE  IInv'
  BY <1>1, <1>3, AbortInvariant
<1>4. ASSUME NEW t \in Tables, CallStaff(t) \/ StaffAnswers(t)
      PROVE  IInv'
  BY <1>1, <1>4, CallInvariant DEF CallStaff, StaffAnswers
<1>. QED BY <1>2, <1>3, <1>4 DEF Next

\* The empty database satisfies the invariant.
LEMMA InitInvariant == Init => IInv
<1>. SUFFICES ASSUME Init PROVE IInv
  OBVIOUS
<1>1. TypeOK
  BY NoJobType DEF Init, TypeOK, Table, TableStatuses, Order, Item, Payment, Labels
<1>2. OrderRowsOK /\ PaymentRowsOK /\ PaidIsCovered /\ PaidOrdersAreClosed
  BY DEF Init, OrderRowsOK, PaymentRowsOK, PaidIsCovered, Covered, PaidOrdersAreClosed
<1>3. OneOpenOrderPerTable
  BY DEF Init, OneOpenOrderPerTable, OpenOrders, OPEN_ORDER_STATUSES, OrderStatuses
<1>4. HandlersOK
  BY DEF Init, HandlersOK, TableInHand, OrderInHand, PaymentInHand
<1>. QED BY <1>1, <1>2, <1>3, <1>4 DEF IInv

\* The inductive invariant holds in every state of every behaviour.
THEOREM InvariantHolds == Spec => []IInv
<1>1. IInv /\ [Next]_vars => IInv'
  <2>. SUFFICES ASSUME IInv, [Next]_vars PROVE IInv'
    OBVIOUS
  <2>1. CASE Next
    BY <2>1, NextInvariant
  <2>2. CASE UNCHANGED vars
    BY <2>2 DEF vars, rows, IInv, TypeOK, OrderRowsOK, PaymentRowsOK, HandlersOK, TableInHand,
                OrderInHand, PaymentInHand, OneOpenOrderPerTable, OpenOrders, PaidIsCovered, Covered,
                PaidOrdersAreClosed
  <2>. QED BY <2>1, <2>2
<1>. QED BY InitInvariant, <1>1, PTL DEF Spec

\* Every variable keeps its type.
THEOREM TypeCorrect == Spec => []TypeOK
<1>1. IInv => TypeOK
  BY DEF IInv
<1>. QED BY <1>1, InvariantHolds, PTL

\* checkout_order never opens a second order at a table.
THEOREM OneOpenOrder == Spec => []OneOpenOrderPerTable
<1>1. IInv => OneOpenOrderPerTable
  BY DEF IInv
<1>. QED BY <1>1, InvariantHolds, PTL

\* An order marked paid is covered by its completed payments, for prices of either sign:
\* a settlement's sum holds at least its own payment, and nothing changes a paid order's total.
THEOREM PaidMeansCovered == Spec => []PaidIsCovered
<1>1. IInv => PaidIsCovered
  BY DEF IInv
<1>. QED BY <1>1, InvariantHolds, PTL

\* A paid order is closed, whatever else its handlers do.
THEOREM PaidMeansClosed == Spec => []PaidOrdersAreClosed
<1>1. IInv => PaidOrdersAreClosed
  BY DEF IInv
<1>. QED BY <1>1, InvariantHolds, PTL

(***************************************************************************)
(* 5. Closed orders are frozen, covering payments settle, and every step   *)
(*    is a step of OrderBill                                               *)
(***************************************************************************)

Frozen == \A o \in Orders : order[o].status = "CLOSED" =>
             order'[o].status = "CLOSED" /\ order'[o].total = order[o].total

\* What newly covers an order is a settlement that pays it, or a lower total.
Paying == \A o \in Orders : ~Covered(o) /\ Covered(o)' =>
             order'[o].is_paid \/ order'[o].total < order[o].total

bill == [o \in Orders |-> BillOf(o)]

\* What each step of the handlers does to closed orders, covered ones and the bills.
Billed == Frozen /\ Paying /\ (Bill!Next \/ bill' = bill)

\* Bills depend on the order rows and the collected sums alone.
LEMMA BillUnchanged ==
    ASSUME \A o \in Orders : BillOf(o)' = BillOf(o)
    PROVE  bill' = bill
BY DEF bill

\* A step that changes one order changes one bill.
LEMMA BillChanged ==
    ASSUME NEW o \in Orders, \A q \in Orders \ {o} : BillOf(q)' = BillOf(q)
    PROVE  bill' = [bill EXCEPT ![o] = BillOf(o)']
BY DEF bill

\* The columns of a bill.
LEMMA BillRow ==
    ASSUME NEW o \in Orders
    PROVE  /\ bill[o].state = BillState(o) /\ bill[o].table = order[o].table
           /\ bill[o].due = order[o].total /\ bill[o].paid = collected[o]
BY DEF bill, BillOf

\* A step that writes neither orders nor collected sums is a stutter of OrderBill.
LEMMA QuietBill ==
    ASSUME UNCHANGED <<order, collected>>
    PROVE  Billed
<1>1. \A o \in Orders : BillOf(o)' = BillOf(o)
  BY DEF BillOf, BillState
<1>2. Frozen /\ Paying
  BY DEF Frozen, Paying, Covered
<1>. QED BY <1>1, <1>2, BillUnchanged DEF Billed

\* The statuses are distinct, so each order has one state of the bill.
LEMMA BillStates ==
    ASSUME NEW o \in Orders
    PROVE  /\ order[o].status = "UNUSED" => BillState(o) = "none"
           /\ order[o].status \in OPEN_ORDER_STATUSES => BillState(o) = "open"
           /\ order[o].status = "CANCELLED" => BillState(o) = "cancelled"
           /\ order[o].status = "CLOSED" =>
                 BillState(o) = IF order[o].is_paid THEN "settled" ELSE "closed"
BY DEF BillState, OPEN_ORDER_STATUSES, OrderStatuses

\* An order whose status, if it changes, stays among those of an open bill.
LEMMA OpenBillStays ==
    ASSUME IInv, NEW o \in Orders, UNCHANGED collected,
           \A q \in Orders \ {o} : order'[q] = order[q],
           order[o].status \in OPEN_ORDER_STATUSES, order'[o].status \in OPEN_ORDER_STATUSES
    PROVE  /\ BillState(o) = "open" /\ BillState(o)' = "open"
           /\ \A q \in Orders \ {o} : BillOf(q)' = BillOf(q)
<1>1. BillState(o) = "open"
  BY BillStates
<1>2. BillState(o)' = "open"
  BY DEF BillState, OPEN_ORDER_STATUSES, OrderStatuses
<1>3. \A q \in Orders \ {o} : BillOf(q)' = BillOf(q)
  BY DEF BillOf, BillState
<1>. QED BY <1>1, <1>2, <1>3

\* A bump is a stutter of OrderBill: kitchen progress is no concern of the bill.
LEMMA BumpBill ==
    ASSUME IInv, NEW p \in Procs, NEW bumped \in BOOLEAN, NEW written,
           job[p].order \in Orders, BumpWrites(p, bumped, written)
    PROVE  Billed
<1>. PICK o \in Orders : o = job[p].order
  OBVIOUS
<1>1. PICK status :
         /\ order' = [order EXCEPT ![o].status = status]
         /\ status = order[o].status \/ /\ order[o].status \in {"SUBMITTED", "PREPARING"}
                                        /\ status \in {"PREPARING", "READY"}
  BY DEF BumpWrites, StatusAfterBump, IInv, TypeOK, Order
<1>2. /\ \A q \in Orders \ {o} : order'[q] = order[q]
      /\ order'[o].status = status /\ order'[o].table = order[o].table
      /\ order'[o].is_paid = order[o].is_paid /\ order'[o].total = order[o].total
  BY <1>1 DEF IInv, TypeOK, Order
<1>. UNCHANGED collected
  BY DEF BumpWrites
<1>3. CASE status = order[o].status
  <2>1. order' = order
    BY <1>1, <1>3 DEF IInv, TypeOK, Order
  <2>. QED BY <1>2, <2>1, QuietBill
<1>4. CASE order[o].status \in {"SUBMITTED", "PREPARING"} /\ status \in {"PREPARING", "READY"}
  <2>1. order[o].status \in OPEN_ORDER_STATUSES /\ status \in OPEN_ORDER_STATUSES
    BY <1>4 DEF OPEN_ORDER_STATUSES, OrderStatuses
  <2>2. \A q \in Orders : BillOf(q)' = BillOf(q)
    BY <1>2, <2>1, OpenBillStays DEF BillOf
  <2>3. Frozen /\ Paying
    BY <1>2, <1>4 DEF Frozen, Paying, Covered
  <2>. QED BY <2>2, <2>3, BillUnchanged DEF Billed
<1>. QED BY <1>1, <1>3, <1>4

\* A checkout places or extends a bill.
LEMMA CheckoutBill ==
    ASSUME IInv, NEW p \in Procs, NEW lines \in SUBSET Items, NEW price \in Prices,
           \/ \E o \in Orders : CheckoutOpen(p, o, lines, price)
           \/ CheckoutAppend(p, lines, price)
    PROVE  Billed
<1>1. ASSUME NEW o \in Orders, CheckoutOpen(p, o, lines, price)
      PROVE  Billed
  <2>1. PICK t \in Tables : /\ t = job[p].table /\ OpenOrders(t) = {}
                            /\ order[o].status = "UNUSED" /\ collected[o] = 0
                            /\ UNCHANGED collected
    BY <1>1 DEF CheckoutOpen, CheckoutWrites, IInv, HandlersOK, TableInHand, OrderRowsOK
  <2>2. PICK status \in {"SUBMITTED", "PENDING_STAFF_CONFIRMATION"} :
           order' = [order EXCEPT ![o] = [status |-> status, table |-> t, total |-> price,
                                          is_paid |-> FALSE]]
    BY <1>1, <2>1 DEF CheckoutOpen
  <2>3. /\ order'[o] = [status |-> status, table |-> t, total |-> price, is_paid |-> FALSE]
        /\ \A q \in Orders \ {o} : order'[q] = order[q]
    BY <2>2 DEF IInv, TypeOK
  <2>4. BillOf(o)' = [state |-> "open", table |-> t, due |-> price, paid |-> 0]
    BY <2>1, <2>3 DEF BillOf, BillState, OPEN_ORDER_STATUSES, OrderStatuses
  <2>5. \A q \in Orders \ {o} : BillOf(q)' = BillOf(q)
    BY <2>1, <2>3 DEF BillOf, BillState
  <2>6. \A q \in Orders : bill[q].state = "open" => bill[q].table # t
    <3>1. \A q \in Orders : BillState(q) = "open" => order[q].status \in OPEN_ORDER_STATUSES
      BY BillStates DEF IInv, TypeOK, Order, OPEN_ORDER_STATUSES, OrderStatuses
    <3>. QED BY <2>1, <3>1, BillRow DEF OpenOrders
  <2>7. bill[o].state = "none"
    BY <2>1, BillRow, BillStates
  <2>8. bill' = [bill EXCEPT ![o] = [state |-> "open", table |-> t, due |-> price, paid |-> 0]]
    BY <2>4, <2>5, BillChanged
  <2>9. Bill!Place(o, t, price)
    BY <2>6, <2>7, <2>8 DEF Bill!Place, bill
  <2>10. Frozen /\ Paying
    BY <2>1, <2>3 DEF Frozen, Paying, Covered
  <2>. QED BY <2>9, <2>10 DEF Billed, Bill!Next
<1>2. ASSUME CheckoutAppend(p, lines, price)
      PROVE  Billed
  <2>1. PICK o \in Orders : o = job[p].order /\ order[o].status \in OPEN_ORDER_STATUSES
    BY <1>2 DEF CheckoutAppend, IInv, HandlersOK, TableInHand, OpenOrders
  <2>2. PICK status \in OPEN_ORDER_STATUSES :
           order' = [order EXCEPT ![o].total = @ + price, ![o].status = status]
    BY <1>2, <2>1 DEF CheckoutAppend, OPEN_ORDER_STATUSES, OrderStatuses, IInv, TypeOK, Order
  <2>3. /\ \A q \in Orders \ {o} : order'[q] = order[q]
        /\ order'[o].status = status /\ order'[o].table = order[o].table
        /\ order'[o].is_paid = order[o].is_paid /\ order'[o].total = order[o].total + price
        /\ UNCHANGED collected
    BY <1>2, <2>2 DEF IInv, TypeOK, Order, CheckoutAppend, CheckoutWrites
  <2>4. /\ BillState(o) = "open" /\ BillState(o)' = "open"
        /\ \A q \in Orders \ {o} : BillOf(q)' = BillOf(q)
    BY <2>1, <2>3, OpenBillStays
  <2>5. BillOf(o)' = [bill[o] EXCEPT !.due = @ + price]
    BY <2>3, <2>4 DEF BillOf, bill
  <2>6. bill' = [bill EXCEPT ![o].due = @ + price]
    BY <2>4, <2>5, BillChanged
  <2>7. Bill!Extend(o, price)
    BY <2>4, <2>6, BillRow DEF Bill!Extend, bill
  <2>8. Frozen
    BY <2>1, <2>3 DEF Frozen, OPEN_ORDER_STATUSES
  <2>9. Paying
    <3>1. order[o].total \in Int /\ order[o].total + price \in Int /\ collected[o] \in Nat
      BY PricesAreIntegers DEF IInv, TypeOK, Order
    <3>. QED BY <2>3, <3>1 DEF Paying, Covered
  <2>. QED BY <2>7, <2>8, <2>9 DEF Billed, Bill!Next
<1>. QED BY <1>1, <1>2

\* A transition to CLOSED or CANCELLED retires a bill, any other is a stutter.
LEMMA TransitionBill ==
    ASSUME IInv, NEW p \in Procs, NEW to \in OrderStatuses, NEW role,
           NEW reasoned \in BOOLEAN, TransitionCommit(p, to, role, reasoned)
    PROVE  Billed
<1>1. PICK o \in Orders : o = job[p].order
  BY DEF TransitionCommit, IInv, HandlersOK, OrderInHand
<1>2. /\ order' = [order EXCEPT ![o].status = to] /\ UNCHANGED collected
      /\ to \in VALID_TRANSITIONS(order[o].status)
  BY <1>1 DEF TransitionCommit, MayTransition
<1>3. order[o].status \in OPEN_ORDER_STATUSES
  BY <1>2 DEF VALID_TRANSITIONS, OPEN_ORDER_STATUSES, OrderStatuses, IInv, TypeOK, Order
<1>4. /\ order'[o].status = to /\ order'[o].table = order[o].table
      /\ order'[o].total = order[o].total /\ order'[o].is_paid = order[o].is_paid
      /\ \A q \in Orders \ {o} : order'[q] = order[q]
  BY <1>2 DEF IInv, TypeOK, Order
<1>5. Frozen /\ Paying
  BY <1>2, <1>3, <1>4 DEF Frozen, Paying, Covered, OPEN_ORDER_STATUSES
<1>6. CASE to \in OPEN_ORDER_STATUSES
  <2>1. \A q \in Orders : BillOf(q)' = BillOf(q)
    BY <1>2, <1>3, <1>4, <1>6, OpenBillStays DEF BillOf
  <2>. QED BY <1>5, <2>1, BillUnchanged DEF Billed
<1>7. CASE to \in {"CLOSED", "CANCELLED"}
  <2>. DEFINE state == IF to = "CLOSED" THEN "closed" ELSE "cancelled"
  <2>1. ~order[o].is_paid /\ bill[o].state = "open"
    BY <1>3, BillRow, BillStates DEF IInv, PaidOrdersAreClosed, OPEN_ORDER_STATUSES
  <2>2. BillState(o)' = state
    BY <1>4, <1>7, <2>1 DEF BillState, OPEN_ORDER_STATUSES, OrderStatuses
  <2>3. BillOf(o)' = [bill[o] EXCEPT !.state = state]
    BY <1>2, <1>4, <2>2 DEF BillOf, bill
  <2>4. \A q \in Orders \ {o} : BillOf(q)' = BillOf(q)
    BY <1>2, <1>4 DEF BillOf, BillState
  <2>5. bill' = [bill EXCEPT ![o].state = state]
    BY <2>3, <2>4, BillChanged
  <2>6. Bill!Retire(o, state)
    BY <2>1, <2>5 DEF Bill!Retire, bill
  <2>. QED BY <1>5, <2>6 DEF Billed, Bill!Next
<1>. QED BY <1>6, <1>7 DEF OPEN_ORDER_STATUSES

\* A settlement receives its payment, or a notice of one that is booked already.
LEMMA SettlementBill ==
    ASSUME IInv, NEW p \in Procs, SettlementCommit(p)
    PROVE  Billed
<1>1. PICK o \in Orders, k \in Payments :
         /\ o = job[p].order /\ k = job[p].pay /\ order[o].status # "UNUSED"
         /\ payment[k].status # "UNUSED" /\ payment[k].order = o
  BY DEF SettlementCommit, IInv, HandlersOK, OrderInHand, PaymentInHand
<1>. DEFINE sum  == CompletedWith(o, k)
            full == Covers(sum, order[o].total)
<1>2. /\ collected' = [collected EXCEPT ![o] = sum]
      /\ order' = [order EXCEPT ![o].status = IF full THEN "CLOSED" ELSE @,
                                ![o].is_paid = full \/ @]
  BY <1>1 DEF SettlementCommit
<1>3. /\ \A q \in Orders \ {o} : order'[q] = order[q] /\ collected'[q] = collected[q]
      /\ order'[o].status = IF full THEN "CLOSED" ELSE order[o].status
      /\ order'[o].is_paid <=> full \/ order[o].is_paid
      /\ order'[o].table = order[o].table /\ order'[o].total = order[o].total
      /\ collected'[o] = sum
  BY <1>2 DEF IInv, TypeOK, Order
<1>4. sum \in Nat \ {0} /\ sum >= collected[o]
  <2>1. /\ payment[k].amount \in Nat /\ payment[k].amount > 0 /\ collected[o] \in Nat
        /\ payment[k].status = "COMPLETED" => collected[o] > 0
    BY <1>1 DEF IInv, PaymentRowsOK, TypeOK, Payment
  <2>. QED BY <2>1 DEF CompletedWith
<1>5. Frozen /\ Paying
  BY <1>3 DEF Frozen, Paying, Covered, Covers
<1>6. \A q \in Orders \ {o} : BillOf(q)' = BillOf(q)
  BY <1>3 DEF BillOf, BillState
<1>7. BillState(o)' = IF full THEN "settled" ELSE BillState(o)
  <2>1. CASE full
    BY <1>3, <2>1 DEF BillState, OPEN_ORDER_STATUSES, OrderStatuses
  <2>2. CASE ~full
    <3>1. order'[o].status = order[o].status /\ (order'[o].is_paid <=> order[o].is_paid)
      BY <1>3, <2>2
    <3>2. BillState(o)' = BillState(o)
      BY <3>1 DEF BillState
    <3>. QED BY <2>2, <3>2
  <2>. QED BY <2>1, <2>2
<1>8. BillOf(o)' = [state |-> IF sum >= bill[o].due THEN "settled" ELSE bill[o].state,
                    table |-> bill[o].table, due |-> bill[o].due, paid |-> sum]
  <2>1. full <=> sum >= bill[o].due
    BY BillRow DEF Covers
  <2>2. BillOf(o)' = [state |-> IF full THEN "settled" ELSE BillState(o),
                      table |-> order[o].table, due |-> order[o].total, paid |-> sum]
    BY <1>3, <1>7 DEF BillOf
  <2>. HIDE DEF full, sum
  <2>. QED BY <2>1, <2>2, BillRow
<1>9. bill' = [bill EXCEPT ![o] =
         [state |-> IF sum >= @.due THEN "settled" ELSE @.state,
          table |-> @.table, due |-> @.due, paid |-> sum]]
  BY <1>6, <1>8, BillChanged
<1>10. bill[o].state # "none"
  BY <1>1, BillRow, BillStates DEF IInv, TypeOK, Order, OPEN_ORDER_STATUSES
<1>11. bill'[o].paid = sum
  BY <1>3 DEF bill, BillOf
<1>12. Bill!Receive(o)
  <2>. HIDE DEF sum
  <2>. QED BY <1>4, <1>9, <1>10, <1>11, BillRow DEF Bill!Receive, bill
<1>. QED BY <1>5, <1>12 DEF Billed, Bill!Next

\* Every other statement of a handler leaves orders and their payments alone.
LEMMA NextBilled ==
    ASSUME IInv, Next
    PROVE  Billed
<1>1. ASSUME NEW p \in Procs, Begin(p)
      PROVE  UNCHANGED <<order, collected>>
  BY <1>1 DEF Begin, SessionBegin, VerifyPresenceRead, OrderBegin, CheckoutLock,
     TransitionLock, PaymentBegin, InitiateRead, OfflineRead, ProcessWebhook,
     VerifyOfflinePayment, SettlementRead, KitchenBegin, BumpRead, BumpStationLock, rows
<1>2. ASSUME NEW p \in Procs, Proceed(p)
      PROVE  Billed
  <2>1. CASE SessionProceed(p)
    BY <2>1, QuietBill DEF SessionProceed, VerifyPresenceCommit
  <2>2. CASE OrderProceed(p)
    <3>1. CASE CheckoutReject(p) \/ CheckoutDispatch(p) \/ TransitionReject(p) \/ TransitionDispatch(p)
      BY <3>1, QuietBill DEF CheckoutReject, CheckoutDispatch, TransitionReject,
         TransitionDispatch, rows
    <3>2. CASE \E lines \in SUBSET Items, price \in Prices :
                  \/ \E o \in Orders : CheckoutOpen(p, o, lines, price)
                  \/ CheckoutAppend(p, lines, price)
      BY <3>2, CheckoutBill
    <3>3. CASE \E to \in OrderStatuses, role \in StaffRoles \cup {Guest}, reasoned \in BOOLEAN :
                  TransitionCommit(p, to, role, reasoned)
      BY <3>3, TransitionBill
    <3>. QED BY <2>2, <3>1, <3>2, <3>3 DEF OrderProceed
  <2>3. CASE PaymentProceed(p)
    <3>1. CASE InitiateCommit(p) \/ OfflineInsert(p) \/ OfflineCommit(p) \/ SettlementLock(p)
      BY <3>1, QuietBill DEF InitiateCommit, OfflineInsert, OfflineCommit, SettlementLock, rows
    <3>2. CASE SettlementCommit(p)
      BY <3>2, SettlementBill
    <3>. QED BY <2>3, <3>1, <3>2 DEF PaymentProceed
  <2>4. CASE KitchenProceed(p)
    <3>1. CASE BumpLock(p)
      BY <3>1, QuietBill DEF BumpLock, rows
    <3>2. ASSUME NEW bumped \in BOOLEAN, BumpCommit(p, bumped) \/ BumpStationCommit(p, bumped)
          PROVE  Billed
      <4>1. job[p].order \in Orders
        BY <3>2 DEF BumpCommit, BumpStationCommit, IInv, HandlersOK, OrderInHand
      <4>. QED BY <3>2, <4>1, BumpBill DEF BumpCommit, BumpStationCommit
    <3>. QED BY <2>4, <3>1, <3>2 DEF KitchenProceed
  <2>. QED BY <1>2, <2>1, <2>2, <2>3, <2>4 DEF Proceed
<1>3. ASSUME NEW p \in Procs, Abort(p)
      PROVE  UNCHANGED <<order, collected>>
  BY <1>3 DEF Abort, rows
<1>4. ASSUME NEW t \in Tables, CallStaff(t) \/ StaffAnswers(t)
      PROVE  UNCHANGED <<order, collected>>
  BY <1>4 DEF CallStaff, StaffAnswers
<1>. QED BY <1>1, <1>2, <1>3, <1>4, QuietBill DEF Next

\* No handler reopens a closed order or changes what it cost.
THEOREM ClosedFrozen == Spec => ClosedOrdersAreFrozen
<1>1. IInv /\ [Next]_vars =>
        [\A o \in Orders : order[o].status = "CLOSED" =>
            /\ order'[o].status = "CLOSED"
            /\ order'[o].total = order[o].total]_order
  <2>1. ASSUME IInv, Next PROVE Frozen
    BY <2>1, NextBilled DEF Billed
  <2>2. UNCHANGED vars => UNCHANGED order
    BY DEF vars, rows
  <2>. QED BY <2>1, <2>2 DEF Frozen
<1>. QED BY <1>1, InvariantHolds, PTL DEF Spec, ClosedOrdersAreFrozen

\* Of several settlements the one whose sum covers the order marks it paid; nothing else
\* but a deduction covers an order.
THEOREM CoveringIsPaying == Spec => CoveringPays
<1>1. IInv /\ [Next]_vars =>
        [\A o \in Orders : ~Covered(o) /\ Covered(o)' =>
            order'[o].is_paid \/ order'[o].total < order[o].total]_<<order, collected>>
  <2>1. ASSUME IInv, Next PROVE Paying
    BY <2>1, NextBilled DEF Billed
  <2>2. UNCHANGED vars => UNCHANGED <<order, collected>>
    BY DEF vars, rows
  <2>. QED BY <2>1, <2>2 DEF Paying
<1>. QED BY <1>1, InvariantHolds, PTL DEF Spec, CoveringPays

\* The concurrent handlers bill their tables as OrderBill does: one open bill per
\* table, each payment booked once, settlement by the payment that covers.
THEOREM Refinement == Spec => ImplementsOrderBill
<1>1. Init => Bill!Init
  <2>. SUFFICES ASSUME Init PROVE \A o \in Orders : BillOf(o) = Bill!NoBill
    BY DEF Bill!Init
  <2>1. ASSUME NEW o \in Orders
        PROVE  /\ order[o].status = "UNUSED" /\ order[o].table = None
               /\ order[o].total = 0 /\ collected[o] = 0
    BY DEF Init
  <2>. QED BY <2>1, BillStates DEF BillOf, Bill!NoBill
<1>2. IInv /\ [Next]_vars => [Bill!Next]_bill
  <2>1. ASSUME IInv, Next PROVE Bill!Next \/ bill' = bill
    BY <2>1, NextBilled DEF Billed
  <2>2. ASSUME UNCHANGED vars PROVE bill' = bill
    <3>1. \A o \in Orders : BillOf(o)' = BillOf(o)
      BY <2>2 DEF BillOf, BillState, vars, rows
    <3>. QED BY <3>1, BillUnchanged
  <2>. QED BY <2>1, <2>2
<1>. QED BY <1>1, <1>2, InvariantHolds, PTL DEF Spec, ImplementsOrderBill, Bill!Spec, bill

(***************************************************************************)
(* 6. Served tables have orders                                            *)
(***************************************************************************)

Serving == {"AWAITING_FOOD", "EATING"}

\* At table t the step serves nobody, or has an open order, or keeps what there was.
KeepsServing(t) ==
    \/ table'[t].status \notin Serving
    \/ OpenOrders(t)' # {}
    \/ table'[t].status = table[t].status /\ OpenOrders(t) \subseteq OpenOrders(t)'

LEMMA ServedStep ==
    ASSUME ServedTablesHaveOrders, \A t \in Tables : KeepsServing(t)
    PROVE  ServedTablesHaveOrders'
BY DEF ServedTablesHaveOrders, KeepsServing, Serving

\* Scans and offline requests leave orders alone and serve nobody.
LEMMA ScanServes ==
    ASSUME IInv, NEW p \in Procs, VerifyPresenceCommit(p) \/ OfflineCommit(p), NEW t \in Tables
    PROVE  KeepsServing(t)
<1>1. PICK u \in Tables : u = job[p].table
  BY DEF VerifyPresenceCommit, OfflineCommit, IInv, HandlersOK, TableInHand, PaymentInHand
<1>2. OpenOrders(t)' = OpenOrders(t)
  BY DEF VerifyPresenceCommit, OfflineCommit, OpenOrders
<1>3. table'[t].status \in {table[t].status, "BROWSING", "BILL_REQUESTED"}
  <2>1. CASE VerifyPresenceCommit(p)
    BY <1>1, <2>1 DEF VerifyPresenceCommit, IInv, TypeOK, Table
  <2>2. CASE OfflineCommit(p)
    BY <1>1, <2>2 DEF OfflineCommit, IInv, TypeOK, Table
  <2>. QED BY <2>1, <2>2
<1>. QED BY <1>2, <1>3 DEF KeepsServing, Serving

\* A checkout leaves its table with the order it added to.
LEMMA CheckoutServes ==
    ASSUME IInv, NEW p \in Procs, NEW lines \in SUBSET Items, NEW price \in Prices,
           (\E o \in Orders : CheckoutOpen(p, o, lines, price)) \/ CheckoutAppend(p, lines, price),
           NEW t \in Tables
    PROVE  KeepsServing(t)
<1>1. PICK u \in Tables : u = job[p].table
  BY DEF CheckoutOpen, CheckoutAppend, IInv, HandlersOK, TableInHand
<1>2. t # u => table'[t] = table[t]
  BY <1>1 DEF CheckoutOpen, CheckoutAppend, CheckoutWrites, IInv, TypeOK
<1>3. PICK o \in Orders, status \in OPEN_ORDER_STATUSES :
         /\ order[o].status = "UNUSED" \/ o \in OpenOrders(u)
         /\ order'[o].status = status /\ order'[o].table = u
         /\ \A q \in Orders \ {o} : order'[q] = order[q]
  <2>1. ASSUME NEW o \in Orders, CheckoutOpen(p, o, lines, price)
        PROVE  /\ order[o].status = "UNUSED"
               /\ order'[o].status \in OPEN_ORDER_STATUSES /\ order'[o].table = u
               /\ \A q \in Orders \ {o} : order'[q] = order[q]
    BY <1>1, <2>1 DEF CheckoutOpen, OPEN_ORDER_STATUSES, OrderStatuses, IInv, TypeOK
  <2>2. ASSUME CheckoutAppend(p, lines, price)
        PROVE  /\ job[p].order \in Orders /\ job[p].order \in OpenOrders(u)
               /\ order'[job[p].order].status \in OPEN_ORDER_STATUSES
               /\ order'[job[p].order].table = u
               /\ \A q \in Orders \ {job[p].order} : order'[q] = order[q]
    <3>1. job[p].order \in OpenOrders(u)
      BY <1>1, <2>2 DEF CheckoutAppend, IInv, HandlersOK, TableInHand
    <3>. QED BY <2>2, <3>1 DEF CheckoutAppend, OpenOrders, OPEN_ORDER_STATUSES, OrderStatuses,
                               IInv, TypeOK, Order
  <2>. QED BY <2>1, <2>2
<1>4. CASE t = u
  BY <1>3, <1>4 DEF KeepsServing, OpenOrders
<1>5. CASE t # u
  BY <1>2, <1>3, <1>5 DEF KeepsServing, OpenOrders, OPEN_ORDER_STATUSES, OrderStatuses
<1>. QED BY <1>4, <1>5

\* A transition out of the open statuses serves the table no longer, unless another
\* order is open there.
LEMMA TransitionServes ==
    ASSUME IInv, NEW p \in Procs, NEW to \in OrderStatuses, NEW role,
           NEW reasoned \in BOOLEAN, TransitionCommit(p, to, role, reasoned), NEW t \in Tables
    PROVE  KeepsServing(t)
<1>1. PICK o \in Orders, u \in Tables :
         /\ o = job[p].order /\ u = job[p].table
         /\ order[o].status # "UNUSED" /\ order[o].table = u
  BY DEF TransitionCommit, IInv, HandlersOK, TableInHand, OrderInHand
<1>2. /\ order'[o].status = to /\ order'[o].table = u
      /\ \A q \in Orders \ {o} : order'[q] = order[q]
  BY <1>1 DEF TransitionCommit, IInv, TypeOK, Order
<1>3. t # u => table'[t] = table[t]
  BY <1>1 DEF TransitionCommit
<1>4. table'[u].status = TableStatusAfter(to, OpenOrders(u) \ {o} # {}, table[u].status)
  BY <1>1 DEF TransitionCommit, IInv, TypeOK, Table
<1>5. CASE t # u
  BY <1>1, <1>2, <1>3, <1>5 DEF KeepsServing, OpenOrders
<1>6. CASE t = u /\ to \in OPEN_ORDER_STATUSES
  BY <1>2, <1>6 DEF KeepsServing, OpenOrders
<1>7. CASE t = u /\ to \notin OPEN_ORDER_STATUSES
  <2>1. CASE OpenOrders(u) \ {o} # {}
    BY <1>2, <1>7, <2>1 DEF KeepsServing, OpenOrders
  <2>2. CASE OpenOrders(u) \ {o} = {}
    <3>1. to \in {"CLOSED", "CANCELLED"}
      BY <1>7 DEF OPEN_ORDER_STATUSES
    <3>2. table'[u].status \in {"AVAILABLE", "BROWSING"}
      BY <1>4, <2>2, <3>1 DEF TableStatusAfter
    <3>. QED BY <1>7, <3>2 DEF KeepsServing, Serving
  <2>. QED BY <2>1, <2>2
<1>. QED BY <1>5, <1>6, <1>7

\* A settlement that closes an order frees the table.
LEMMA SettlementServes ==
    ASSUME IInv, NEW p \in Procs, SettlementCommit(p), NEW t \in Tables
    PROVE  KeepsServing(t)
<1>1. PICK o \in Orders, u \in Tables :
         /\ o = job[p].order /\ u = job[p].table
         /\ order[o].status # "UNUSED" /\ order[o].table = u
  BY DEF SettlementCommit, IInv, HandlersOK, TableInHand, OrderInHand
<1>2. PICK full : full = Covers(CompletedWith(o, job[p].pay), order[o].total)
  OBVIOUS
<1>3. /\ \A q \in Orders \ {o} : order'[q] = order[q]
      /\ order'[o].table = u
      /\ ~full => order'[o].status = order[o].status
      /\ t # u => table'[t] = table[t]
      /\ IF full THEN table'[u].status = "AVAILABLE" ELSE table'[u] = table[u]
  BY <1>1, <1>2 DEF SettlementCommit, IInv, TypeOK, Order
<1>4. CASE t = u /\ full
  BY <1>3, <1>4 DEF KeepsServing, Serving
<1>5. CASE t # u \/ ~full
  BY <1>1, <1>3, <1>5 DEF KeepsServing, OpenOrders
<1>. QED BY <1>4, <1>5

\* A bump leaves open orders open.
LEMMA BumpServes ==
    ASSUME IInv, NEW p \in Procs, NEW bumped \in BOOLEAN, NEW written,
           job[p].order \in Orders, BumpWrites(p, bumped, written), NEW t \in Tables
    PROVE  KeepsServing(t)
<1>. PICK o \in Orders : o = job[p].order
  OBVIOUS
<1>1. PICK status :
         /\ order' = [order EXCEPT ![o].status = status] /\ table' = table
         /\ status = order[o].status \/ status \in {"PREPARING", "READY"}
  BY DEF BumpWrites, StatusAfterBump, IInv, TypeOK, Order
<1>2. /\ order'[o].table = order[o].table
      /\ order[o].status \in OPEN_ORDER_STATUSES => order'[o].status \in OPEN_ORDER_STATUSES
      /\ \A q \in Orders \ {o} : order'[q] = order[q]
  BY <1>1 DEF OPEN_ORDER_STATUSES, OrderStatuses, IInv, TypeOK, Order
<1>. QED BY <1>1, <1>2 DEF KeepsServing, OpenOrders

\* Every other statement of a handler writes neither tables nor orders.
LEMMA NextServes ==
    ASSUME IInv, Next, NEW t \in Tables
    PROVE  KeepsServing(t)
<1>0. UNCHANGED <<table, order>> => KeepsServing(t)
  BY DEF KeepsServing, OpenOrders
<1>1. ASSUME NEW p \in Procs, Begin(p)
      PROVE  UNCHANGED <<table, order>>
  BY <1>1 DEF Begin, SessionBegin, VerifyPresenceRead, OrderBegin, CheckoutLock,
     TransitionLock, PaymentBegin, InitiateRead, OfflineRead, ProcessWebhook,
     VerifyOfflinePayment, SettlementRead, KitchenBegin, BumpRead, BumpStationLock, rows
<1>2. ASSUME NEW p \in Procs, Proceed(p)
      PROVE  KeepsServing(t)
  <2>1. CASE SessionProceed(p)
    BY <2>1, ScanServes DEF SessionProceed
  <2>2. CASE OrderProceed(p)
    <3>1. CASE CheckoutReject(p) \/ CheckoutDispatch(p) \/ TransitionReject(p) \/ TransitionDispatch(p)
      BY <1>0, <3>1 DEF CheckoutReject, CheckoutDispatch, TransitionReject, TransitionDispatch, rows
    <3>. QED BY <2>2, <3>1, CheckoutServes, TransitionServes DEF OrderProceed
  <2>3. CASE PaymentProceed(p)
    <3>1. CASE InitiateCommit(p) \/ OfflineInsert(p) \/ SettlementLock(p)
      BY <1>0, <3>1 DEF InitiateCommit, OfflineInsert, SettlementLock, rows
    <3>. QED BY <2>3, <3>1, ScanServes, SettlementServes DEF PaymentProceed
  <2>4. CASE KitchenProceed(p)
    <3>1. CASE BumpLock(p)
      BY <1>0, <3>1 DEF BumpLock, rows
    <3>2. ASSUME NEW bumped \in BOOLEAN, BumpCommit(p, bumped) \/ BumpStationCommit(p, bumped)
          PROVE  KeepsServing(t)
      <4>1. job[p].order \in Orders
        BY <3>2 DEF BumpCommit, BumpStationCommit, IInv, HandlersOK, OrderInHand
      <4>. QED BY <3>2, <4>1, BumpServes DEF BumpCommit, BumpStationCommit
    <3>. QED BY <2>4, <3>1, <3>2 DEF KitchenProceed
  <2>. QED BY <1>2, <2>1, <2>2, <2>3, <2>4 DEF Proceed
<1>3. ASSUME NEW u \in Tables, CallStaff(u) \/ StaffAnswers(u)
      PROVE  UNCHANGED <<table, order>>
  BY <1>3 DEF CallStaff, StaffAnswers
<1>4. ASSUME NEW p \in Procs, Abort(p)
      PROVE  UNCHANGED <<table, order>>
  BY <1>4 DEF Abort, rows
<1>. QED BY <1>0, <1>1, <1>2, <1>3, <1>4 DEF Next

\* No order of cancel, close, checkout and settlement leaves a table waiting for food
\* that nobody ordered.
THEOREM ServedTables == Spec => []ServedTablesHaveOrders
<1>1. Init => ServedTablesHaveOrders
  BY DEF Init, ServedTablesHaveOrders
<1>2. IInv /\ ServedTablesHaveOrders /\ [Next]_vars => ServedTablesHaveOrders'
  <2>1. UNCHANGED vars /\ ServedTablesHaveOrders => ServedTablesHaveOrders'
    BY DEF vars, rows, ServedTablesHaveOrders, OpenOrders
  <2>. QED BY <2>1, NextServes, ServedStep
<1>. QED BY <1>1, <1>2, InvariantHolds, PTL DEF Spec

(***************************************************************************)
(* 7. The last bump finishes its order                                     *)
(***************************************************************************)

\* A bump works on lines of its order; those it took for unbumped still are, because
\* it holds the order.
BumpInHand(p) ==
    /\ pc[p] \in {"bump_lock", "bump", "bump_station"} =>
          job[p].items \subseteq ItemsOf(job[p].order)
    /\ pc[p] \in {"bump", "bump_station"} =>
          job[p].others \subseteq UnbumpedOf(job[p].order) \ job[p].items

BumpsOK == \A p \in Procs : BumpInHand(p)

\* Lines stay with their order, and only who holds it bumps them.
ItemsKept(p) ==
    \A i \in Items : item[i].order # None =>
       /\ item'[i].order = item[i].order
       /\ item'[i].is_bumped = item[i].is_bumped \/ orderLock[item[i].order] = p

LEMMA BumpFrame ==
    ASSUME IInv, BumpsOK, NEW p \in Procs, ItemsKept(p), BumpInHand(p)',
           \A q \in Procs \ {p} : pc'[q] = pc[q] /\ job'[q] = job[q]
    PROVE  BumpsOK'
<1>. SUFFICES ASSUME NEW q \in Procs \ {p}
              PROVE  BumpInHand(q)'
  BY DEF BumpsOK
<1>1. /\ pc'[q] = pc[q] /\ job'[q] = job[q]
      /\ BumpInHand(q) /\ OrderInHand(q)
  BY DEF BumpsOK, IInv, HandlersOK
<1>2. job[q].order \in Orders => ItemsOf(job[q].order) \subseteq ItemsOf(job[q].order)'
  BY NoneIsNoRow DEF ItemsKept, ItemsOf
<1>3. job[q].order \in Orders /\ orderLock[job[q].order] = q =>
         UnbumpedOf(job[q].order) \subseteq UnbumpedOf(job[q].order)'
  BY NoneIsNoRow DEF ItemsKept, UnbumpedOf, ItemsOf
<1>4. pc[q] \in {"bump_lock", "bump", "bump_station"} =>
         job[q].items \subseteq ItemsOf(job[q].order)'
  BY <1>1, <1>2 DEF BumpInHand, OrderInHand
<1>5. pc[q] \in {"bump", "bump_station"} =>
         job[q].others \subseteq UnbumpedOf(job[q].order)' \ job[q].items
  BY <1>1, <1>3 DEF BumpInHand, OrderInHand
<1>6. /\ ItemsOf(job[q].order)' = {i \in Items : item'[i].order = (job[q].order)'}
      /\ UnbumpedOf(job[q].order)' = {i \in ItemsOf(job[q].order)' : ~item'[i].is_bumped}
  BY DEF ItemsOf, UnbumpedOf
<1>. QED BY <1>1, <1>4, <1>5, <1>6 DEF BumpInHand, ItemsOf, UnbumpedOf

\* A statement of p that neither writes lines nor leads to a bump.
LEMMA NoBump ==
    ASSUME IInv, BumpsOK, NEW p \in Procs, ItemsKept(p), NEW label, NEW local,
           label \notin {"bump_lock", "bump", "bump_station"}, Goto(p, label, local)
    PROVE  BumpsOK'
<1>1. /\ pc'[p] = label
      /\ \A q \in Procs \ {p} : pc'[q] = pc[q] /\ job'[q] = job[q]
  BY GotoOthers DEF IInv
<1>2. BumpInHand(p)'
  BY <1>1 DEF BumpInHand
<1>. QED BY <1>1, <1>2, BumpFrame

LEMMA SameItems ==
    ASSUME NEW p, UNCHANGED item
    PROVE  ItemsKept(p)
BY DEF ItemsKept

\* The statements of the bump bar keep what bumps rely on.
LEMMA KitchenBumps ==
    ASSUME IInv, BumpsOK, NEW p \in Procs, KitchenBegin(p) \/ KitchenProceed(p)
    PROVE  BumpsOK'
<1>. TypeOK
  BY DEF IInv
<1>1. ASSUME NEW i \in Items, BumpRead(p, i)
      PROVE  BumpsOK'
  <2>. PICK local : /\ local.items = {i} /\ local.order = item[i].order
                    /\ Goto(p, "bump_lock", local)
    BY <1>1 DEF BumpRead, NoJob
  <2>1. /\ pc'[p] = "bump_lock" /\ job'[p] = local /\ UNCHANGED item
        /\ \A q \in Procs \ {p} : pc'[q] = pc[q] /\ job'[q] = job[q]
    BY <1>1, GotoOthers DEF BumpRead, rows
  <2>2. BumpInHand(p)'
    BY <2>1 DEF BumpInHand, ItemsOf
  <2>. QED BY <2>1, <2>2, SameItems, BumpFrame
<1>2. ASSUME NEW o \in Orders, NEW s \in Stations, BumpStationLock(p, o, s)
      PROVE  BumpsOK'
  <2>. PICK local : /\ local.items \subseteq ItemsOf(o) /\ local.order = o
                    /\ local.others = UnbumpedOf(o) \ local.items
                    /\ Goto(p, "bump_station", local)
    BY <1>2 DEF BumpStationLock, NoJob
  <2>1. /\ pc'[p] = "bump_station" /\ job'[p] = local /\ UNCHANGED item
        /\ \A q \in Procs \ {p} : pc'[q] = pc[q] /\ job'[q] = job[q]
    BY <1>2, GotoOthers DEF BumpStationLock, rows
  <2>2. BumpInHand(p)'
    BY <2>1 DEF BumpInHand, ItemsOf, UnbumpedOf
  <2>. QED BY <2>1, <2>2, SameItems, BumpFrame
<1>3. ASSUME BumpLock(p)
      PROVE  BumpsOK'
  <2>. PICK local : /\ local.items = job[p].items /\ local.order = job[p].order
                    /\ local.others = UnbumpedOf(job[p].order) \ job[p].items
                    /\ Goto(p, "bump", local)
    BY <1>3 DEF BumpLock, TypeOK, Job
  <2>1. /\ pc'[p] = "bump" /\ job'[p] = local /\ UNCHANGED item
        /\ \A q \in Procs \ {p} : pc'[q] = pc[q] /\ job'[q] = job[q]
    BY <1>3, GotoOthers DEF BumpLock, rows
  <2>2. job[p].items \subseteq ItemsOf(job[p].order)
    BY <1>3 DEF BumpLock, BumpsOK, BumpInHand
  <2>3. BumpInHand(p)'
    BY <2>1, <2>2 DEF BumpInHand, ItemsOf, UnbumpedOf
  <2>. QED BY <2>1, <2>3, SameItems, BumpFrame
<1>4. ASSUME NEW bumped \in BOOLEAN, BumpCommit(p, bumped) \/ BumpStationCommit(p, bumped)
      PROVE  BumpsOK'
  <2>1. /\ job[p].order \in Orders /\ orderLock[job[p].order] = p
        /\ job[p].items \subseteq ItemsOf(job[p].order)
    BY <1>4 DEF BumpCommit, BumpStationCommit, BumpsOK, BumpInHand, IInv, HandlersOK, OrderInHand
  <2>2. PICK written \in SUBSET job[p].items : BumpWrites(p, bumped, written)
    BY <1>4 DEF BumpCommit, BumpStationCommit
  <2>3. \A i \in Items : /\ item'[i].order = item[i].order
                         /\ i \notin written => item'[i] = item[i]
    BY <2>2 DEF BumpWrites, TypeOK, Item
  <2>4. ItemsKept(p)
    BY <2>1, <2>3 DEF ItemsKept, ItemsOf
  <2>. QED BY <2>2, <2>4, NoBump DEF BumpWrites, Return
<1>. QED BY <1>1, <1>2, <1>3, <1>4 DEF KitchenBegin, KitchenProceed

\* All other statements leave lines alone, but for the new ones of a checkout.
LEMMA NextBumps ==
    ASSUME IInv, BumpsOK, Next
    PROVE  BumpsOK'
<1>1. ASSUME NEW p \in Procs, SessionBegin(p) \/ OrderBegin(p) \/ PaymentBegin(p)
      PROVE  BumpsOK'
  <2>1. UNCHANGED item
    BY <1>1 DEF SessionBegin, VerifyPresenceRead, OrderBegin, CheckoutLock, TransitionLock,
       PaymentBegin, InitiateRead, OfflineRead, ProcessWebhook, VerifyOfflinePayment,
       SettlementRead, rows
  <2>2. \E label, local : /\ label \notin {"bump_lock", "bump", "bump_station"}
                          /\ Goto(p, label, local)
    BY <1>1 DEF SessionBegin, VerifyPresenceRead, OrderBegin, CheckoutLock, TransitionLock,
       PaymentBegin, InitiateRead, OfflineRead, ProcessWebhook, VerifyOfflinePayment,
       SettlementRead
  <2>. QED BY <2>1, <2>2, SameItems, NoBump
<1>2. ASSUME NEW p \in Procs, SessionProceed(p) \/ PaymentProceed(p) \/ Abort(p)
      PROVE  BumpsOK'
  <2>1. UNCHANGED item
    BY <1>2 DEF SessionProceed, VerifyPresenceCommit, PaymentProceed, InitiateCommit,
       OfflineInsert, OfflineCommit, SettlementLock, SettlementCommit, Abort, rows
  <2>2. \E label, local : /\ label \notin {"bump_lock", "bump", "bump_station"}
                          /\ Goto(p, label, local)
    BY <1>2 DEF SessionProceed, VerifyPresenceCommit, PaymentProceed, InitiateCommit,
       OfflineInsert, OfflineCommit, SettlementLock, SettlementCommit, Abort, Return
  <2>. QED BY <2>1, <2>2, SameItems, NoBump
<1>3. ASSUME NEW p \in Procs, OrderProceed(p)
      PROVE  BumpsOK'
  <2>1. ItemsKept(p)
    <3>1. ASSUME NEW o, NEW lines, NEW status, CheckoutWrites(p, o, lines, status)
          PROVE  ItemsKept(p)
      BY <3>1 DEF CheckoutWrites, ItemsKept
    <3>2. CASE UNCHANGED item
      BY <3>2, SameItems
    <3>. QED BY <1>3, <3>1, <3>2 DEF OrderProceed, CheckoutOpen, CheckoutAppend, CheckoutReject,
                CheckoutDispatch, TransitionCommit, TransitionReject, TransitionDispatch, rows
  <2>2. \E label, local : /\ label \notin {"bump_lock", "bump", "bump_station"}
                          /\ Goto(p, label, local)
    BY <1>3 DEF OrderProceed, CheckoutOpen, CheckoutAppend, CheckoutWrites, CheckoutReject,
       CheckoutDispatch, TransitionCommit, TransitionReject, TransitionDispatch, Return
  <2>. QED BY <2>1, <2>2, NoBump
<1>4. ASSUME NEW t \in Tables, CallStaff(t) \/ StaffAnswers(t)
      PROVE  BumpsOK'
  BY <1>4 DEF CallStaff, StaffAnswers, BumpsOK, BumpInHand, ItemsOf, UnbumpedOf
<1>. QED BY <1>1, <1>2, <1>3, <1>4, KitchenBumps DEF Next, Begin, Proceed

\* Whoever bumps the last line leaves the order out of SUBMITTED and PREPARING.
LEMMA LastBump ==
    ASSUME IInv, BumpsOK, Next, NEW i \in Items, item[i].order # None,
           ~item[i].is_bumped, item'[i].is_bumped,
           \A j \in ItemsOf(item[i].order) : item'[j].is_bumped
    PROVE  order'[item[i].order].status \notin {"SUBMITTED", "PREPARING"}
<1>. TypeOK
  BY DEF IInv
<1>1. PICK p \in Procs, bumped \in BOOLEAN : BumpCommit(p, bumped) \/ BumpStationCommit(p, bumped)
  <2>1. item' # item
    OBVIOUS
  <2>2. ASSUME NEW p \in Procs, NEW o, NEW lines, NEW status, CheckoutWrites(p, o, lines, status)
        PROVE  FALSE
    BY <2>2 DEF CheckoutWrites
  <2>3. ASSUME NEW p \in Procs PROVE ~Begin(p)
    BY <2>1 DEF Begin, SessionBegin, VerifyPresenceRead, OrderBegin, CheckoutLock,
       TransitionLock, PaymentBegin, InitiateRead, OfflineRead, ProcessWebhook,
       VerifyOfflinePayment, SettlementRead, KitchenBegin, BumpRead, BumpStationLock, rows
  <2>4. ASSUME NEW p \in Procs
        PROVE  ~SessionProceed(p) /\ ~PaymentProceed(p) /\ ~Abort(p) /\ ~BumpLock(p)
    BY <2>1 DEF SessionProceed, VerifyPresenceCommit, PaymentProceed, InitiateCommit,
       OfflineInsert, OfflineCommit, SettlementLock, SettlementCommit, Abort, BumpLock, rows
  <2>5. ASSUME NEW p \in Procs PROVE ~OrderProceed(p)
    BY <2>1, <2>2 DEF OrderProceed, CheckoutOpen, CheckoutAppend, CheckoutReject,
       CheckoutDispatch, TransitionCommit, TransitionReject, TransitionDispatch, rows
  <2>6. ASSUME NEW t \in Tables PROVE ~CallStaff(t) /\ ~StaffAnswers(t)
    BY <2>1 DEF CallStaff, StaffAnswers
  <2>. QED BY <2>3, <2>4, <2>5, <2>6 DEF Next, Proceed, KitchenProceed
<1>2. PICK o \in Orders, lines \in SUBSET Items, others \in SUBSET Items :
         /\ o = job[p].order /\ lines = job[p].items /\ others = job[p].others
         /\ lines \subseteq ItemsOf(o) /\ others \subseteq UnbumpedOf(o) \ lines
  BY <1>1 DEF BumpCommit, BumpStationCommit, BumpsOK, BumpInHand, HandlersOK, OrderInHand, IInv,
              TypeOK, Job
<1>3. PICK written \in SUBSET lines : BumpWrites(p, bumped, written)
  BY <1>1, <1>2 DEF BumpCommit, BumpStationCommit
<1>4. i \in written /\ bumped
  BY <1>3 DEF BumpWrites, Item, TypeOK
<1>5. item[i].order = o
  BY <1>2, <1>4 DEF ItemsOf
<1>6. others = {}
  <2>1. \A j \in others : j \in ItemsOf(o) /\ ~item[j].is_bumped /\ item'[j] = item[j]
    BY <1>2, <1>3 DEF BumpWrites, UnbumpedOf, ItemsOf
  <2>. QED BY <1>5, <2>1
<1>7. PICK some \in BOOLEAN :
         order' = [order EXCEPT ![o].status = StatusAfterBump(@, {}, some)]
  <2>1. job[p].others \cup (IF bumped THEN {} ELSE job[p].items) = {}
    BY <1>2, <1>4, <1>6
  <2>. QED BY <1>2, <1>3, <2>1 DEF BumpWrites
<1>. QED BY <1>5, <1>7 DEF StatusAfterBump, TypeOK, Order

\* Two bumps of the last two lines serialise on the order: the later one finishes it.
THEOREM LastBumps == Spec => LastBumpFinishes
<1>1. Init => BumpsOK
  BY DEF Init, BumpsOK, BumpInHand
<1>2. IInv /\ BumpsOK /\ [Next]_vars => BumpsOK'
  <2>1. UNCHANGED vars /\ BumpsOK => BumpsOK'
    BY DEF vars, rows, BumpsOK, BumpInHand, ItemsOf, UnbumpedOf
  <2>. QED BY <2>1, NextBumps
<1>3. IInv /\ BumpsOK /\ [Next]_vars =>
         [\A i \in Items :
             LET o == item[i].order
             IN  /\ o # None /\ ~item[i].is_bumped /\ item'[i].is_bumped
                 /\ \A j \in ItemsOf(o) : item'[j].is_bumped
                 => order'[o].status \notin {"SUBMITTED", "PREPARING"}]_<<item, order>>
  <2>1. UNCHANGED vars => UNCHANGED <<item, order>>
    BY DEF vars, rows
  <2>. QED BY <2>1, LastBump
<1>. QED BY <1>1, <1>2, <1>3, InvariantHolds, PTL DEF Spec, LastBumpFinishes

(***************************************************************************)
(* 8. What is collected is the sum of the completed payments               *)
(***************************************************************************)

\* Sums are over finite sets: only so many payments have been completed.
SumsOK == CollectedIsSum /\ \A o \in Orders : IsFiniteSet(CompletedOf(o))

\* Statements that complete nothing leave the sums.
LEMMA SumsStay ==
    ASSUME IInv, SumsOK, UNCHANGED collected,
           \A k \in Payments : \/ payment'[k] = payment[k]
                               \/ payment[k].status # "COMPLETED" /\ payment'[k].status # "COMPLETED"
    PROVE  SumsOK'
<1>. SUFFICES ASSUME NEW o \in Orders
              PROVE  /\ collected'[o] = SumFunctionOnSet(Amounts, CompletedOf(o))'
                     /\ IsFiniteSet(CompletedOf(o))'
  BY DEF SumsOK, CollectedIsSum
<1>1. CompletedOf(o)' = CompletedOf(o)
  BY DEF CompletedOf
<1>2. \A k \in CompletedOf(o) : Amounts'[k] = Amounts[k]
  BY DEF CompletedOf, Amounts
<1>3. IsFiniteSet(CompletedOf(o)) /\ collected[o] = SumFunctionOnSet(Amounts, CompletedOf(o))
  BY DEF SumsOK, CollectedIsSum
<1>4. SumFunctionOnSet(Amounts, CompletedOf(o)) = SumFunctionOnSet(Amounts', CompletedOf(o))
  BY <1>2, <1>3, SumSame
<1>. QED BY <1>1, <1>3, <1>4

\* A settlement adds its payment, unless another has completed it before.
LEMMA SettlementAdds ==
    ASSUME IInv, SumsOK, NEW p \in Procs, SettlementCommit(p)
    PROVE  SumsOK'
<1>. TypeOK
  BY DEF IInv
<1>1. PICK o \in Orders, k \in Payments :
         /\ o = job[p].order /\ k = job[p].pay
         /\ payment[k].order = o
  BY DEF SettlementCommit, IInv, HandlersOK, OrderInHand, PaymentInHand
<1>2. /\ payment' = [payment EXCEPT ![k].status = "COMPLETED"]
      /\ collected' = [collected EXCEPT ![o] = CompletedWith(o, k)]
  BY <1>1 DEF SettlementCommit
<1>3. payment[k] \in Payment /\ \A j \in Payments : payment[j].amount \in Int
  BY DEF TypeOK, Payment
<1>4. \A j \in Payments : payment'[j].amount = payment[j].amount /\ payment'[j].order = payment[j].order
  BY <1>2 DEF TypeOK, Payment
<1>5. Amounts' = Amounts
  BY <1>4 DEF Amounts
<1>6. CASE payment[k].status = "COMPLETED"
  <2>1. collected' = collected
    BY <1>2, <1>6 DEF CompletedWith, TypeOK
  <2>2. \A j \in Payments : payment'[j] = payment[j]
    BY <1>2, <1>3, <1>6 DEF TypeOK, Payment
  <2>. QED BY <2>1, <2>2, SumsStay
<1>7. CASE payment[k].status # "COMPLETED"
  <2>1. /\ CompletedOf(o)' = CompletedOf(o) \cup {k} /\ k \notin CompletedOf(o)
        /\ \A q \in Orders \ {o} : CompletedOf(q)' = CompletedOf(q)
    BY <1>1, <1>2, <1>4, <1>7 DEF CompletedOf, TypeOK
  <2>2. /\ IsFiniteSet(CompletedOf(o)) /\ CompletedOf(o) \cup {k} \subseteq Payments
        /\ collected[o] = SumFunctionOnSet(Amounts, CompletedOf(o))
    BY DEF SumsOK, CollectedIsSum, CompletedOf
  <2>3. \A j \in CompletedOf(o) \cup {k} : Amounts[j] \in Int
    BY <1>3, <2>2 DEF Amounts
  <2>4. SumFunctionOnSet(Amounts, CompletedOf(o) \cup {k}) = collected[o] + payment[k].amount
    BY <2>1, <2>2, <2>3, SumAdd DEF Amounts
  <2>5. collected'[o] = collected[o] + payment[k].amount
    BY <1>2, <1>7 DEF CompletedWith, TypeOK
  <2>6. \A q \in Orders \ {o} : collected'[q] = collected[q]
    BY <1>2 DEF TypeOK
  <2>7. IsFiniteSet(CompletedOf(o)')
    BY <2>1, <2>2, FS_AddElement
  <2>8. ASSUME NEW q \in Orders
        PROVE  /\ collected'[q] = SumFunctionOnSet(Amounts', CompletedOf(q)')
               /\ IsFiniteSet(CompletedOf(q)')
    <3>1. CASE q = o
      BY <1>5, <2>1, <2>4, <2>5, <2>7, <3>1
    <3>2. CASE q # o
      BY <1>5, <2>1, <2>6, <3>2 DEF SumsOK, CollectedIsSum
    <3>. QED BY <3>1, <3>2
  <2>. QED BY <2>8 DEF SumsOK, CollectedIsSum
<1>. QED BY <1>6, <1>7

\* Only settlements complete payments, and a payment row is written once before.
LEMMA NextSums ==
    ASSUME IInv, SumsOK, Next
    PROVE  SumsOK'
<1>0. UNCHANGED <<payment, collected>> => SumsOK'
  BY SumsStay
<1>1. ASSUME NEW p \in Procs, Begin(p)
      PROVE  UNCHANGED <<payment, collected>>
  BY <1>1 DEF Begin, SessionBegin, VerifyPresenceRead, OrderBegin, CheckoutLock,
     TransitionLock, PaymentBegin, InitiateRead, OfflineRead, ProcessWebhook,
     VerifyOfflinePayment, SettlementRead, KitchenBegin, BumpRead, BumpStationLock, rows
<1>2. ASSUME NEW p \in Procs, SessionProceed(p) \/ OrderProceed(p) \/ KitchenProceed(p) \/ Abort(p)
      PROVE  UNCHANGED <<payment, collected>>
  BY <1>2 DEF SessionProceed, VerifyPresenceCommit, OrderProceed, CheckoutOpen, CheckoutAppend,
     CheckoutWrites, CheckoutReject, CheckoutDispatch, TransitionCommit, TransitionReject,
     TransitionDispatch, KitchenProceed, BumpLock, BumpCommit, BumpStationCommit, BumpWrites,
     Abort, rows
<1>3. ASSUME NEW p \in Procs, PaymentProceed(p)
      PROVE  SumsOK'
  <2>1. CASE OfflineInsert(p) \/ SettlementLock(p)
    BY <1>0, <2>1 DEF OfflineInsert, SettlementLock, rows
  <2>2. CASE InitiateCommit(p)
    <3>. DEFINE k == job[p].pay
    <3>1. /\ UNCHANGED collected
          /\ \/ UNCHANGED payment
             \/ /\ payment[k].status = "UNUSED"
                /\ payment' = [payment EXCEPT ![k] = [status |-> "PENDING",
                                order |-> job[p].order, amount |-> job[p].amount]]
      BY <2>2 DEF InitiateCommit
    <3>2. \A j \in Payments :
             \/ payment'[j] = payment[j]
             \/ payment[j].status # "COMPLETED" /\ payment'[j].status # "COMPLETED"
      BY <3>1 DEF IInv, TypeOK
    <3>. QED BY <3>1, <3>2, SumsStay
  <2>3. CASE OfflineCommit(p)
    <3>. DEFINE k == job[p].pay
    <3>1. /\ UNCHANGED collected
          /\ payment[k].status = "UNUSED"
          /\ payment' = [payment EXCEPT ![k] = [status |-> "PENDING_CASHIER_VERIFICATION",
                          order |-> job[p].order, amount |-> job[p].amount]]
      BY <2>3 DEF OfflineCommit, IInv, HandlersOK, PaymentInHand
    <3>2. \A j \in Payments :
             \/ payment'[j] = payment[j]
             \/ payment[j].status # "COMPLETED" /\ payment'[j].status # "COMPLETED"
      BY <3>1 DEF IInv, TypeOK
    <3>. QED BY <3>1, <3>2, SumsStay
  <2>. QED BY <1>3, <2>1, <2>2, <2>3, SettlementAdds DEF PaymentProceed
<1>4. ASSUME NEW t \in Tables, CallStaff(t) \/ StaffAnswers(t)
      PROVE  UNCHANGED <<payment, collected>>
  BY <1>4 DEF CallStaff, StaffAnswers
<1>. QED BY <1>0, <1>1, <1>2, <1>3, <1>4 DEF Next, Proceed

\* No payment is counted twice or missed: what is collected for an order is the sum of
\* the amounts of its completed payments.
THEOREM CollectedIsTheSum == Spec => []CollectedIsSum
<1>1. Init => SumsOK
  <2>. SUFFICES ASSUME Init, NEW o \in Orders
                PROVE  /\ collected[o] = SumFunctionOnSet(Amounts, CompletedOf(o))
                       /\ IsFiniteSet(CompletedOf(o))
    BY DEF SumsOK, CollectedIsSum
  <2>1. CompletedOf(o) = {} /\ collected[o] = 0
    BY DEF Init, CompletedOf
  <2>. QED BY <2>1, SumEmpty, FS_EmptySet
<1>2. IInv /\ SumsOK /\ [Next]_vars => SumsOK'
  <2>1. IInv /\ SumsOK /\ UNCHANGED vars => SumsOK'
    BY SumsStay DEF vars, rows
  <2>. QED BY <2>1, NextSums
<1>3. SumsOK => CollectedIsSum
  BY DEF SumsOK
<1>. QED BY <1>1, <1>2, <1>3, InvariantHolds, PTL DEF Spec

(***************************************************************************)
(* 9. Row locks                                                            *)
(***************************************************************************)

\* A lock belongs to a handler that is in the critical section for its row.
OwnLocks(p) ==
    /\ \A t \in Tables : tableLock[t] = p =>
          pc[p] \in {"checkout", "transition", "settle"} /\ job[p].table = t
    /\ \A o \in Orders : orderLock[o] = p =>
          pc[p] \in {"bump", "bump_station"} /\ job[p].order = o

LocksBelong == \A p \in Procs : OwnLocks(p)

HoldsNothing(p) ==
    /\ \A t \in Tables : tableLock[t] # p
    /\ \A o \in Orders : orderLock[o] # p

\* p moves, takes or frees locks of its own, and nothing else happens to control.
MovesAlone(p) ==
    /\ \E label, local : Goto(p, label, local)
    /\ \A t \in Tables : tableLock'[t] \in {tableLock[t], p, None}
    /\ \A o \in Orders : orderLock'[o] \in {orderLock[o], p, None}

\* Of the others' locks p can only be given what it does not take.
LEMMA OwnStep ==
    ASSUME TypeOK, LocksBelong, NEW p \in Procs, MovesAlone(p), OwnLocks(p)'
    PROVE  LocksBelong'
<1>. SUFFICES ASSUME NEW q \in Procs \ {p} PROVE OwnLocks(q)'
  BY DEF LocksBelong
<1>1. pc'[q] = pc[q] /\ job'[q] = job[q]
  BY GotoOthers DEF MovesAlone
<1>2. q # p /\ q # None /\ OwnLocks(q)
  BY NoneIsNoRow DEF LocksBelong
<1>. QED BY <1>1, <1>2 DEF OwnLocks, MovesAlone

\* Outside its critical sections a handler holds nothing.
LEMMA OutsideHoldsNothing ==
    ASSUME LocksBelong, NEW p \in Procs,
           pc[p] \notin {"checkout", "transition", "settle", "bump", "bump_station"}
    PROVE  HoldsNothing(p)
BY DEF LocksBelong, OwnLocks, HoldsNothing

\* It may take any step that touches no lock,
LEMMA OutsideStep ==
    ASSUME TypeOK, LocksBelong, NEW p \in Procs, NEW label, NEW local, Goto(p, label, local),
           HoldsNothing(p), UNCHANGED <<tableLock, orderLock>>
    PROVE  LocksBelong'
<1>1. MovesAlone(p)
  BY DEF MovesAlone
<1>2. OwnLocks(p)'
  BY DEF OwnLocks, HoldsNothing
<1>. QED BY <1>1, <1>2, OwnStep

\* enter the critical section for a table it locks,
LEMMA TableEntered ==
    ASSUME TypeOK, LocksBelong, NEW p \in Procs, NEW label \in {"checkout", "transition", "settle"},
           NEW local, Goto(p, label, local), NEW t \in Tables, local.table = t,
           HoldsNothing(p), LockTable(p, t), UNCHANGED orderLock
    PROVE  LocksBelong'
<1>1. MovesAlone(p)
  BY DEF MovesAlone, LockTable, TypeOK
<1>2. OwnLocks(p)'
  BY GotoOthers DEF OwnLocks, HoldsNothing, LockTable, TypeOK
<1>. QED BY <1>1, <1>2, OwnStep

\* or for an order.
LEMMA OrderEntered ==
    ASSUME TypeOK, LocksBelong, NEW p \in Procs, NEW label \in {"bump", "bump_station"},
           NEW local, Goto(p, label, local), NEW o \in Orders, local.order = o,
           HoldsNothing(p), LockOrder(p, o), UNCHANGED tableLock
    PROVE  LocksBelong'
<1>1. MovesAlone(p)
  BY DEF MovesAlone, LockOrder, TypeOK
<1>2. OwnLocks(p)'
  BY GotoOthers DEF OwnLocks, HoldsNothing, LockOrder, TypeOK
<1>. QED BY <1>1, <1>2, OwnStep

\* A handler that frees the row of its critical section holds nothing any more.
LEMMA TableLeft ==
    ASSUME TypeOK, LocksBelong, NEW p \in Procs, pc[p] \in {"checkout", "transition", "settle"},
           NEW label, NEW local, Goto(p, label, local),
           FreeTable(job[p].table), UNCHANGED orderLock
    PROVE  LocksBelong'
<1>1. MovesAlone(p)
  BY DEF MovesAlone, FreeTable, TypeOK
<1>2. \A t \in Tables : tableLock'[t] = p => t # job[p].table /\ tableLock[t] = p
  BY NoneIsNoRow DEF FreeTable, TypeOK
<1>3. HoldsNothing(p)'
  BY <1>2 DEF HoldsNothing, LocksBelong, OwnLocks
<1>. QED BY <1>1, <1>3, OwnStep DEF OwnLocks, HoldsNothing

LEMMA OrderLeft ==
    ASSUME TypeOK, LocksBelong, NEW p \in Procs, pc[p] \in {"bump", "bump_station"},
           NEW label, NEW local, Goto(p, label, local),
           FreeOrder(job[p].order), UNCHANGED tableLock
    PROVE  LocksBelong'
<1>1. MovesAlone(p)
  BY DEF MovesAlone, FreeOrder, TypeOK
<1>2. \A o \in Orders : orderLock'[o] = p => o # job[p].order /\ orderLock[o] = p
  BY NoneIsNoRow DEF FreeOrder, TypeOK
<1>3. HoldsNothing(p)'
  BY <1>2 DEF HoldsNothing, LocksBelong, OwnLocks
<1>. QED BY <1>1, <1>3, OwnStep DEF OwnLocks, HoldsNothing

\* Scans and dispatches lock nothing; checkout and transition lock their table.
LEMMA SessionLocks ==
    ASSUME IInv, LocksBelong, NEW p \in Procs, SessionBegin(p) \/ SessionProceed(p)
    PROVE  LocksBelong'
<1>1. pc[p] \in {"idle", "verify"} /\ UNCHANGED <<tableLock, orderLock>>
  BY DEF SessionBegin, SessionProceed, VerifyPresenceRead, VerifyPresenceCommit
<1>2. PICK label, local : Goto(p, label, local)
  BY DEF SessionBegin, SessionProceed, VerifyPresenceRead, VerifyPresenceCommit, Return
<1>. QED BY <1>1, <1>2, OutsideHoldsNothing, OutsideStep DEF IInv

LEMMA OrderLocks ==
    ASSUME IInv, LocksBelong, NEW p \in Procs, OrderBegin(p) \/ OrderProceed(p)
    PROVE  LocksBelong'
<1>. TypeOK
  BY DEF IInv
<1>1. ASSUME NEW g \in guests, CheckoutLock(p, g)
      PROVE  LocksBelong'
  <2>. DEFINE local(o) == [NoJob EXCEPT !.table = g.table, !.verified = g.verified, !.order = o,
                             !.seen = IF o = None THEN "none" ELSE order[o].status]
  <2>1. PICK o : Goto(p, "checkout", local(o))
    BY <1>1 DEF CheckoutLock
  <2>2. PICK t \in Tables : t = g.table
    BY DEF TypeOK, GuestJWT
  <2>3. local(o).table = t
    BY <2>2 DEF NoJob
  <2>4. HoldsNothing(p) /\ LockTable(p, t) /\ UNCHANGED orderLock
    BY <1>1, <2>2, OutsideHoldsNothing DEF CheckoutLock
  <2>. HIDE DEF local
  <2>. QED BY <2>1, <2>3, <2>4, TableEntered
<1>2. ASSUME NEW o \in Orders, TransitionLock(p, o)
      PROVE  LocksBelong'
  <2>. DEFINE local == [NoJob EXCEPT !.order = o, !.table = order[o].table]
  <2>1. PICK t \in Tables : t = order[o].table
    BY <1>2 DEF TransitionLock, IInv, OrderRowsOK
  <2>2. local.table = t
    BY <2>1 DEF NoJob
  <2>3. HoldsNothing(p) /\ LockTable(p, t) /\ Goto(p, "transition", local) /\ UNCHANGED orderLock
    BY <1>2, <2>1, OutsideHoldsNothing DEF TransitionLock
  <2>. HIDE DEF local
  <2>. QED BY <2>2, <2>3, TableEntered
<1>3. ASSUME CheckoutDispatch(p) \/ TransitionDispatch(p)
      PROVE  LocksBelong'
  BY <1>3, OutsideHoldsNothing, OutsideStep DEF CheckoutDispatch, TransitionDispatch, Return
<1>4. ASSUME NEW o, NEW lines, NEW price,
             CheckoutOpen(p, o, lines, price) \/ CheckoutAppend(p, lines, price) \/ CheckoutReject(p)
      PROVE  LocksBelong'
  <2>1. pc[p] = "checkout" /\ FreeTable(job[p].table) /\ UNCHANGED orderLock
    BY <1>4 DEF CheckoutOpen, CheckoutAppend, CheckoutReject, CheckoutWrites
  <2>2. PICK label, local : Goto(p, label, local)
    BY <1>4 DEF CheckoutOpen, CheckoutAppend, CheckoutReject, CheckoutWrites, Return
  <2>. QED BY <2>1, <2>2, TableLeft
<1>5. ASSUME NEW to, NEW role, NEW reasoned,
             TransitionCommit(p, to, role, reasoned) \/ TransitionReject(p)
      PROVE  LocksBelong'
  <2>1. pc[p] = "transition" /\ FreeTable(job[p].table) /\ UNCHANGED orderLock
    BY <1>5 DEF TransitionCommit, TransitionReject
  <2>2. PICK label, local : Goto(p, label, local)
    BY <1>5 DEF TransitionCommit, TransitionReject, Return
  <2>. QED BY <2>1, <2>2, TableLeft
<1>. QED BY <1>1, <1>2, <1>3, <1>4, <1>5 DEF OrderBegin, OrderProceed

\* Of the payment handlers only settlement locks.
LEMMA PaymentLocks ==
    ASSUME IInv, LocksBelong, NEW p \in Procs, PaymentBegin(p) \/ PaymentProceed(p)
    PROVE  LocksBelong'
<1>. TypeOK
  BY DEF IInv
<1>1. ASSUME PaymentBegin(p) \/ InitiateCommit(p) \/ OfflineInsert(p) \/ OfflineCommit(p)
      PROVE  LocksBelong'
  <2>1. /\ pc[p] \in {"idle", "initiate", "offline_insert", "offline_table"}
        /\ UNCHANGED <<tableLock, orderLock>>
    BY <1>1 DEF PaymentBegin, InitiateRead, OfflineRead, ProcessWebhook, VerifyOfflinePayment,
                SettlementRead, InitiateCommit, OfflineInsert, OfflineCommit
  <2>2. PICK label, local : Goto(p, label, local)
    BY <1>1 DEF PaymentBegin, InitiateRead, OfflineRead, ProcessWebhook, VerifyOfflinePayment,
                SettlementRead, InitiateCommit, OfflineInsert, OfflineCommit, Return
  <2>. QED BY <2>1, <2>2, OutsideHoldsNothing, OutsideStep
<1>2. CASE SettlementLock(p)
  <2>1. PICK t \in Tables : t = job[p].table
    BY <1>2 DEF SettlementLock, IInv, HandlersOK, OrderInHand, OrderRowsOK
  <2>. QED BY <1>2, <2>1, OutsideHoldsNothing, TableEntered DEF SettlementLock
<1>3. CASE SettlementCommit(p)
  BY <1>3, TableLeft DEF SettlementCommit, Return
<1>. QED BY <1>1, <1>2, <1>3 DEF PaymentProceed

\* Bumps lock their order.
LEMMA KitchenLocks ==
    ASSUME IInv, LocksBelong, NEW p \in Procs, KitchenBegin(p) \/ KitchenProceed(p)
    PROVE  LocksBelong'
<1>. TypeOK
  BY DEF IInv
<1>1. ASSUME NEW i \in Items, BumpRead(p, i)
      PROVE  LocksBelong'
  BY <1>1, OutsideHoldsNothing, OutsideStep DEF BumpRead
<1>2. CASE BumpLock(p)
  <2>. DEFINE local == [job[p] EXCEPT !.others = UnbumpedOf(job[p].order) \ job[p].items]
  <2>1. PICK o \in Orders : o = job[p].order
    BY <1>2 DEF BumpLock, IInv, HandlersOK, OrderInHand
  <2>2. local.order = o
    BY <2>1 DEF TypeOK, Job
  <2>3. HoldsNothing(p) /\ LockOrder(p, o) /\ Goto(p, "bump", local) /\ UNCHANGED tableLock
    BY <1>2, <2>1, OutsideHoldsNothing DEF BumpLock
  <2>. HIDE DEF local
  <2>. QED BY <2>2, <2>3, OrderEntered
<1>3. ASSUME NEW o \in Orders, NEW s \in Stations, BumpStationLock(p, o, s)
      PROVE  LocksBelong'
  <2>. DEFINE lines == {i \in ItemsOf(o) : StationOf[i] = s}
              local == [NoJob EXCEPT !.order = o, !.items = lines,
                                     !.others = UnbumpedOf(o) \ lines]
  <2>1. local.order = o
    BY DEF NoJob
  <2>2. HoldsNothing(p) /\ LockOrder(p, o) /\ Goto(p, "bump_station", local) /\ UNCHANGED tableLock
    BY <1>3, OutsideHoldsNothing DEF BumpStationLock
  <2>. HIDE DEF local
  <2>. QED BY <2>1, <2>2, OrderEntered
<1>4. ASSUME NEW bumped, BumpCommit(p, bumped) \/ BumpStationCommit(p, bumped)
      PROVE  LocksBelong'
  BY <1>4, OrderLeft DEF BumpCommit, BumpStationCommit, BumpWrites, Return
<1>. QED BY <1>1, <1>2, <1>3, <1>4 DEF KitchenBegin, KitchenProceed

\* A rollback frees everything.
LEMMA AbortLocks ==
    ASSUME IInv, LocksBelong, NEW p \in Procs, Abort(p)
    PROVE  LocksBelong'
<1>1. MovesAlone(p)
  BY DEF MovesAlone, Abort, Return
<1>2. OwnLocks(p)'
  BY NoneIsNoRow DEF OwnLocks, Abort
<1>. QED BY <1>1, <1>2, OwnStep DEF IInv

\* Every step leaves every lock with a handler in the critical section for its row.
LEMMA NextLocks ==
    ASSUME IInv, LocksBelong, [Next]_vars
    PROVE  LocksBelong'
<1>1. ASSUME NEW p \in Procs, Begin(p) \/ Proceed(p)
      PROVE  LocksBelong'
  BY <1>1, SessionLocks, OrderLocks, PaymentLocks, KitchenLocks DEF Begin, Proceed
<1>2. UNCHANGED <<tableLock, orderLock, pc, job>> => LocksBelong'
  BY DEF LocksBelong, OwnLocks
<1>3. CASE UNCHANGED vars
  BY <1>2, <1>3 DEF vars
<1>4. ASSUME NEW t \in Tables, CallStaff(t) \/ StaffAnswers(t)
      PROVE  LocksBelong'
  BY <1>2, <1>4 DEF CallStaff, StaffAnswers
<1>. QED BY <1>1, <1>3, <1>4, AbortLocks DEF Next

LEMMA LocksOwned == Spec => []LocksBelong
<1>1. Init => LocksBelong
  BY NoneIsNoRow DEF Init, LocksBelong, OwnLocks
<1>. QED BY <1>1, NextLocks, InvariantHolds, PTL DEF Spec

\* A row is locked exactly by the handler in the critical section for it: every way out
\* of one unlocks.
THEOREM LocksHeld == Spec => []LocksAreHeld
<1>1. IInv /\ LocksBelong => LocksAreHeld
  BY DEF IInv, HandlersOK, TableInHand, OrderInHand, LocksBelong, OwnLocks, LocksAreHeld
<1>. QED BY <1>1, InvariantHolds, LocksOwned, PTL

\* A bump that has locked its order waits for nobody, so no order that a member of a cycle
\* waits for is locked, and no checkout is a member.
LEMMA CyclesAreOfTables ==
    ASSUME IInv, LocksBelong, NEW D \in SUBSET Procs, Deadlocked(D),
           NEW p \in D, NEW q \in D, WaitsFor(p, q)
    PROVE  \/ pc[q] \in {"transition", "settle"}
           \/ /\ pc[p] \in {"transition", "settle", "bump_lock"}
              /\ pc[q] = "offline_table" /\ q \in KeySharers(job[p].order)
<1>1. \A r \in D : pc[r] \notin {"bump", "bump_station"}
  BY DEF Deadlocked, WaitsFor
<1>2. \A r \in D, o \in Orders : orderLock[o] # r
  BY <1>1 DEF LocksBelong, OwnLocks
<1>3. \A r \in D : pc[r] # "checkout"
  <2>. SUFFICES ASSUME NEW r \in D, pc[r] = "checkout" PROVE FALSE
    OBVIOUS
  <2>1. PICK s \in D : WaitsFor(r, s)
    BY DEF Deadlocked
  <2>2. job[r].order # None /\ orderLock[job[r].order] = s
    BY <2>1 DEF WaitsFor
  <2>3. job[r].order \in Orders
    BY <2>2 DEF IInv, HandlersOK, TableInHand, OpenOrders
  <2>. QED BY <1>2, <2>2, <2>3
<1>4. CASE /\ pc[p] \in {"offline_table", "settle_lock", "verify"}
           /\ tableLock[job[p].table] = q
  <2>1. job[p].table \in Tables
    BY <1>4 DEF IInv, HandlersOK, TableInHand, OrderInHand, PaymentInHand, OrderRowsOK
  <2>. QED BY <1>3, <1>4, <2>1 DEF LocksBelong, OwnLocks
<1>5. CASE /\ pc[p] \in {"initiate", "offline_insert", "transition", "settle", "bump_lock"}
           /\ orderLock[job[p].order] = q
  <2>1. job[p].order \in Orders
    BY <1>5 DEF IInv, HandlersOK, OrderInHand, PaymentInHand
  <2>. QED BY <1>2, <1>5, <2>1
<1>6. CASE pc[p] \in {"transition", "settle", "bump_lock"} /\ q \in KeySharers(job[p].order)
  BY <1>6 DEF KeySharers
<1>. QED BY <1>3, <1>4, <1>5, <1>6 DEF WaitsFor

\* The argument: some member holds a table and waits for an order that an offline payment
\* of that order, a member too, shares; unless the payment was sent from another table, it
\* waits for the table the first one holds.
LEMMA CycleHasOffline ==
    ASSUME IInv, LocksBelong, NEW D \in SUBSET Procs, Deadlocked(D),
           \A p \in D : pc[p] = "offline_table" => order[job[p].order].table = job[p].table
    PROVE  \E p, q \in D : WaitForEachOther(p, q)
<1>1. PICK r \in D : pc[r] \in {"transition", "settle"}
  <2>1. PICK p \in D, q \in D : WaitsFor(p, q)
    BY DEF Deadlocked
  <2>2. CASE pc[q] = "offline_table"
    <3>1. PICK s \in D : WaitsFor(q, s)
      BY DEF Deadlocked
    <3>. QED BY <2>2, <3>1, CyclesAreOfTables
  <2>. QED BY <2>1, <2>2, CyclesAreOfTables
<1>2. PICK s \in D : WaitsFor(r, s)
  BY DEF Deadlocked
<1>3. s \in KeySharers(job[r].order)
  <2>1. \A q \in D, o \in Orders : orderLock[o] # q
    BY DEF Deadlocked, WaitsFor, LocksBelong, OwnLocks
  <2>2. job[r].order \in Orders
    BY <1>1 DEF IInv, HandlersOK, OrderInHand
  <2>. QED BY <1>1, <1>2, <2>1, <2>2 DEF WaitsFor
<1>4. pc[s] = "offline_table" /\ job[s].order = job[r].order
  BY <1>3 DEF KeySharers
<1>5. job[r].table = order[job[r].order].table /\ tableLock[job[r].table] = r
  BY <1>1 DEF IInv, HandlersOK, TableInHand, OrderInHand
<1>6. tableLock[job[s].table] = r
  BY <1>4, <1>5
<1>. QED BY <1>1, <1>3, <1>4, <1>6 DEF WaitForEachOther

\* However many handlers wait for each other, an offline payment is among them: had it
\* taken its table before its order, as the others do, they could not deadlock.
THEOREM OnlyOfflineDeadlocks == Spec => []DeadlocksAreOffline
<1>1. IInv /\ LocksBelong => DeadlocksAreOffline
  BY CycleHasOffline DEF DeadlocksAreOffline
<1>. QED BY <1>1, InvariantHolds, LocksOwned, PTL
=============================================================================
