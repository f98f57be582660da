--------------------------- MODULE BranchDatabase ---------------------------
(***************************************************************************)
(* The rows that session_service, order_service, payment_service and       *)
(* station_routing_service share, their row locks, and the frame of a      *)
(* request handler.  SessionService, OrderService, PaymentService and      *)
(* KitchenService extend it with the handlers of one service each;         *)
(* TableService composes them.                                             *)
(*                                                                         *)
(* A member of Procs is one request handler with its database transaction. *)
(* pc[p] names the statement it stands before and job[p] holds what it has *)
(* read so far.  Everything a handler writes becomes visible when it       *)
(* commits; a read without a lock sees what is committed at that moment    *)
(* (READ COMMITTED, and autoflush is off).                                 *)
(***************************************************************************)
EXTENDS OrderStateMachine, Integers, FiniteSets

CONSTANTS
    Procs,        \* concurrent request handlers
    Tables, Orders, Items, Payments, Sessions,
    Stations,     \* kitchen stations
    StationOf,    \* the station each order item was routed to at checkout
    Prices,       \* what a checkout adds to an order's total_amount, or deducts
    None          \* SQL NULL, and no holder

ASSUME PricesAreIntegers == Prices \subseteq Int
ASSUME NoneIsNoRow ==
    None \notin Procs \cup Tables \cup Orders \cup Payments \cup Sessions
ASSUME ItemsAreRouted == StationOf \in [Items -> Stations]

VARIABLES
    table,        \* Table rows: status, current_session_token
    order,        \* Order rows: status, table_id, total_amount, is_paid
    item,         \* OrderItem rows: order_id, is_bumped
    payment,      \* Payment rows: status, order_id, amount
    collected,    \* SUM(amount) of an order's COMPLETED payments
    called,       \* tables with a PENDING or ACKNOWLEDGED service request
    guests,       \* guest session JWTs handed out
    dispatched,   \* order items published to the kitchen channels
    tableLock,    \* holder of SELECT ... FOR UPDATE on a Table row
    orderLock,    \* holder of SELECT ... FOR UPDATE on an Order row
    pc, job       \* each handler's next statement and local values

rows  == <<table, order, item, payment, collected, called>>
vars  == <<rows, guests, dispatched, tableLock, orderLock, pc, job>>

-----------------------------------------------------------------------------
(* Types *)

PaymentStatuses ==
    {"PENDING", "PENDING_CASHIER_VERIFICATION", "COMPLETED", "FAILED", "REFUNDED"}

Table    == [status : TableStatuses, token : Sessions \cup {None}]
Order    == [status : OrderStatuses \cup {"UNUSED"}, table : Tables \cup {None},
             total : Int, is_paid : BOOLEAN]
Item     == [order : Orders \cup {None}, is_bumped : BOOLEAN]
Payment  == [status : PaymentStatuses \cup {"UNUSED"},
             order : Orders \cup {None}, amount : Nat]
GuestJWT == [sid : Sessions, table : Tables, verified : BOOLEAN]

Labels == {"idle", "verify", "checkout", "dispatch", "dispatch_all",
           "transition", "initiate", "offline_insert", "offline_table",
           "settle_lock", "settle", "bump_lock", "bump", "bump_station"}

Job == [table    : Tables \cup {None},
        order    : Orders \cup {None},
        pay      : Payments \cup {None},
        sid      : Sessions \cup {None},
        amount   : Nat,
        verified : BOOLEAN,       \* is_presence_verified of the guest
        seen     : OrderStatuses \cup {"none", "occupy", "rebind", "join"},
        flag     : BOOLEAN,       \* the column an ORM write is compared with
        items    : SUBSET Items,  \* order items being written or published
        others   : SUBSET Items]  \* unbumped siblings read under the order lock

NoJob == [table |-> None, order |-> None, pay |-> None, sid |-> None,
          amount |-> 0, verified |-> FALSE, seen |-> "none", flag |-> FALSE,
          items |-> {}, others |-> {}]

TypeOK ==
    /\ table \in [Tables -> Table]
    /\ order \in [Orders -> Order]
    /\ item \in [Items -> Item]
    /\ payment \in [Payments -> Payment]
    /\ collected \in [Orders -> Nat]
    /\ called \subseteq Tables
    /\ guests \subseteq GuestJWT
    /\ dispatched \subseteq Items
    /\ tableLock \in [Tables -> Procs \cup {None}]
    /\ orderLock \in [Orders -> Procs \cup {None}]
    /\ pc \in [Procs -> Labels]
    /\ job \in [Procs -> Job]

Init ==
    /\ table = [t \in Tables |-> [status |-> "AVAILABLE", token |-> None]]
    /\ order = [o \in Orders |-> [status |-> "UNUSED", table |-> None,
                                  total |-> 0, is_paid |-> FALSE]]
    /\ item = [i \in Items |-> [order |-> None, is_bumped |-> FALSE]]
    /\ payment = [k \in Payments |-> [status |-> "UNUSED", order |-> None,
                                      amount |-> 0]]
    /\ collected = [o \in Orders |-> 0]
    /\ called = {}
    /\ guests = {}
    /\ dispatched = {}
    /\ tableLock = [t \in Tables |-> None]
    /\ orderLock = [o \in Orders |-> None]
    /\ pc = [p \in Procs |-> "idle"]
    /\ job = [p \in Procs |-> NoJob]

-----------------------------------------------------------------------------
(* Queries and row locks *)

OpenOrders(t) ==
    {o \in Orders : order[o].table = t /\ order[o].status \in OPEN_ORDER_STATUSES}

ItemsOf(o) == {i \in Items : item[i].order = o}

UnbumpedOf(o) == {i \in ItemsOf(o) : ~item[i].is_bumped}

\* An inserted but uncommitted payment holds its order FOR KEY SHARE (the
\* foreign key payments.order_id), which only FOR UPDATE conflicts with.
KeySharers(o) == {p \in Procs : pc[p] = "offline_table" /\ job[p].order = o}

\* Faults: a SELECT without FOR UPDATE.
TableUnguarded(t) == TRUE
OrderUnguarded(o) == TRUE

TableFree(t) == tableLock[t] = None
OrderFree(o) == orderLock[o] = None
Lockable(o)  == OrderFree(o) /\ KeySharers(o) = {}

FreshSessions ==
    Sessions \ ({g.sid : g \in guests} \cup {job[p].sid : p \in Procs})

FreshPayments ==
    {k \in Payments : payment[k].status = "UNUSED" /\ \A p \in Procs : job[p].pay # k}

\* Control of handler p moves on; its local values are replaced.
Goto(p, label, local) ==
    /\ pc' = [pc EXCEPT ![p] = label]
    /\ job' = [job EXCEPT ![p] = local]

Return(p) == Goto(p, "idle", NoJob)

LockTable(p, t) == tableLock' = [tableLock EXCEPT ![t] = p]
FreeTable(t)    == tableLock' = [tableLock EXCEPT ![t] = None]
LockOrder(p, o) == orderLock' = [orderLock EXCEPT ![o] = p]
FreeOrder(o)    == orderLock' = [orderLock EXCEPT ![o] = None]

-----------------------------------------------------------------------------
(* Failure: the transaction rolls back and its locks are released.  This is *)
(* a crash, a lost connection or, for a deadlock, the database's choice of  *)
(* victim; after a commit it loses the kitchen dispatch still owed.         *)

Abort(p) ==
    /\ pc[p] # "idle"
    /\ tableLock' = [t \in Tables |-> IF tableLock[t] = p THEN None ELSE tableLock[t]]
    /\ orderLock' = [o \in Orders |-> IF orderLock[o] = p THEN None ELSE orderLock[o]]
    /\ Return(p)
    /\ UNCHANGED <<rows, guests, dispatched>>
=============================================================================
