# Table service of order-backend, in TLA+

`order-backend` is a FastAPI service on PostgreSQL and Redis for ordering at
restaurant tables: guests scan a table's QR code, check out to one shared order
per table, and pay online or with the cashier; the kitchen bumps lines; staff move
orders along, answer calls and edit the menu that guests order from. This directory holds
a model of the part of it where requests meet in the database, where events travel between
server processes, and where their number is limited, with TLC configurations and TLAPS
proofs.

Paths below are relative to the repository (`app/...` is `src/app/...`).

## 1. Inventory

| component | state it keeps | operations | talks to |
|---|---|---|---|
| order state machine (`core/state_machine.py`) | none | transition graph, cancellation guard, table status after a transition | called by orders |
| guest sessions (`services/session_service.py`) | `tables.status`, `tables.current_session_token`; JWTs given out | verify presence and issue a session | orders (the token is checked at checkout), payments (clear it) |
| orders (`services/order_service.py`) | `orders`, `order_items`, `tables.status` | checkout, status transition, cancel; after a commit, kitchen dispatch | state machine, kitchen channels |
| payments (`services/payment_service.py`) | `payments`, `orders.is_paid`, `tables`, `service_requests` | initiate, webhook, offline request, cashier verification, pending list | gateways, orders, sessions, service requests |
| kitchen display (`services/station_routing_service.py`) | `order_items.is_bumped`, `orders.status` | bump a line, bump a station's ticket, list tickets, resolve a line's station, dispatch | orders |
| service requests (`services/service_request_service.py`) | `service_requests` | create (with a cooldown), acknowledge, resolve, dismiss, list | tables (row lock), payments, SLA monitor |
| SLA monitor (`services/sla_monitor_service.py`) | `service_requests.is_escalated`; a worker task | scan and escalate, start, stop | service requests, Redis |
| rate limiter (`core/rate_limit.py`) | timestamps per client, in memory or in a shared SQLite file | resolve the client's address, count, clean up, evict | login, QR scan and session endpoints |
| live updates (`core/redis_pubsub.py`, `core/websocket_manager.py`, `api/v1/websocket.py`) | per process: a Redis client and reader task, the registry of sockets and channels | start, stop, publish, read, broadcast, connect, evict | every service that publishes |
| staff menu (`services/staff_menu_service.py`, `catalog_broadcast_service.py`) | `categories`, `items`, `modifier_groups`, `modifier_options` | create, update, 86 or restock, deactivate, delete; after each commit a broadcast and an audit row | stations (a row may name one), live updates, audit log, orders (an ordered row may not go) |
| kitchen stations (`services/kitchen_station_service.py`) | `kitchen_stations` | list and create (both seed three defaults first), update, deactivate, delete | menu rows and order lines that refer to them |
| guests' menu (`services/menu_service.py`, the catalogue half of `checkout_order` and `station_routing_service.py`) | `order_items` | menu tree, quotation of a selection, the check and pricing of a line, its station, its tickets | staff menu, stations |
| access (`api/deps.py`, `core/context.py`) | none | whose token, which branch, may the user act there | every staff endpoint |
| QR codes (`core/qr_security.py`, `services/qr_service.py`) | signing keys | sign, verify, rotate | sessions |
| payment gateways (`core/payment_gateways.py`) | none | create an intent, verify a webhook's signature | payments |
| audit log (`services/audit_service.py`, `api/middleware/audit_middleware.py`) | `audit_logs` | append, report | menu edits, and a middleware for every endpoint |
| login, translations | none | sign tokens, look texts up | every endpoint |

What makes the service hard to test:

* **Interleaving.** Each request is one transaction at READ COMMITTED with
  autoflush off. Handlers hold `SELECT ... FOR UPDATE` on a Table row (checkout,
  transition, settlement, service request) or on an Order row (bump, settlement,
  transition), and read other rows before they wait for a lock.
* **Stale reads.** A row the ORM has loaded is not refreshed by a later query that finds it
  again, so that a request may go by columns older than the condition which found the row; and
  the ORM writes only the columns whose assigned value differs from the loaded one.
* **Checks far from their commit.** The catalogue is read without any lock: between the
  check of an edit, or of a line's item, groups and options, and the commit, the rows may be
  changed, moved or deleted. Foreign keys catch what is gone; nothing in the database says
  that a row and what it refers to are of one branch.
* **Order of events.** Payments complete whenever the provider says so: twice, after
  a cancellation, or when the next party sits at the table.
* **Partial failure.** A transaction may roll back at any statement; the kitchen is
  told only after the commit and nothing repeats it.

What makes each component right is stated, per component, by the properties of
section 4 and by the `hazards` of `PROJECT.json`, which names the line where each
could go wrong.

## 2. Modules

Written, in this order:

1. `OrderStateMachine` -- constant operators: the graph, the guard, the table rule.
2. `BranchDatabase` -- the rows, the row locks, what a handler is, and failure.
3. `SessionService`, `OrderService`, `PaymentService`, `KitchenService` -- the
   handlers of one service each, over the variables of `BranchDatabase`.
4. `TableService` -- their composition, the properties and the inductive invariant.
5. `OrderBill` -- what the composition promises about money; `TableService`
   instantiates it with the refinement mapping `BillOf`.
6. `MC_TableService` -- instances for TLC. `TableService_proofs` -- the proofs.
7. `ServiceRequests` -- guests' calls: creation, answers, dismissal by a settlement and
   the SLA scans, with a clock; `called` of `BranchDatabase` is its abstraction.
   `MC_ServiceRequests` and `ServiceRequests_proofs` belong to it, and `CallBell`, which
   says what calls promise with no handler or row in sight; `ServiceRequests` instantiates
   it with the refinement mapping `CallOf`.
8. `RealTime` -- live updates on several server processes that share one Redis, with
   outages, lost answers, restarts and sockets that break. `MC_RealTime` and
   `RealTime_proofs` belong to it.
9. `RateLimiter` -- the limit on requests, with both storages, proxies in between, a
   clock and failing transactions. `MC_RateLimiter` and `RateLimiter_proofs` belong to it.

10. `Access` -- constant operators: which branch a request means and who may act there.
11. `CatalogueDatabase` -- the menu's rows with their foreign keys, cascades and unique
    keys, and what a request on them is.
12. `StaffMenuService`, `KitchenStationService`, `MenuCheckout` -- the edits of managers, the
    stations, and what a guest's checkout reads of both, over those rows.
13. `Catalogue` -- their composition, the properties and the inductive invariant.
    `MC_Catalogue` and `Catalogue_proofs` belong to it.
14. `CatalogueHistory` -- `Catalogue` with three history variables, for what guests pay and
    displays hear. `CatalogueHistory_proofs` belongs to it.
15. `SumTheorems` -- facts about the sum of a function on a finite set, for
    `TableService_proofs`.

`Catalogue` and `TableService` meet in the order line: `TableService` takes it as a price
(`CheckoutReject` may refuse any; negative if options deduct) and a station (`StationOf`), `Catalogue` says which prices and stations those
are, and knows of the order only whether it is open.

Every safety property and action property of a passing run is a theorem (section 5), and so
are both refinements; liveness is model-checked.

### From code to model

A member of `Procs` is a request handler with its transaction. `pc[p]` is the
statement it stands before and `job[p]` what it has read. Between two statements any
other handler may run. What a handler writes appears when it commits, in one action;
reads before a commit that take no lock are separate actions wherever the code
decides on them later. The variables are columns:

| variable | code |
|---|---|
| `table` | `Table.status`, `Table.current_session_token` |
| `order` | `Order.status`, `table_id`, `total_amount`, `is_paid` |
| `item` | `OrderItem.order_id`, `is_bumped` |
| `payment` | `Payment.status`, `order_id`, `amount` |
| `collected` | the `SUM(amount)` over COMPLETED payments that payment_service queries; `CollectedIsSum`, checked and proved, says that it is the sum of the rows |
| `called` | tables with a PENDING or ACKNOWLEDGED service request |
| `guests` | guest JWTs handed out (they are never revoked) |
| `dispatched` | lines published to the kitchen channels |
| `tableLock`, `orderLock` | holders of `FOR UPDATE` |

| statement (`pc`) | code |
|---|---|
| `verify` | `verify_presence_and_issue_session`, between the read of the table and the commit |
| `checkout` | `checkout_order` with the table locked and the open order looked up |
| `dispatch`, `dispatch_all` | after the commit of a checkout, of a transition: `dispatch_order_to_kitchen` |
| `transition` | `transition_order_status` with the table locked, before the order's lock |
| `initiate` | `initiate_online_payment` after its balance check |
| `offline_insert`, `offline_table` | `request_offline_payment` before its flush, and before the commit that updates the table |
| `settle_lock`, `settle` | `process_webhook` and `verify_offline_payment` before and under the table's lock |
| `bump_lock`, `bump`, `bump_station` | `bump_order_item` before and under the order's lock, `bump_station_ticket` under it |

`ServiceRequests` has a control state of its own:

| variable or statement | code |
|---|---|
| `request` | `ServiceRequest.status`, `table_id`, `request_type`, `created_at`, `is_escalated`; `stamps` holds which of `acknowledged_at`, `completed_at`, `dismissed_at` are set |
| `now` | the clock of the server processes, taken to agree |
| `escalations` | publications of SERVICE_REQUEST_ESCALATED per request |
| `create`, `insert` | `create_request` before and under the table's lock; `job[p].at` is the time noted before |
| `answer` | `transition_status` between its check and its commit |
| `escalate`, `publish` | `check_and_escalate_overdue_requests` with its rows locked, and after its commit |

`RealTime` is about processes (`Workers`), not handlers:

| variable | code |
|---|---|
| `client`, `connected`, `reader` | `_redis is not None`, `_is_connected`, and `_task` of a process's bridge: `off` before `start` and after `stop`, `none` when `start` made no task, `dead` when its loop has ended |
| `pc`, `at` | the calls of `publish`, one per message: before the answer of Redis (`publishing`), awaiting a local broadcast (`sending`) |
| `online`, `subscribed`, `stream` | Redis: reachable, the processes whose `psubscribe` connection it serves, what it has sent them and they have not read |
| `gateway`, `registered` | the endpoint's progress with a socket, and `_socket_channels`; `_subscriptions` is its inverse (`Subscribers`), as `connect` and `disconnect` write both maps under one lock |
| `sends`, `received` | the `send_json` calls in progress, with who awaits them, and what went out |
| `lost`, `local` | history: messages Redis took though the call raised, messages broadcast without Redis |

The lock of the manager and that of the bridge are never held while something else is
awaited that another task could disturb, so what they guard is one action. A broadcast is
not: each send is an action, and sockets may connect and break between them.

`RateLimiter` is about calls of `is_allowed`, whatever process they are on:

| variable or statement | code |
|---|---|
| `storage` | `RATE_LIMIT_STORAGE_TYPE`, the same for all |
| `now`, `since` | the host's clock, and the least a call's transaction can have read of it |
| `origin`, `key`, `store` | who sent a request, the `client_ip` it is counted under, and the storage object (a route on a process) it reaches |
| `stored`, `stamp` | the timestamps in `_requests` or in `rate_limit_events`; each is named by the call that left it |
| `evicted` | history: calls whose key went to make room |
| `locked`, `swept` | `_lock` and `_last_cleanup` of each storage object |
| `waiting`, `cleaning`, `counting` | before the lock, before `_sync_cleanup`, before `_sync_is_allowed` |

A call in memory awaits nothing and is one action; one on the file is up to three, and each
transaction works with a time between `since` and the moment it got the file. `Requests`
are what proxies can make of a request (`Arrives`): a header starts with whatever the
client wrote.

`Catalogue` is about requests of staff (`Edits`) and of guests (`Checkouts`):

| variable or statement | code |
|---|---|
| `station`, `category`, `item`, `group`, `option`, `line` | the tables of those names, id to row; the columns that decide something |
| `used` | ids given out: `uuid4` repeats none, so a row deleted does not come back |
| `edit[e]` | a staff request: operation, branch, row, `patch` (the columns its UPDATE will name, or the new row) and `tell` (what it will broadcast) |
| `loaded`, `committed`, `refreshed` | an edit that passed its checks; after `db.commit()`; after `db.refresh()`, with broadcast and audit to come |
| `seeding`, `seeded` | in `ensure_default_stations`: some defaults missing; all there |
| `cart[g]`: `loaded`, `item`, `routed`, `groups`, `priced`, `committed` | a guest's request after the query for the open order with its lines and items (a re-order only), after the query for items, after those for stations and category, for groups, for options, and after its commit |
| `told` | the availability last broadcast per item or option |
| `audit` | rows of `audit_logs`, as operation and id |
| `kds` | line and station of every ticket shown, pushed or polled |

The checks of one edit are several SELECTs and one action: they compare branches and
existence, a row's branch never changes, and what is gone by the commit the commit
notices. A checkout's are separate, as it keeps what they returned: its session holds one
instance per row, and no query refreshes it. So the item of a first order is as the query for
it finds it (`CheckoutItem`), and the item of a re-order as the open order's lines brought it
(`ReorderLoad`), though the later query joins today's category and decides whether the item
is found at all (`ReorderItem`). A checkout has one line: of two lines of one item the second
would go by the rows of the first, just as a re-order does. The three queries that route a line
(its station, its category, the category's station) are one step. Users, their roles and
the branches they may act on are constants: they do not change during a request.

The in-process `asyncio.Lock` per table of `create_request` is not modelled: with several
server processes only the row lock serialises them, and the properties hold without it.

The two settlement handlers run the same statements after their first lookup and are
one sequence of actions. An insert of a payment holds its order FOR KEY SHARE
(PostgreSQL's foreign-key check), which `Lockable` respects. The sum over payments and the commit that follows it are one action,
because a settlement holds its order FOR UPDATE over both, and every other settlement of the
order needs that lock. A write that assigns the
value that was loaded sends no UPDATE: `job[p].flag` and `VerifyPresenceCommit` carry
what was loaded for the columns where that matters. `Abort` rolls a handler back at
any statement; after a commit it loses the dispatch.

Abstracted in `TableService`: prices (a checkout adds a member of `Prices`), modifiers and
catalogue checks (`CheckoutReject` may refuse any checkout; `Catalogue` has them), the QR
signature and geofence (a scan is verified or not), provider calls, branch and brand (one
branch), clocks, audit rows, notifications other than the kitchen's. In `Catalogue`: names,
translations, images, sort orders, quantities, and the order but for its being open.

## 3. Runs

`requests` and `revived` use `MC_ServiceRequests`, `broadcast` uses `MC_RealTime`,
`limiter` `MC_RateLimiter`, `catalogue` `MC_Catalogue`, all others `MC_TableService`.

| run | instance | shows |
|---|---|---|
| `service` | 2 handlers, 1 table, 1 order, 2 lines at 2 stations, 1 payment, everything including failures | locks are held exactly in critical sections, deadlocks involve an offline payment, the inductive invariant (types included), `LastBumpFinishes` |
| `billing` | 1 order, 2 payments, checkouts that add 2 or deduct 1, no kitchen | only a covered order is paid, and by what makes it covered; the sum counts every payment once; refinement of `OrderBill` |
| `rounds` | 2 orders, 2 session tokens, 1 payment, no kitchen | one open order per table, a served table has an order, closed orders are frozen |
| `liveness` | the `service` instance with 1 line, fairness | every request ends |
| `requests` | 2 handlers and 1 worker, 1 table, 1 type, 2 requests, cool-down 1, threshold 2, time up to 2, 1 failure, fairness | the duplicate guard, the cool-down, one escalation per request, only of waiting ones, and of every one left waiting; refinement of `CallBell` |
| `broadcast` | 2 processes with a socket each, 1 channel, 2 events, 1 failure, fairness | every event once, in one order, dead readers and dead sockets, progress of readers, and of calls that Redis refused |
| `limiter` | 3 calls, 3 clients, 1 proxy, 2 storage objects with limits 2 and 1, both storages, window 2, cleanup interval 1, at most 2 keys, time up to 3 | the limit, just refusals, the bound on keys, eviction, release of locks |
| `catalogue` | 2 edits and 1 checkout, 2 branches of 2 tenants, 4 users; a menu of one item with a group and an option, a second branch's item, room for one more row of each table, 3 new stations, 1 line; or the same item without the group, in an inactive category, with an open order for it; failures | the inductive invariants, with and without history: references, branches; the audit log, the tickets, the offer a line was made at, broadcasts, and where edits may reach |
| `overpayment`, `cancelled`, `stale_bump`, `revived` | small instances | one disagreement each, section 6 |

**Bounds.** Two handlers are the least that interleave; all properties of rows relate
at most two concurrent writers of one table, and the proofs cover any number. One
table is enough for all but a deadlock across two (an offline payment may name another
table's order), which is left to the proof of `OnlyOfflineDeadlocks`. Two lines separate "some" from "all"
bumped and let two checkouts add to one order (total 2); two payments make a partial
settlement followed by a covering one, a replay, and an overpayment; two orders make
a table's next round; two tokens make a replaced session. A price of 1 makes
amounts 1 and 2, partial and full; those of `billing`, 2 and -1, make an order that is
partly paid and then lowered to what was paid. Rows are allocated once and never reused, so the
number of orders, lines, payments and tokens bounds the length of a behaviour.
Deadlock is checked in every run but `broadcast`, `limiter` and `catalogue`: an occupied table may always be scanned
and an existing order always be asked to move, so it never occurs. In `broadcast` the
bounded instance stops when both events are out, both sockets are gone and no failure is
left, `limiter` when every call has its answer and the clock is at its bound, and
`catalogue` when every request has been answered and the line's order has ended.

In `requests` three processes let a scan, an answer and a creation (or two of one of
them, or two scans) overlap; two requests make one that follows, or races, the other; time 2 is one
tick past the cool-down and just the threshold, so that each is met, missed and hit
exactly. `Cooldown`, `Thresholds` and `MaxTime` are small numbers for 60, 180 and no bound;
the proofs do not depend on them.

In `broadcast` two processes let an event reach sockets through Redis and one of them by
the fallback; two events make an order; one failure is an outage, a lost answer, a half
start or a restart, at any point, and a process may also start while Redis is away.

In `limiter` three calls fill a limit of two and are refused the third, or meet two keys and
need room; two storage objects are two processes or two routes; time 3 is one tick past the
window of 2, so that a timestamp is inside it, at its end and outside. The four ways of a
request are: straight, with a header of the client's own; through one proxy that appends;
through two; through one that sets X-Real-IP.

In `catalogue` two edits are what can come between the statements of a checkout: one that
moves, reprices, 86s or deletes, and one that deletes or reassigns what the first used; or
they race each other. The second branch is of another tenant and has the rows a wrong id or
header could reach; none of its users may administer it, so that any change there is
wrong. One item has an option that costs more, edits make it cost less than nothing, and a
required group without options can appear. Three new ids let two requests seed the
default that the branch lacks, and those deleted meanwhile. Items are edited and moved to
another category of the branch. The second initial menu is for a re-order: two edits, in
either order with its queries, may sell out or reprice the item and reactivate its category.
`listed`, `seen` and `had`, history variables of `CatalogueHistory`, hold what was on the menu,
and what was available, at some moment of a checkout, and what availabilities were ever
committed; they restrict nothing.

**Symmetry.** Safety runs use permutations of handlers, orders, payments, tokens and,
with one station, lines, in `catalogue` of edits and new stations; none of the definitions
chooses among them. The runs with
liveness properties use no symmetry.

**Fairness.** `FairSpec` asks strong fairness of each handler's next statement: a
handler with nothing to wait for runs (the event loop), and a handler that waits for a
row gets it if it is freed again and again, because PostgreSQL queues waiters of a row.
It asks that a handler in a wait-for cycle is aborted: PostgreSQL's deadlock detector.
In `requests` the worker's loop comes round again after every scan and every failure,
and may be shut out by failures only as often as `MaxCrashes` says.
In `broadcast` tasks that can run do, and no client keeps a send waiting for ever: its
connection takes the data or breaks (the server's own keep-alive pings close one that stalls).
Redis owes no answer: it may leave a PUBLISH waiting for ever, and no property needs that one
returns.
`DeadlockVictim` is a member of any smallest cycle; `DeadlocksAreOffline` says which there are.
No request needs to be sent and no failure needs to happen.

## 4. Properties

* `OneOpenOrderPerTable` -- concurrent first checkouts of a table make one cart.
* `PaidIsCovered`, `CoveringPays`, `CollectedIsSum` -- concurrent, partial and repeated
  settlements mark an order paid only if its payments cover it, whichever of them makes them
  cover it does so, each payment counts once, and no checkout raises a paid total. An order
  that a checkout's deduction leaves covered stays unpaid (section 6): "covered" and "paid"
  are not the same in this code.
* `ClosedOrdersAreFrozen` -- nothing reopens or reprices a closed order.
* `ServedTablesHaveOrders` -- no order of cancel, close, checkout and settlement leaves
  a table waiting for food it never ordered.
* `LastBumpFinishes` -- two cooks bumping the last two lines cannot each leave the
  order unfinished.
* `LocksAreHeld`, `RequestsFinish` -- a row is locked exactly while a critical section
  works on it, and every request ends, so every lock is released.
* `DeadlocksAreOffline` -- of all the orders in which statements wait for rows, only the
  offline payment's (order, then table) closes a circle: against a transition or
  settlement of its table, or by way of another table whose order it pays.
* `OneLiveRequest`, `RequestsAreSpaced` -- guests of one table, on any server process,
  cannot ask for one thing twice at a time or within the cool-down.
* `EscalatedOnce`, `OnlyWaitingEscalate`, `OverdueEscalates` -- scans of several workers
  share the rows by SKIP LOCKED, escalate no request that was answered meanwhile, and
  leave none out.
* `ImplementsCallBell` -- calls, answers, settlements and the scans of any number of workers
  are a bell: it rings for a thing when the last call for it is closed and cooled down, no
  call comes back to life, each is announced once at most.
* `OnceUnlessLost` -- publisher and reader of a process never both send an event to a
  socket; the one exception, an answer lost after Redis took the event, is the code's own.
* `SameOrder` -- sockets of all processes see the events that went through Redis in the
  same order, because a reader awaits each broadcast; local ones have no such order.
* `DeafWorkersStayLocal` -- a process that has lost its reader does not hand its events to
  Redis, which its own sockets would miss.
* `EndedSocketsAreForgotten` -- eviction by a broadcast and by the endpoint never leave a
  dead socket in the registry.
* `SubscribersAreServed`, `FallbackReturns` -- no broken socket stops the reader, and a handler
  whose publication Redis has refused gets past the sockets of its own process. Of a call that
  Redis does not answer nothing is promised.
* `LimitHolds` -- the window slides over requests on several processes, cleaned up by each
  other with clocks read before they waited, from clients who write their own headers.
* `RefusedOnlyWhenFull` -- others' and expired requests never fill one's window.
* `KeysAreBounded`, `EvictedUnderPressure` -- memory is bounded, and only the least recent
  of too many clients is forgotten early.
* `LocksAreOwned` -- a failing transaction does not leave its storage object locked.
* `ReferencesHold` -- no delete, cascade or SET NULL between another request's check and its
  commit leaves a row that refers to nothing.
* `OwnBranch` -- nor is a row ever tied to one of another branch, which only those checks
  prevent.
* `EditsStayInBranch` -- whatever branch a request names, and by whatever header, an edit
  changes only rows of a branch that some manager of its tenant may administer.
* `AuditIsTruthful`, `BroadcastsWereStored` -- the log and the displays hear of no deletion,
  creation or availability that was rolled back, wherever an edit fails.
* `OneTicketPerLine` -- a poll shows a line at the station its ticket announced, whatever
  became of the station and the item since.
* `OfferedLines` -- a line's item was on the menu while the guest checked out, and the line
  charges, for it and each option, a price at which it was available in the branch meanwhile.
  The two need not have been so at one moment (section 6).
* `ImplementsOrderBill` -- all of the handlers together bill as `OrderBill` does.

## 5. Proofs

`TableService_proofs` proves, for every set of handlers, tables, orders, lines,
payments, tokens and stations:

| theorem | states |
|---|---|
| `InvariantHolds` | `Spec => []IInv` |
| `TypeCorrect`, `LocksHeld` | `[]TypeOK`, `[]LocksAreHeld` |
| `OneOpenOrder`, `PaidMeansCovered`, `PaidMeansClosed` | the invariants of the same meaning |
| `CoveringIsPaying` | `CoveringPays` |
| `ClosedFrozen` | `ClosedOrdersAreFrozen` |
| `Refinement` | `ImplementsOrderBill` |
| `ServedTables` | `[]ServedTablesHaveOrders` |
| `LastBumps` | `LastBumpFinishes` |
| `CollectedIsTheSum` | `[]CollectedIsSum` |
| `OnlyOfflineDeadlocks` | `[]DeadlocksAreOffline` |

Assumptions: prices are integers (`PricesAreIntegers`), NULL is no row
(`NoneIsNoRow`), and every line has a station (`ItemsAreRouted`).

The properties are not inductive: a handler that stands before its commit will write
what it decided from earlier reads. `IInv` adds what every handler has *in hand*: a
checkout that found no open order holds the table's lock and there still is none; one
that found an order holds the lock and the order still is open; a settlement's payment
exists and belongs to its order; a payment to be inserted is of a positive amount and for an
order that exists; two handlers never insert one payment. Totals may go up or down, so nothing
compares an amount with them; what a repeated webhook needs, that an order with a COMPLETED
payment has collected something, is part of the rows' consistency (`PaymentRowsOK`).
The proof that this survives the steps of the *other* handlers is one lemma, `Frame`: a
step that keeps the others' locks, changes the open orders of a table only under that
table's lock, and never deletes rows leaves everything in hand. Each handler's lemma
shows that its statements are such steps. Closed orders, `CoveringPays` and the refinement follow from
`IInv` by one lemma per writer (section 5 of the module), and so does `ServedTables`
(section 6). `LastBumps` needs one more invariant, `BumpsOK` (section 7): the lines a bump
works on are lines of the order whose lock it holds, and those it took for unbumped still
are, because no other bump writes them meanwhile.

`CollectedIsTheSum` (section 8) carries the finiteness of the set of completed payments
along (`SumsOK`): a settlement adds one payment to one order's set, or none if another
settlement completed it before. That a sum over a finite set grows by what is added to the
set is proved in `SumTheorems`, from the definition of `MapThenFoldSet` and by induction on
the set's size, in the form of a least counterexample (`SubsetInduction`).

`LocksHeld` and `OnlyOfflineDeadlocks` (section 9) rest on `LocksBelong`: whoever holds a
lock is in the critical section for its row. `IInv` has the other direction, so the two
together are `LocksAreHeld`. For deadlocks, let every member of D wait for a member. A bump
that holds an order waits for nobody, so nobody in D waits for a locked order, and no checkout
is in D. What members wait for is then a table held by a transition or settlement, or an order
shared by an offline payment; and either way some transition or settlement r is in D. It
waits for an offline payment of its order, which in turn waits for its guest's table; if
that is the order's table, it is the table r holds.

`ServiceRequests_proofs` proves, for every set of handlers, workers, tables, types and
requests and every cool-down and threshold: `InvariantHolds` (`[]IInv`), `OneLive`
(`[]OneLiveRequest`), `Spaced` (`[]RequestsAreSpaced`), `OnlyWaiting`
(`OnlyWaitingEscalate`) and `AtMostOneEscalation` (`[]EscalatedOnce`). Here the difficulty is that staff write without a lock, so a
status may go back from COMPLETED to ACKNOWLEDGED and "no active request" is not stable
while a guest's handler holds the table. What is stable is that a request was closed
once: its `completed_at` or `dismissed_at` is never cleared. So `OneLiveRequest` speaks of
requests never closed, and `IInv` says that a handler about to insert has only closed,
cooled-down requests before it, and that a scan about to commit still owns its rows.
For `AtMostOneEscalation` `EscalationsOK` adds that a request whose escalation was published, or
is about to be, is marked in its row, and that one scan marked it.
`CallsRefine` (`ImplementsCallBell`) shows of each action which step of `CallBell` it is:
closing and escalating are steps of sets of calls, because a settlement and a scan write many
rows at once. It needs `EscalationsOK`, and `TimesOK`: a row that still waits was answered
by nobody, and the time a handler noted before it waited for the table is past.
Assumptions: the times are natural numbers and the cool-down is positive
(`TimesAreNaturals`), workers are tasks, NULL is no row.

`RealTime_proofs` proves, for every set of processes, sockets, channels and events and
any number of failures: `InvariantHolds` (`[]IInv`), `Once` (`[]OnceUnlessLost`),
`DeafStayLocal` (`[]DeafWorkersStayLocal`), `EndedForgotten`
(`[]EndedSocketsAreForgotten`) and `OneOrder` (`[]SameOrder`). `IInv` says, per event, where it can be: nowhere before its
answer; afterwards in a stream, in a send or at the socket, and in one of them only, and in
no stream at all if it was broadcast locally. The proof takes one event at a time
(`MessageOK`): most steps leave it where it was (`Stays`), so each action needs an argument
for the one event it moves. Section 1 of the module has the facts on sequences it uses.
`OneOrder` needs an order where none is recorded. `Ahead(m1, m2)` says that somewhere, in a
stream, a send or a socket, m1 has come further than m2; `OrderOK`, that of two events that
went through Redis not both are ahead of the other. Redis puts an event behind all others in
every stream; every other step brings no event ahead of another (`NoneOvertakes`), because
the reader awaits the sends of one event before it takes the next.

`RateLimiter_proofs` proves, for every set of clients, proxies and storage objects, every
finite set of calls and every limit, window and interval: `InvariantHolds` (`[]IInv`),
`LocksOwned`, `KeysBounded`, `Limit` (`LimitHolds`), `RefusedWhenFull`
(`RefusedOnlyWhenFull`) and `EvictsOldest` (`EvictedUnderPressure`). `IInv` adds that a call is counted under the address it came from
(`KeysAreOrigins`, from the lemma `ResolvesToOrigin`) and that what was allowed within the
window that ends now is still stored, unless evicted (`StoreOK`). The second is inductive
because a transaction may only work with a time that has passed: what it drops as expired
stays expired. The limits then are inclusions between finite sets and their cardinalities.
Assumptions: requests arrive as `Arrives` says (`RequestsArrive`: the proxies named in
TRUSTED_PROXIES append or set the address that called them), clients are no trusted proxies
(`ClientsAreNoProxies`), limits are positive (`LimitsArePositive`), calls are numbered
(`CallsAreNumbered`); and the clock does not step back.

`Catalogue_proofs` proves, for every set of users, branches, rows, requests and bodies:
`MenuInvariant` (`[]IInv`), `MenuReferencesHold`, `MenuStaysInBranch` (`[]OwnBranch`),
`AuditNeverLies` (`[]AuditIsTruthful`), `TicketsAgree` (`[]OneTicketPerLine`) and
`EditsAreAdministered` (`EditsStayInBranch`). What a waiting
request has found may be gone when it commits, so the invariant cannot say that it is
there; it says that it is `Here`: its id was given out, and if its row is still there, it is in
the branch where it was found. That is stable, because ids are not reused and no row changes
its branch, and with the foreign keys of the commit it is enough. `IInv` adds this for every
id that an edit or a checkout holds (`LoadedCategory`, `LoadedItem`, `LoadedModifier`,
`LoadedStation`, `CartOK`), and for the log and the tickets that what they say is so for good
(`Settled`, `TicketOK`). The proof has a lemma per kind of write (`PutItem`, `Cascade`,
`DropStation` and so on), which shows that the rows stay in order, that what others found
stays `Here`, and that only an administered branch changed; each action then is one of these
writes. Assumptions: constants have their types (`AccessAssumption`, `CodesAssumption`,
`BodiesAssumption`), and NULL is no row and ids of different tables differ (`IdsAssumption`).
The initial rows are any that satisfy the database's constraints and `OwnBranch`.

`CatalogueHistory_proofs` adds, from the same assumptions: `HistoryInvariant` (`[]HInv`), `GuestsPayOffers`
(`[]OfferedLines`) and `BroadcastsAreOfCommits` (`[]BroadcastsWereStored`). An edit that has
committed has to tell what was stored then, though the row may have changed since, so the
invariant speaks of what was ever stored (`TellsStored`). Of a checkout it says that the item
and the options it holds were on sale at some moment since it began (`SeenOnSale`), and that
the groups it loaded are still its item's where they still are (`KnownGroups`): without
this, options loaded later could be some other item's. A re-order that loaded its item early
has seen it on sale then, if the row says that it was available; that the item is on the menu
it knows only from the later query, which is why `OfferedLines` speaks of the two apart.
`listed` and `seen` only grow until the commit, so what was found once stays found.

Only model-checked: the liveness properties `RequestsFinish`, `OverdueEscalates`,
`SubscribersAreServed` and `FallbackReturns`, which hold under fairness only.

## 6. Where the code disagrees with what it says

Each run of this kind checks one sentence of a comment, a docstring or a test.
`PROJECT.json` quotes it.

* `overpayment` (`NoOverpayment`) -- pending payments reserve nothing, so two of them may each pay the
  whole balance.
* `cancelled` (`CancelledIsFinal`) -- a settlement turns a CANCELLED order into a CLOSED one.
* `stale_bump` (`ReadyMeansBumped`) -- a bump decides on a line it read before it locked the order.
* `revived` (`OnlyLegalAnswers`) -- staff answer a request on a status read without a lock. In TLC's trace a
  settlement dismisses the request after the answer's check, and the answer's commit then
  replaces DISMISSED. Two answers of staff race in the same way.

Others were met and have no run of their own.

*Orders and payments*

* An offline request locks order before table, every other handler table before order
  (`app/services/payment_service.py:461`), though `tests/test_remediation_be2.py:238` speaks
  of a standardised order of acquisition. The run `liveness` shows that PostgreSQL's deadlock
  detector resolves it: a request ends, if with an error. The theorem `OnlyOfflineDeadlocks`
  shows that there is no other cause. As the order named need not be the table's
  (`app/services/payment_service.py:379`), the circle may even run through two tables.
* A late payment of a finished order frees the table while the next party's order is open
  (`app/services/payment_service.py:313`).
* A webhook completes its payment whatever its event's type and status say
  (`app/services/payment_service.py:231`).
* Two guests may both pass the check for a pending offline request
  (`app/services/payment_service.py:408`), one more way to overpay.
* An option's `price_delta` has no lower bound (`app/schemas/staff_menu.py:189`), so that a line
  may lower a total (`app/services/order_service.py:262`). An order whose total a checkout lowers
  to what was paid already, or below, stays open and unpaid: no settlement is left to come, a new
  payment is refused because nothing remains (`app/services/payment_service.py:143`), and
  unless staff close the order only a repeated notice of an old payment, on its way already,
  settles it.
* Lines added to a READY order are sent to no station
  (`app/services/order_service.py:351`), and a crash before the dispatch loses it.
* Closing an order by staff frees the table and keeps its session token, so the departed
  diners may order again (`app/services/order_service.py:446`).
* Of two scans of a free table the later replaces the earlier one's session
  (`app/services/session_service.py:116`).
* A bump of the last line takes an order from SUBMITTED to READY, an edge
  `VALID_TRANSITIONS` does not have (`app/services/station_routing_service.py:326`).

*Live updates and limits*

* A process started while Redis is away makes a client at its first publication after Redis
  is back, and from then on publishes to Redis without a reader, so that its own sockets miss
  all events (`app/core/redis_pubsub.py:157`).
* After one failed publication a process broadcasts locally for ever, `_is_connected` being
  set only when a client is made (`app/core/redis_pubsub.py:168`).
* The shared file counts a client's requests to all limited routes together, so that thirty
  QR scans use up the five logins (`app/core/rate_limit.py:511`).

* Only `socket_connect_timeout` is set for Redis (`app/core/redis_pubsub.py:41`). One that takes
  the connection and then does not answer keeps a handler that publishes waiting for ever
  (`app/core/redis_pubsub.py:160`); if it is the first `ping` that hangs, the bridge's lock is
  held and every later publication of the process waits for it (`app/core/redis_pubsub.py:46`).

*Menu and stations*

* A re-order sells by item rows that came with the open order
  (`app/services/order_service.py:114`); the query for the item (`app/services/order_service.py:154`)
  finds them again and does not refresh them. If the category was inactive when the row came,
  and was reactivated after the item was repriced or sold out, the line is of an item that was
  never on the menu at that price.

* Two switches of one item may be broadcast in the other order than they committed, and
  displays keep the older availability until they reload
  (`app/services/staff_menu_service.py:440`), though the broadcasts are there "to instantly
  synchronize catalog state" (`app/services/catalog_broadcast_service.py:4`).
* An item that was ever ordered cannot be deleted: `order_items.item_id` is NOT NULL, and the
  commit fails with an error of the server (`app/services/staff_menu_service.py:513`).
* Two requests that seed one branch's stations at once: the later one's commit breaks
  `uq_kitchen_station_branch_code`, which nothing catches
  (`app/services/kitchen_station_service.py:75`).
* A default station that was deleted is seeded again by the next list.
* A required group whose options are all sold out makes its item impossible to order, while the
  menu shows it as available.
* `create_item` gives an item its category's station even when the body names a legacy one,
  and the station wins over the legacy column.
* Tickets of stations with codes of their own can be neither filtered nor bumped as a whole:
  the parameters of `app/api/v1/kds.py:42` and `app/api/v1/kds.py:83` are of the enum.
* `validate_item_selection` knows only the legacy stations, so that a quotation may name
  another station than the order will be routed to (`app/services/menu_service.py:225`).
* A row may be assigned to an inactive station.

## 7. Not modelled

* The QR codes' signatures and images, the gateways' intents and signatures, login, tokens and
  passwords: functions of their arguments, mostly of cryptography, with no state that two
  requests could dispute. What they answer is a choice of the environment where it matters.
* Translations (`app/core/i18n.py`), response schemas, generators of documentation, seed
  scripts and migrations: data and layout.
* Of the modelled services, the read-only endpoints (`get_active_table_order`,
  `get_pending_offline_payments`, lists of the menu and of service requests), and the rate
  limiter's `cleanup()` and `reset()`, which only tests call.
* What becomes of a kitchen publication or of a menu's broadcast inside `publish`: `RealTime`
  has it.
* Of the audit log, the rows that menu edits write are modelled; the middleware's, one per
  request with what the request looked like, and the reports are not.
* Of access, whether a token is genuine and not expired, and a user who loses a role while one
  of his requests runs.
