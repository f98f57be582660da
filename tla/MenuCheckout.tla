----------------------------- MODULE MenuCheckout -----------------------------
(***************************************************************************)
(* What a guest's request reads of the menu: one line of a cart, checked   *)
(* and priced by checkout_order (app/services/order_service.py) or only    *)
(* quoted by validate_item_selection (app/services/menu_service.py), then  *)
(* sent to a station by app/services/station_routing_service.py.  The      *)
(* loader sends several queries, each of which sees what is committed then:*)
(* one step finds the item, one routes it (for its stations and its        *)
(* category), one loads its groups and one their options.  What the        *)
(* session holds already, a later query finds but does not refresh.        *)
(***************************************************************************)
EXTENDS CatalogueDatabase

CONSTANT Selections \* bodies: functions from some groups to the options chosen

\* The items of get_menu_tree: an inactive category hides its own, one sold out stays.
OnMenu(i, b) == ItemIn(i, b) /\ category[item[i].category_id].is_active

\* The response is sent; the request's locals are gone.
Answer(g) == cart' = [cart EXCEPT ![g] = [NoCart EXCEPT !.pc = "done"]]

\* The query finds item i on the menu; the columns the request goes by are those of row.
TakeItem(g, b, i, row) ==
    /\ OnMenu(i, b)
    /\ row.is_available
    /\ \E chosen \in Selections :
          cart' = [cart EXCEPT ![g] = [NoCart EXCEPT !.pc = "item", !.branch = b, !.item = i,
                                                     !.row = row, !.chosen = chosen]]
    /\ UNCHANGED <<rows, used, edit, effects>>

\* An item that the session does not hold yet is loaded by the query.
CheckoutItem(g, b, i) ==
    /\ cart[g].pc = "new"
    /\ TakeItem(g, b, i, item[i])

\* A re-order loads the lines of the table's open order, and their items, first.
ReorderLoad(g, b, l) ==
    /\ cart[g].pc = "new"
    /\ line[l] # None
    /\ line[l].open /\ line[l].branch_id = b
    /\ cart' = [cart EXCEPT ![g] = [NoCart EXCEPT !.pc = "loaded", !.branch = b,
                                       !.item = line[l].item_id,
                                       !.row = item[line[l].item_id]]]
    /\ UNCHANGED <<rows, used, edit, effects>>

\* The guest orders the same item again: the session holds its row, perhaps an old one.
ReorderItem(g) ==
    /\ cart[g].pc = "loaded"
    /\ TakeItem(g, cart[g].branch, cart[g].item, cart[g].row)

\* The relationship kitchen_station, as the loader's next queries find it.
DynamicCode(s) == IF s # None /\ station[s] # None THEN station[s].code ELSE None

Or(a, b) == IF a # None THEN a ELSE b

\* FAULT: the category's stations are forgotten.
OwnStationOnly(row, parent) == Or(DynamicCode(row.station_id), row.station)

resolve_item_station(row, parent) ==
    Or(DynamicCode(row.station_id),
       Or(row.station, Or(DynamicCode(parent.station_id), Or(parent.station, "HOT_KITCHEN"))))

\* The item's category is loaded again, by its id, and may be gone.
CheckoutStation(g) ==
    LET row    == cart[g].row
        parent == IF category[row.category_id] # None THEN category[row.category_id]
                  ELSE [station_id |-> None, station |-> None]
    IN  /\ cart[g].pc = "item"
        /\ cart' = [cart EXCEPT ![g].pc = "routed",
                                ![g].code = resolve_item_station(row, parent),
                                ![g].station_id = Or(row.station_id, parent.station_id)]
        /\ UNCHANGED <<rows, used, edit, effects>>

CheckoutGroups(g) ==
    LET found == GroupsOf({cart[g].item})
    IN  /\ cart[g].pc = "routed"
        /\ cart' = [cart EXCEPT ![g].pc = "groups",
                                ![g].groups = {<<x, group[x]>> : x \in found}]
        /\ UNCHANGED <<rows, used, edit, effects>>

ChosenOf(chosen, g) == IF g \in DOMAIN chosen THEN chosen[g] ELSE {}

\* FAULT: a sold out option passes.
AnySelection(chosen, groups, options) ==
    /\ DOMAIN chosen \subseteq {x[1] : x \in groups}
    /\ \A x \in groups :
          LET g   == x[1]
              row == x[2]
              n   == Cardinality(ChosenOf(chosen, g))
          IN  /\ row.min_choices <= n /\ n <= row.max_choices
              /\ row.is_required => n >= 1
              /\ \A o \in ChosenOf(chosen, g) : o \in options /\ option[o].group_id = g

\* Every group of the item gets as many options as it allows, and options of its own.
ValidSelection(chosen, groups, options) ==
    /\ DOMAIN chosen \subseteq {x[1] : x \in groups}
    /\ \A x \in groups :
          LET g   == x[1]
              row == x[2]
              n   == Cardinality(ChosenOf(chosen, g))
          IN  /\ row.min_choices <= n /\ n <= row.max_choices
              /\ row.is_required => n >= 1
              /\ \A o \in ChosenOf(chosen, g) :
                    o \in options /\ option[o].group_id = g /\ option[o].is_available

CheckoutOptions(g) ==
    LET c      == cart[g]
        chosen == UNION {c.chosen[x] : x \in DOMAIN c.chosen}
    IN  /\ c.pc = "groups"
        /\ ValidSelection(c.chosen, c.groups, OptionsOf({x[1] : x \in c.groups}))
        /\ cart' = [cart EXCEPT ![g].pc = "priced",
                        ![g].modifiers = {<<o, option[o].price_delta>> : o \in chosen}]
        /\ UNCHANGED <<rows, used, edit, effects>>

\* validate_item_selection answers with what a checkout would have inserted.
Quote(g) ==
    /\ cart[g].pc = "priced"
    /\ Answer(g)
    /\ UNCHANGED <<rows, used, edit, effects>>

CheckoutCommit(g, l) ==
    LET c == cart[g]
    IN  /\ c.pc = "priced"
        /\ l \in Fresh(LineIds)
        /\ item[c.item] # None
        /\ StationExists(c.station_id)
        /\ line' = [line EXCEPT ![l] =
                       [branch_id |-> c.branch, item_id |-> c.item,
                        base_price |-> c.row.base_price, station_id |-> c.station_id,
                        station_code |-> c.code, modifiers |-> c.modifiers, open |-> TRUE]]
        /\ used' = used \cup {l}
        /\ cart' = [cart EXCEPT ![g] = [NoCart EXCEPT !.pc = "committed", !.line = l]]
        /\ UNCHANGED <<station, category, item, group, option, edit, effects>>

\* FAULT: a ticket goes where the line's station is now.
LiveTickets(lines) == {<<Or(DynamicCode(line[l].station_id), "HOT_KITCHEN"), l>> : l \in lines}

\* decompose_order groups lines under the code they were routed to.
SubTickets(lines) == {<<line[l].station_code, l>> : l \in lines}

\* dispatch_order_to_kds, once the checkout is committed.
CheckoutDispatch(g) ==
    /\ cart[g].pc = "committed"
    /\ kds' = kds \cup SubTickets({cart[g].line})
    /\ Answer(g)
    /\ UNCHANGED <<rows, used, edit, told, audit>>

\* The order waited for staff to confirm it: its lines go to the kitchen only then.
ConfirmDispatch(l) ==
    /\ line[l] # None
    /\ line[l].open
    /\ \A ticket \in kds : ticket[2] # l
    /\ kds' = kds \cup SubTickets({l})
    /\ UNCHANGED <<rows, used, edit, cart, told, audit>>

\* get_active_kds_tickets: a display asks for the tickets of a branch, whose orders are
\* SUBMITTED or PREPARING and so among the open ones.
PollTickets(b) ==
    /\ \E active \in SUBSET {l \in LineIds : /\ line[l] # None
                                             /\ line[l].branch_id = b /\ line[l].open} :
          kds' = kds \cup SubTickets(active)
    /\ UNCHANGED <<rows, used, edit, cart, told, audit>>

\* The guest's selection is refused, a row it needs is gone, or the process dies.
AbortCheckout(g) ==
    /\ cart[g].pc \notin {"new", "done"}
    /\ Answer(g)
    /\ UNCHANGED <<rows, used, edit, effects>>

\* The order leaves OPEN_ORDER_STATUSES.
OrderEnds(l) ==
    /\ line[l] # None
    /\ line[l].open
    /\ line' = [line EXCEPT ![l].open = FALSE]
    /\ UNCHANGED <<station, category, item, group, option, used, edit, cart, effects>>

-----------------------------------------------------------------------------
Checkout(g) ==
    \/ \E b \in ActiveBranches : \/ \E i \in ItemIds : CheckoutItem(g, b, i)
                                \/ \E l \in LineIds : ReorderLoad(g, b, l)
    \/ ReorderItem(g)
    \/ CheckoutStation(g) \/ CheckoutGroups(g) \/ CheckoutOptions(g)
    \/ Quote(g)
    \/ \E l \in LineIds : CheckoutCommit(g, l)
    \/ CheckoutDispatch(g)

Kitchen ==
    \/ \E l \in LineIds : ConfirmDispatch(l) \/ OrderEnds(l)
    \/ \E b \in Branches : PollTickets(b)
===============================================================================
