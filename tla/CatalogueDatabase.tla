-------------------------- MODULE CatalogueDatabase --------------------------
(***************************************************************************)
(* The menu's tables (app/models/catalog.py, app/models/kitchen_station.py)*)
(* with the order lines that refer to them (app/models/order.py), the      *)
(* constraints PostgreSQL checks when a statement writes them, and the     *)
(* requests that read and write them.  Every request reads without a lock  *)
(* and commits later, at READ COMMITTED.                                   *)
(***************************************************************************)
EXTENDS Access, Integers

CONSTANTS StationIds, CategoryIds, ItemIds, GroupIds, OptionIds, LineIds,
          Codes,              \* station codes, upper case
          Prices, Deltas,     \* base prices, and what an option adds to one
          Edits,              \* requests of staff
          Checkouts           \* requests of guests

VARIABLES station, category, item, group, option, line,  \* id -> row, or None
          used,          \* ids ever given out: uuid4 repeats none
          edit,          \* what each staff request has read and is about to do
          cart,          \* the same for each checkout
          told,          \* the availability last broadcast for an item or option
          audit,         \* rows of audit_logs
          kds            \* lines shown in the kitchen, each under a station

rows   == <<station, category, item, group, option, line>>
effects == <<told, audit, kds>>
catalogueVars == <<rows, used, edit, cart, effects>>

\* The native enum kitchen_station, which the older columns "station" hold.
KitchenStation == {"HOT_KITCHEN", "COLD_KITCHEN", "BEVERAGE", "DESSERT"}

StationRow  == [branch_id : Branches, code : Codes, is_active : BOOLEAN]
CategoryRow == [branch_id : Branches, station_id : StationIds \cup {None},
                station : KitchenStation, is_active : BOOLEAN]
ItemRow     == [category_id : CategoryIds, station_id : StationIds \cup {None},
                station : KitchenStation \cup {None}, is_available : BOOLEAN,
                base_price : Prices]
GroupRow    == [item_id : ItemIds, min_choices : Nat, max_choices : Nat,
                is_required : BOOLEAN]
OptionRow   == [group_id : GroupIds, is_available : BOOLEAN, price_delta : Deltas]
\* unit_price is base_price with the deltas of modifiers, the snapshot, added; open: the
\* order is in OPEN_ORDER_STATUSES.
LineRow     == [branch_id : Branches, item_id : ItemIds, base_price : Prices,
                station_id : StationIds \cup {None}, station_code : Codes \cup KitchenStation,
                modifiers : SUBSET (OptionIds \X Deltas), open : BOOLEAN]

ASSUME CodesAssumption ==
    /\ {"HOT_KITCHEN", "COLD_KITCHEN", "BEVERAGE"} \subseteq Codes
    /\ Prices \subseteq Nat /\ Deltas \subseteq Int

-----------------------------------------------------------------------------
(* Queries, each scoped to a branch *)

StationIn(s, b)  == station[s] # None /\ station[s].branch_id = b
CategoryIn(c, b) == category[c] # None /\ category[c].branch_id = b
ItemIn(i, b)     == item[i] # None /\ CategoryIn(item[i].category_id, b)
GroupIn(g, b)    == group[g] # None /\ ItemIn(group[g].item_id, b)
OptionIn(o, b)   == option[o] # None /\ GroupIn(option[o].group_id, b)

\* An id no row has, or ever had.
Fresh(ids) == ids \ used

-----------------------------------------------------------------------------
(* Constraints *)

StationExists(s) == s # None => station[s] # None

UniqueCode(b, code) ==
    \A s \in StationIds : ~(StationIn(s, b) /\ station[s].code = code)

OneStationPerCode ==
    \A s, t \in StationIds :
       /\ station[s] # None /\ station[t] # None
       /\ station[s].branch_id = station[t].branch_id
       /\ station[s].code = station[t].code
       => s = t

ItemsOfCategory(c) == {i \in ItemIds : item[i] # None /\ item[i].category_id = c}
GroupsOf(items)    == {g \in GroupIds : group[g] # None /\ group[g].item_id \in items}
OptionsOf(groups)  == {o \in OptionIds : option[o] # None /\ option[o].group_id \in groups}

\* order_items.item_id is NOT NULL and RESTRICTs.
Ordered(items) == \E l \in LineIds : line[l] # None /\ line[l].item_id \in items

Without(table, ids) == [x \in DOMAIN table |-> IF x \in ids THEN None ELSE table[x]]

\* The rows that go with items, their groups and their options: ON DELETE CASCADE.
CascadeGroups(groups) ==
    /\ group'  = Without(group, groups)
    /\ option' = Without(option, OptionsOf(groups))

\* FAULT: an ordered item goes like any other.
CascadeOrdered(items) ==
    /\ item' = Without(item, items)
    /\ CascadeGroups(GroupsOf(items))

CascadeItems(items) ==
    /\ ~Ordered(items)
    /\ item' = Without(item, items)
    /\ CascadeGroups(GroupsOf(items))

\* ON DELETE SET NULL, in the tables that refer to kitchen_stations.
Unassigned(table, s) ==
    [x \in DOMAIN table |-> IF table[x] = None THEN None
                            ELSE [table[x] EXCEPT !.station_id = IF @ = s THEN None ELSE @]]

-----------------------------------------------------------------------------
(* Requests *)

\* The columns of a request's body that differ from what was loaded: the UPDATE
\* names no other.
Changed(payload, row) ==
    [c \in {c \in DOMAIN payload : payload[c] # row[c]} |-> payload[c]]

\* A column's value after an UPDATE.
Written(patch, c, old) == IF c \in DOMAIN patch THEN patch[c] ELSE old

NoEdit == [pc |-> "new", op |-> "none", branch |-> None, id |-> None,
           patch |-> None, tell |-> "nothing"]

NoCart == [pc |-> "new", branch |-> None, item |-> None, row |-> None, chosen |-> None,
           code |-> None, station_id |-> None, groups |-> {}, modifiers |-> {},
           line |-> None]

\* A staff request has passed its checks.  patch: the columns to write, or the new
\* row; tell: what is to be broadcast after the commit.
Load(e, op, b, id, patch, tell) ==
    /\ edit[e].pc = "new"
    /\ edit' = [edit EXCEPT ![e] = [pc |-> "loaded", op |-> op, branch |-> b, id |-> id,
                                    patch |-> patch, tell |-> tell]]
    /\ UNCHANGED <<rows, used, cart, effects>>

Loaded(e, ops) == edit[e].pc = "loaded" /\ edit[e].op \in ops

\* On to pc, with what there was to write written.
Advance(e, pc, tell) ==
    edit' = [edit EXCEPT ![e] = [pc |-> pc, op |-> @.op, branch |-> @.branch, id |-> @.id,
                                 patch |-> None, tell |-> tell]]

Step(e, pc) == Advance(e, pc, edit[e].tell)

\* The response is sent, or an error is; the request's locals are gone.
Respond(e) == edit' = [edit EXCEPT ![e] = [pc |-> "done", op |-> "none", branch |-> None,
                                           id |-> None, patch |-> None, tell |-> "nothing"]]

\* An error raised, a constraint violated, a row gone (StaleDataError), a process
\* that dies: what is not committed is rolled back, what comes after does not happen.
AbortEdit(e) ==
    /\ edit[e].pc \notin {"new", "done"}
    /\ Respond(e)
    /\ UNCHANGED <<rows, used, cart, effects>>
==============================================================================
