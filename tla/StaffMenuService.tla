--------------------------- MODULE StaffMenuService ---------------------------
(***************************************************************************)
(* app/services/staff_menu_service.py: a manager's edits of categories,    *)
(* items, modifier groups and options.  An edit is checked against the     *)
(* branch in one action, committed in another, then broadcast and audited. *)
(***************************************************************************)
EXTENDS CatalogueDatabase

CONSTANTS CategoryBodies, ItemBodies, OptionBodies, \* PATCH bodies: column -> value
          NewCategories, NewItems, NewGroups, NewOptions \* POST bodies

Managed == Admitted(MenuEndpointRoles)

\* FAULT: the station is looked up without its branch.
StationOfBodyAnywhere(body, b) ==
    "station_id" \in DOMAIN body /\ body.station_id # None => station[body.station_id] # None

\* A body names no station, or one of the branch.
StationOfBodyIn(body, b) ==
    "station_id" \in DOMAIN body /\ body.station_id # None => StationIn(body.station_id, b)

-----------------------------------------------------------------------------
(* Categories *)

CreateCategory(e, b, c) ==
    \E body \in NewCategories :
       /\ StationOfBodyIn(body, b)
       /\ c \in Fresh(CategoryIds)
       /\ Load(e, "CATEGORY_CREATED", b, c,
               [branch_id |-> b, station_id |-> body.station_id, station |-> body.station,
                is_active |-> body.is_active], "nothing")

UpdateCategory(e, b, c) ==
    \E body \in CategoryBodies :
       /\ CategoryIn(c, b)
       /\ StationOfBodyIn(body, b)
       /\ Load(e, "CATEGORY_UPDATED", b, c, Changed(body, category[c]), "nothing")

HasOpenOrders(items) ==
    \E l \in LineIds : line[l] # None /\ line[l].item_id \in items /\ line[l].open

DeleteCategory(e, b, c, soft) ==
    /\ CategoryIn(c, b)
    /\ IF soft THEN Load(e, "CATEGORY_DEACTIVATED", b, c,
                         Changed([is_active |-> FALSE], category[c]), "nothing")
       ELSE /\ ~HasOpenOrders(ItemsOfCategory(c))
            /\ Load(e, "CATEGORY_DELETED", b, c, None, "nothing")

InsertCategory(e) ==
    /\ Loaded(e, {"CATEGORY_CREATED"})
    /\ edit[e].id \in Fresh(CategoryIds)
    /\ StationExists(edit[e].patch.station_id)
    /\ category' = [category EXCEPT ![edit[e].id] = edit[e].patch]
    /\ used' = used \cup {edit[e].id}
    /\ Step(e, "committed")
    /\ UNCHANGED <<station, item, group, option, line, cart, effects>>

PatchedCategory(row, patch) ==
    [branch_id  |-> row.branch_id,
     station_id |-> Written(patch, "station_id", row.station_id),
     station    |-> Written(patch, "station", row.station),
     is_active  |-> Written(patch, "is_active", row.is_active)]

WriteCategory(e) ==
    LET c == edit[e].id
    IN  /\ Loaded(e, {"CATEGORY_UPDATED", "CATEGORY_DEACTIVATED"})
        /\ category[c] # None
        /\ StationExists(Written(edit[e].patch, "station_id", None))
        /\ category' = [category EXCEPT ![c] = PatchedCategory(@, edit[e].patch)]
        /\ Step(e, IF edit[e].op = "CATEGORY_UPDATED" THEN "committed" ELSE "refreshed")
        /\ UNCHANGED <<station, item, group, option, line, used, cart, effects>>

\* The DELETE of a row that is gone already deletes nothing and raises nothing.
RemoveCategory(e) ==
    LET c == edit[e].id
    IN  /\ Loaded(e, {"CATEGORY_DELETED"})
        /\ category' = Without(category, {c})
        /\ CascadeItems(ItemsOfCategory(c))
        /\ Step(e, "refreshed")
        /\ UNCHANGED <<station, line, used, cart, effects>>

-----------------------------------------------------------------------------
(* Items, and the 86 switch *)

\* A new item takes its category's station unless its body names one.
CreateItem(e, b, i) ==
    \E body \in NewItems :
       LET c == body.category_id
           s == IF body.station_id # None THEN body.station_id ELSE category[c].station_id
       IN  /\ CategoryIn(c, b)
           /\ s # None => StationIn(s, b)
           /\ i \in Fresh(ItemIds)
           /\ Load(e, "ITEM_CREATED", b, i,
                   [category_id |-> c, station_id |-> s,
                    station |-> IF body.station # None THEN body.station ELSE category[c].station,
                    is_available |-> body.is_available, base_price |-> body.base_price],
                   "nothing")

UpdateItem(e, b, i) ==
    \E body \in ItemBodies :
       /\ ItemIn(i, b)
       /\ "category_id" \in DOMAIN body /\ body.category_id # item[i].category_id
             => CategoryIn(body.category_id, b)
       /\ StationOfBodyIn(body, b)
       /\ Load(e, "ITEM_UPDATED", b, i, Changed(body, item[i]),
               IF "is_available" \in DOMAIN body THEN "stored" ELSE "nothing")

Availability(flag) == IF flag THEN "available" ELSE "sold_out"

SetItemAvailability(e, b, i, flag) ==
    /\ ItemIn(i, b)
    /\ Load(e, IF flag THEN "ITEM_RESTOCKED" ELSE "ITEM_86_TRIGGERED", b, i,
            Changed([is_available |-> flag], item[i]), Availability(flag))

DeleteItem(e, b, i, soft) ==
    /\ ItemIn(i, b)
    /\ IF soft THEN Load(e, "ITEM_DEACTIVATED", b, i,
                         Changed([is_available |-> FALSE], item[i]), "sold_out")
       ELSE /\ ~HasOpenOrders({i})
            /\ Load(e, "ITEM_DELETED", b, i, None, "nothing")

InsertItem(e) ==
    /\ Loaded(e, {"ITEM_CREATED"})
    /\ edit[e].id \in Fresh(ItemIds)
    /\ category[edit[e].patch.category_id] # None
    /\ StationExists(edit[e].patch.station_id)
    /\ item' = [item EXCEPT ![edit[e].id] = edit[e].patch]
    /\ used' = used \cup {edit[e].id}
    /\ Step(e, "committed")
    /\ UNCHANGED <<station, category, group, option, line, cart, effects>>

PatchedItem(row, patch) ==
    [category_id  |-> Written(patch, "category_id", row.category_id),
     station_id   |-> Written(patch, "station_id", row.station_id),
     station      |-> Written(patch, "station", row.station),
     is_available |-> Written(patch, "is_available", row.is_available),
     base_price   |-> Written(patch, "base_price", row.base_price)]

WriteItem(e) ==
    LET i == edit[e].id
    IN  /\ Loaded(e, {"ITEM_UPDATED", "ITEM_RESTOCKED", "ITEM_86_TRIGGERED",
                      "ITEM_DEACTIVATED"})
        /\ item[i] # None
        /\ category[Written(edit[e].patch, "category_id", item[i].category_id)] # None
        /\ StationExists(Written(edit[e].patch, "station_id", None))
        /\ item' = [item EXCEPT ![i] = PatchedItem(@, edit[e].patch)]
        /\ Step(e, IF edit[e].op = "ITEM_DEACTIVATED" THEN "refreshed" ELSE "committed")
        /\ UNCHANGED <<station, category, group, option, line, used, cart, effects>>

\* The ORM would blank the item of the lines it finds; the column is NOT NULL, so an
\* item that was ever ordered stays.
RemoveItem(e) ==
    /\ Loaded(e, {"ITEM_DELETED"})
    /\ CascadeItems({edit[e].id})
    /\ Step(e, "refreshed")
    /\ UNCHANGED <<station, category, line, used, cart, effects>>

-----------------------------------------------------------------------------
(* Modifier groups and options *)

CreateModifierGroup(e, b, i, g) ==
    \E body \in NewGroups :
       /\ ItemIn(i, b)
       /\ body.min_choices <= body.max_choices
       /\ g \in Fresh(GroupIds)
       /\ Load(e, "MODIFIER_GROUP_CREATED", b, g,
               [item_id |-> i, min_choices |-> body.min_choices,
                max_choices |-> body.max_choices, is_required |-> body.is_required],
               "nothing")

CreateModifierOption(e, b, g, o) ==
    \E body \in NewOptions :
       /\ GroupIn(g, b)
       /\ o \in Fresh(OptionIds)
       /\ Load(e, "MODIFIER_OPTION_CREATED", b, o,
               [group_id |-> g, is_available |-> body.is_available,
                price_delta |-> body.price_delta], "nothing")

UpdateModifierOption(e, b, o) ==
    \E body \in OptionBodies :
       /\ OptionIn(o, b)
       /\ Load(e, "MODIFIER_OPTION_UPDATED", b, o, Changed(body, option[o]),
               IF "is_available" \in DOMAIN body THEN "stored" ELSE "nothing")

SetOptionAvailability(e, b, o, flag) ==
    /\ OptionIn(o, b)
    /\ Load(e, IF flag THEN "MODIFIER_OPTION_RESTOCKED" ELSE "MODIFIER_OPTION_86_TRIGGERED",
            b, o, Changed([is_available |-> flag], option[o]), Availability(flag))

DeleteModifierGroup(e, b, g) ==
    /\ GroupIn(g, b)
    /\ Load(e, "MODIFIER_GROUP_DELETED", b, g, None, "nothing")

DeleteModifierOption(e, b, o) ==
    /\ OptionIn(o, b)
    /\ Load(e, "MODIFIER_OPTION_DELETED", b, o, None, "nothing")

InsertGroup(e) ==
    /\ Loaded(e, {"MODIFIER_GROUP_CREATED"})
    /\ edit[e].id \in Fresh(GroupIds)
    /\ item[edit[e].patch.item_id] # None
    /\ group' = [group EXCEPT ![edit[e].id] = edit[e].patch]
    /\ used' = used \cup {edit[e].id}
    /\ Step(e, "committed")
    /\ UNCHANGED <<station, category, item, option, line, cart, effects>>

InsertOption(e) ==
    /\ Loaded(e, {"MODIFIER_OPTION_CREATED"})
    /\ edit[e].id \in Fresh(OptionIds)
    /\ group[edit[e].patch.group_id] # None
    /\ option' = [option EXCEPT ![edit[e].id] = edit[e].patch]
    /\ used' = used \cup {edit[e].id}
    /\ Step(e, "committed")
    /\ UNCHANGED <<station, category, item, group, line, cart, effects>>

PatchedOption(row, patch) ==
    [group_id     |-> row.group_id,
     is_available |-> Written(patch, "is_available", row.is_available),
     price_delta  |-> Written(patch, "price_delta", row.price_delta)]

WriteOption(e) ==
    LET o == edit[e].id
    IN  /\ Loaded(e, {"MODIFIER_OPTION_UPDATED", "MODIFIER_OPTION_RESTOCKED",
                      "MODIFIER_OPTION_86_TRIGGERED"})
        /\ option[o] # None
        /\ option' = [option EXCEPT ![o] = PatchedOption(@, edit[e].patch)]
        /\ Step(e, "committed")
        /\ UNCHANGED <<station, category, item, group, line, used, cart, effects>>

RemoveGroup(e) ==
    /\ Loaded(e, {"MODIFIER_GROUP_DELETED"})
    /\ CascadeGroups({edit[e].id})
    /\ Step(e, "refreshed")
    /\ UNCHANGED <<station, category, item, line, used, cart, effects>>

RemoveOption(e) ==
    /\ Loaded(e, {"MODIFIER_OPTION_DELETED"})
    /\ option' = Without(option, {edit[e].id})
    /\ Step(e, "refreshed")
    /\ UNCHANGED <<station, category, item, group, line, used, cart, effects>>

-----------------------------------------------------------------------------
(* After the commit *)

Present(id) ==
    \/ id \in CategoryIds /\ category[id] # None
    \/ id \in ItemIds /\ item[id] # None
    \/ id \in GroupIds /\ group[id] # None
    \/ id \in OptionIds /\ option[id] # None

Stored(id) ==
    Availability(IF id \in ItemIds THEN item[id].is_available ELSE option[id].is_available)

\* db.refresh reads the row again, and raises when it is gone; a PATCH broadcasts
\* what this reads, a toggle what it was asked for.
Refresh(e) ==
    /\ edit[e].pc = "committed"
    /\ Present(edit[e].id)
    /\ Advance(e, "refreshed",
               IF edit[e].tell = "stored" THEN Stored(edit[e].id) ELSE edit[e].tell)
    /\ UNCHANGED <<rows, used, cart, effects>>

\* FAULT: displays hear of an edit that may yet be rolled back.
BroadcastEarly(e) ==
    /\ edit[e].pc = "loaded"
    /\ edit[e].tell \in {"available", "sold_out"}
    /\ told' = [told EXCEPT ![edit[e].id] = edit[e].tell]
    /\ edit' = [edit EXCEPT ![e].tell = "nothing"]
    /\ UNCHANGED <<rows, used, cart, audit, kds>>

\* broadcast_item_availability_change, broadcast_modifier_availability_change.
Broadcast(e) ==
    /\ edit[e].pc = "refreshed"
    /\ edit[e].tell # "nothing"
    /\ told' = [told EXCEPT ![edit[e].id] = edit[e].tell]
    /\ Advance(e, "refreshed", "nothing")
    /\ UNCHANGED <<rows, used, cart, audit, kds>>

\* Redis refuses the event: a warning is logged.
BroadcastFails(e) ==
    /\ edit[e].pc = "refreshed"
    /\ edit[e].tell # "nothing"
    /\ Advance(e, "refreshed", "nothing")
    /\ UNCHANGED <<rows, used, cart, effects>>

\* FAULT: logged before the commit.
AuditEarly(e) ==
    /\ edit[e].pc \in {"loaded", "refreshed"}
    /\ audit' = audit \cup {<<edit[e].op, edit[e].id>>}
    /\ Respond(e)
    /\ UNCHANGED <<rows, used, cart, told, kds>>

\* AuditLogger.log, in a session of its own.
AuditLog(e) ==
    /\ edit[e].pc = "refreshed"
    /\ edit[e].tell = "nothing"
    /\ audit' = audit \cup {<<edit[e].op, edit[e].id>>}
    /\ Respond(e)
    /\ UNCHANGED <<rows, used, cart, told, kds>>

\* Its insert fails: a warning is logged, the edit stays.
AuditFails(e) ==
    /\ edit[e].pc = "refreshed"
    /\ edit[e].tell = "nothing"
    /\ Respond(e)
    /\ UNCHANGED <<rows, used, cart, effects>>

-----------------------------------------------------------------------------
MenuBegin(e) ==
    \E b \in Managed :
       \/ \E c \in CategoryIds : \/ CreateCategory(e, b, c)
                                 \/ UpdateCategory(e, b, c)
                                 \/ \E soft \in BOOLEAN : DeleteCategory(e, b, c, soft)
       \/ \E i \in ItemIds : \/ CreateItem(e, b, i)
                             \/ UpdateItem(e, b, i)
                             \/ \E f \in BOOLEAN : SetItemAvailability(e, b, i, f)
                             \/ \E soft \in BOOLEAN : DeleteItem(e, b, i, soft)
                             \/ \E g \in GroupIds : CreateModifierGroup(e, b, i, g)
       \/ \E g \in GroupIds : \/ DeleteModifierGroup(e, b, g)
                              \/ \E o \in OptionIds : CreateModifierOption(e, b, g, o)
       \/ \E o \in OptionIds : \/ UpdateModifierOption(e, b, o)
                               \/ \E f \in BOOLEAN : SetOptionAvailability(e, b, o, f)
                               \/ DeleteModifierOption(e, b, o)

MenuCommit(e) ==
    \/ InsertCategory(e) \/ WriteCategory(e) \/ RemoveCategory(e)
    \/ InsertItem(e)     \/ WriteItem(e)     \/ RemoveItem(e)
    \/ InsertGroup(e)                        \/ RemoveGroup(e)
    \/ InsertOption(e)   \/ WriteOption(e)   \/ RemoveOption(e)

MenuAfter(e) ==
    Refresh(e) \/ Broadcast(e) \/ AuditLog(e)

MenuFailure(e) == BroadcastFails(e) \/ AuditFails(e)
===============================================================================
