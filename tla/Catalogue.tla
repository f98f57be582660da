------------------------------- MODULE Catalogue -------------------------------
(***************************************************************************)
(* The menu as managers edit it and guests order from it, all at once:     *)
(* StaffMenuService, KitchenStationService and MenuCheckout over the       *)
(* tables of CatalogueDatabase.                                            *)
(***************************************************************************)
EXTENDS StaffMenuService, KitchenStationService, MenuCheckout

\* What Pydantic lets through of a PATCH body, and of what differs from a row.
CategoryPatch(p) ==
    /\ "station_id" \in DOMAIN p => p.station_id \in StationIds
    /\ "station" \in DOMAIN p    => p.station \in KitchenStation
    /\ "is_active" \in DOMAIN p  => p.is_active \in BOOLEAN

ItemPatch(p) ==
    /\ "category_id" \in DOMAIN p  => p.category_id \in CategoryIds
    /\ "station_id" \in DOMAIN p   => p.station_id \in StationIds
    /\ "station" \in DOMAIN p      => p.station \in KitchenStation
    /\ "is_available" \in DOMAIN p => p.is_available \in BOOLEAN
    /\ "base_price" \in DOMAIN p   => p.base_price \in Prices

OptionPatch(p) ==
    /\ "is_available" \in DOMAIN p => p.is_available \in BOOLEAN
    /\ "price_delta" \in DOMAIN p  => p.price_delta \in Deltas

ASSUME BodiesAssumption ==
    /\ \A p \in CategoryBodies : CategoryPatch(p)
    /\ \A p \in ItemBodies : ItemPatch(p)
    /\ \A p \in OptionBodies : OptionPatch(p)
    /\ NewCategories \subseteq [station_id : StationIds \cup {None}, station : KitchenStation,
                                is_active : BOOLEAN]
    /\ NewItems \subseteq [category_id : CategoryIds, station_id : StationIds \cup {None},
                           station : KitchenStation \cup {None}, is_available : BOOLEAN,
                           base_price : Prices]
    /\ NewGroups \subseteq [min_choices : Nat, max_choices : Nat, is_required : BOOLEAN]
    /\ NewOptions \subseteq [is_available : BOOLEAN, price_delta : Deltas]
    /\ NewCodes \subseteq Codes

ASSUME IdsAssumption ==
    /\ \A ids \in {StationIds, CategoryIds, ItemIds, GroupIds, OptionIds, LineIds} :
          None \notin ids
    /\ None \notin StationRow /\ None \notin CategoryRow /\ None \notin ItemRow
    /\ None \notin GroupRow /\ None \notin OptionRow /\ None \notin LineRow
    /\ None \notin Codes /\ None \notin KitchenStation
    /\ CategoryIds \cap (ItemIds \cup GroupIds \cup OptionIds) = {}
    /\ ItemIds \cap (GroupIds \cup OptionIds) = {}
    /\ GroupIds \cap OptionIds = {}

-----------------------------------------------------------------------------
(* Properties *)

CartRecord ==
    [pc : {"new", "loaded", "item", "routed", "groups", "priced", "committed", "done"},
     branch : Branches \cup {None}, item : ItemIds \cup {None}, row : ItemRow \cup {None},
     chosen : Selections \cup {None}, code : Codes \cup KitchenStation \cup {None},
     station_id : StationIds \cup {None},
     groups : SUBSET (GroupIds \X GroupRow), modifiers : SUBSET (OptionIds \X Deltas),
     line : LineIds \cup {None}]

\* Every row has the shape of its table, and its id is used up.
RowsOK ==
    /\ station  \in [StationIds -> StationRow \cup {None}]
    /\ category \in [CategoryIds -> CategoryRow \cup {None}]
    /\ item     \in [ItemIds -> ItemRow \cup {None}]
    /\ group    \in [GroupIds -> GroupRow \cup {None}]
    /\ option   \in [OptionIds -> OptionRow \cup {None}]
    /\ line     \in [LineIds -> LineRow \cup {None}]
    /\ \A s \in StationIds : station[s] # None => s \in used
    /\ \A c \in CategoryIds : category[c] # None => c \in used
    /\ \A i \in ItemIds : item[i] # None => i \in used
    /\ \A g \in GroupIds : group[g] # None => g \in used
    /\ \A o \in OptionIds : option[o] # None => o \in used
    /\ \A l \in LineIds : line[l] # None => l \in used

TypeOK ==
    /\ RowsOK
    /\ DOMAIN edit = Edits
    /\ cart \in [Checkouts -> CartRecord]

\* No row refers to one that is gone, whatever was deleted between the checks of an
\* edit or a checkout and its commit.
ReferencesHold ==
    /\ \A c \in CategoryIds : category[c] # None => StationExists(category[c].station_id)
    /\ \A i \in ItemIds : item[i] # None => /\ category[item[i].category_id] # None
                                            /\ StationExists(item[i].station_id)
    /\ \A g \in GroupIds : group[g] # None => item[group[g].item_id] # None
    /\ \A o \in OptionIds : option[o] # None => group[option[o].group_id] # None
    /\ \A l \in LineIds : line[l] # None => /\ item[line[l].item_id] # None
                                            /\ StationExists(line[l].station_id)

\* Whatever a category, an item or an order line refers to is of its own branch: no
\* database constraint says so, only the checks that an edit made before it committed.
OwnBranch ==
    /\ \A c \in CategoryIds :
          category[c] # None /\ category[c].station_id # None
             => StationIn(category[c].station_id, category[c].branch_id)
    /\ \A i \in ItemIds :
          item[i] # None /\ item[i].station_id # None
             => StationIn(item[i].station_id, category[item[i].category_id].branch_id)
    /\ \A l \in LineIds :
          line[l] # None => /\ ItemIn(line[l].item_id, line[l].branch_id)
                            /\ line[l].station_id # None
                                  => StationIn(line[l].station_id, line[l].branch_id)

Deletions == {"CATEGORY_DELETED", "ITEM_DELETED", "MODIFIER_GROUP_DELETED",
              "MODIFIER_OPTION_DELETED"}
Creations == {"CATEGORY_CREATED", "ITEM_CREATED", "MODIFIER_GROUP_CREATED",
              "MODIFIER_OPTION_CREATED"}

\* The audit log claims no deletion of a row that is there, nor a creation that was
\* rolled back.
AuditIsTruthful ==
    \A entry \in audit : /\ entry[1] \in Deletions => ~Present(entry[2])
                         /\ entry[1] \in Creations => entry[2] \in used

\* A display that polls finds a line under the station whose ticket announced it, though
\* that station was deleted, or the item moved, in between.
OneTicketPerLine == \A x, y \in kds : x[2] = y[2] => x[1] = y[1]

\* Some manager may administer branch b.
Administered(b) ==
    /\ b \in ActiveBranches
    /\ \E u \in ActiveUsers :
          /\ EmployerOf[u] = TenantOf[b]
          /\ \/ RoleOf[u] = "SUPER_ADMIN"
             \/ RoleOf[u] = "BRANCH_ADMIN" /\ b \in AccessOf[u]

\* A row changes only in a branch that some manager of its tenant may administer.
OnlyAdministeredChange ==
    /\ \A s \in StationIds : station'[s] # station[s] =>
          \E b \in Branches : Administered(b) /\ (StationIn(s, b) \/ StationIn(s, b)')
    /\ \A c \in CategoryIds : category'[c] # category[c] =>
          \E b \in Branches : Administered(b) /\ (CategoryIn(c, b) \/ CategoryIn(c, b)')
    /\ \A i \in ItemIds : item'[i] # item[i] =>
          \E b \in Branches : Administered(b) /\ (ItemIn(i, b) \/ ItemIn(i, b)')
    /\ \A g \in GroupIds : group'[g] # group[g] =>
          \E b \in Branches : Administered(b) /\ (GroupIn(g, b) \/ GroupIn(g, b)')
    /\ \A o \in OptionIds : option'[o] # option[o] =>
          \E b \in Branches : Administered(b) /\ (OptionIn(o, b) \/ OptionIn(o, b)')

\* A request of staff edits no branch that its tenant's managers may not administer,
\* whatever branch the request names.
EditsStayInBranch == [][OnlyAdministeredChange]_catalogueVars

-----------------------------------------------------------------------------
(* What a request relies on while it waits to commit.  The rows it read may be gone by   *)
(* then, but ids are not given out twice and no row changes its branch: an id that was   *)
(* found in a branch is Here, in that branch if anywhere.                                *)

StationHere(s, b)  == s \in used /\ (station[s] # None => StationIn(s, b))
CategoryHere(c, b) == c \in used /\ (category[c] # None => CategoryIn(c, b))
ItemHere(i, b)     == i \in used /\ (item[i] # None => ItemIn(i, b))
GroupHere(g, b)    == g \in used /\ (group[g] # None => GroupIn(g, b))
OptionHere(o, b)   == o \in used /\ (option[o] # None => OptionIn(o, b))

NamesStation(s, b) == s # None => StationHere(s, b)

LoadedCategory(x) ==
    /\ x.op = "CATEGORY_CREATED" =>
          /\ x.id \in CategoryIds /\ x.patch \in CategoryRow /\ x.patch.branch_id = x.branch
          /\ NamesStation(x.patch.station_id, x.branch)
    /\ x.op \in {"CATEGORY_UPDATED", "CATEGORY_DEACTIVATED"} =>
          /\ x.id \in CategoryIds /\ CategoryHere(x.id, x.branch) /\ CategoryPatch(x.patch)
          /\ "station_id" \in DOMAIN x.patch => StationHere(x.patch.station_id, x.branch)
    /\ x.op = "CATEGORY_DELETED" => x.id \in CategoryIds /\ CategoryHere(x.id, x.branch)

LoadedItem(x) ==
    /\ x.op = "ITEM_CREATED" =>
          /\ x.id \in ItemIds /\ x.patch \in ItemRow
          /\ CategoryHere(x.patch.category_id, x.branch)
          /\ NamesStation(x.patch.station_id, x.branch)
    /\ x.op \in {"ITEM_UPDATED", "ITEM_RESTOCKED", "ITEM_86_TRIGGERED", "ITEM_DEACTIVATED"} =>
          /\ x.id \in ItemIds /\ ItemHere(x.id, x.branch) /\ ItemPatch(x.patch)
          /\ "category_id" \in DOMAIN x.patch => CategoryHere(x.patch.category_id, x.branch)
          /\ "station_id" \in DOMAIN x.patch => StationHere(x.patch.station_id, x.branch)
    /\ x.op = "ITEM_DELETED" => x.id \in ItemIds /\ ItemHere(x.id, x.branch)

LoadedModifier(x) ==
    /\ x.op = "MODIFIER_GROUP_CREATED" =>
          x.id \in GroupIds /\ x.patch \in GroupRow /\ ItemHere(x.patch.item_id, x.branch)
    /\ x.op = "MODIFIER_GROUP_DELETED" => x.id \in GroupIds /\ GroupHere(x.id, x.branch)
    /\ x.op = "MODIFIER_OPTION_CREATED" =>
          x.id \in OptionIds /\ x.patch \in OptionRow /\ GroupHere(x.patch.group_id, x.branch)
    /\ x.op \in {"MODIFIER_OPTION_UPDATED", "MODIFIER_OPTION_RESTOCKED",
                  "MODIFIER_OPTION_86_TRIGGERED"} =>
          x.id \in OptionIds /\ OptionHere(x.id, x.branch) /\ OptionPatch(x.patch)
    /\ x.op = "MODIFIER_OPTION_DELETED" => x.id \in OptionIds /\ OptionHere(x.id, x.branch)

LoadedStation(x) ==
    /\ x.op = "STATION_CREATED" => x.id \in Codes
    /\ x.op = "STATION_UPDATED" =>
          /\ x.id \in StationIds /\ StationHere(x.id, x.branch)
          /\ "is_active" \in DOMAIN x.patch => x.patch.is_active \in BOOLEAN
    /\ x.op = "STATION_DELETED" => x.id \in StationIds /\ StationHere(x.id, x.branch)

\* What an operation did to its row is so for good.
Settled(op, id) ==
    /\ op \in Deletions => id \in used /\ ~Present(id)
    /\ op \in Creations => id \in used

EditOK(x) ==
    /\ x.pc \notin {"new", "done"} => Administered(x.branch)
    /\ x.pc \in {"seeding", "seeded"} => (x.op = "STATION_CREATED" => x.id \in Codes)
    /\ x.pc = "seeding" => x.patch \subseteq Codes
    /\ x.pc = "loaded" => /\ LoadedCategory(x) /\ LoadedItem(x)
                          /\ LoadedModifier(x) /\ LoadedStation(x)
    /\ x.pc \in {"committed", "refreshed"} => Settled(x.op, x.id)

CartOK(x) ==
    /\ x.pc \in {"loaded", "item", "routed", "groups", "priced"} =>
          /\ x.branch \in Branches /\ x.item \in ItemIds /\ x.row \in ItemRow
          /\ ItemHere(x.item, x.branch) /\ CategoryHere(x.row.category_id, x.branch)
          /\ NamesStation(x.row.station_id, x.branch)
    /\ x.pc \in {"routed", "groups", "priced"} =>
          x.code \in Codes \cup KitchenStation /\ NamesStation(x.station_id, x.branch)
    /\ x.pc = "committed" => x.line \in LineIds /\ line[x.line] # None

TicketOK(t) == t[2] \in LineIds /\ line[t[2]] # None /\ t[1] = line[t[2]].station_code

\* No request is about to tie a row to one of another branch, no audit row is about to
\* become untrue: what makes the properties above inductive.
IInv ==
    /\ TypeOK
    /\ ReferencesHold
    /\ OwnBranch
    /\ \A x \in {edit[e] : e \in Edits} : EditOK(x)
    /\ \A x \in {cart[g] : g \in Checkouts} : CartOK(x)
    /\ \A entry \in audit : Settled(entry[1], entry[2])
    /\ \A t \in kds : TicketOK(t)

-----------------------------------------------------------------------------
\* A worker starts over whatever its predecessors left in the database.
Init ==
    /\ edit  = [e \in Edits |-> NoEdit]
    /\ cart  = [g \in Checkouts |-> NoCart]
    /\ told  = [x \in ItemIds \cup OptionIds |-> None]
    /\ audit = {}
    /\ kds   = {}
    /\ TypeOK
    /\ ReferencesHold
    /\ OwnBranch
    /\ OneStationPerCode

Work ==
    \/ \E e \in Edits : \/ MenuBegin(e) \/ MenuCommit(e) \/ MenuAfter(e)
                        \/ StationBegin(e) \/ StationCommit(e)
    \/ \E g \in Checkouts : Checkout(g)
    \/ Kitchen

Failure ==
    \/ \E e \in Edits : MenuFailure(e) \/ AbortEdit(e)
    \/ \E g \in Checkouts : AbortCheckout(g)

Next == Work \/ Failure

Spec == Init /\ [][Next]_catalogueVars
================================================================================
