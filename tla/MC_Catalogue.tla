----------------------------- MODULE MC_Catalogue -----------------------------
\* A branch b1 with a menu of one item, a manager, and staff who may not manage it; a
\* branch b2 of another tenant, without a manager.  Either nothing is ordered yet, or the
\* item is, without modifiers; then its category is hidden since, and no id is left for
\* new rows but one of a line.
EXTENDS CatalogueHistory, TLC

CONSTANTS b1, b2, owner, clerk, waiter, rival, s1, s2, s3, n1, n2, n3, c1, c2, c3,
          i1, i2, i3, g1, g2, o1, o2, l0, l1, e1, e2

MCRoleOf == (owner :> "SUPER_ADMIN") @@ (clerk :> "BRANCH_ADMIN") @@ (waiter :> "WAITER")
            @@ (rival :> "REGIONAL_MANAGER")
MCEmployerOf == (owner :> 1) @@ (clerk :> 1) @@ (waiter :> 1) @@ (rival :> 2)
MCAccessOf == (owner :> {}) @@ (clerk :> {}) @@ (waiter :> {b1}) @@ (rival :> {b2})
MCTenantOf == (b1 :> 1) @@ (b2 :> 2)

MCDeltas == {-1, 1}
MCSelections == {<< >>, g1 :> {o1}}
MCCategoryBodies == {("station_id" :> s3) @@ ("is_active" :> TRUE)}
MCItemBodies == {"station_id" :> s2, "category_id" :> c2, "category_id" :> c3,
                 ("station_id" :> s3) @@ ("base_price" :> 2) @@ ("is_available" :> FALSE)}
MCOptionBodies == {("price_delta" :> -1) @@ ("is_available" :> TRUE)}
MCNewCategories == {[station_id |-> s3, station |-> "DESSERT", is_active |-> TRUE]}
MCNewItems == {[category_id |-> c1, station_id |-> None, station |-> None,
                is_available |-> TRUE, base_price |-> 2]}
MCNewGroups == {[min_choices |-> 0, max_choices |-> 1, is_required |-> TRUE]}
MCNewOptions == {[is_available |-> TRUE, price_delta |-> -1]}

MCSymmetry == Permutations(Edits) \cup Permutations({n1, n2, n3})

MCInit == \E ordered \in BOOLEAN :
    /\ station = [s \in StationIds |->
                    CASE s = s1 -> [branch_id |-> b1, code |-> "HOT_KITCHEN", is_active |-> TRUE]
                      [] s = s2 -> [branch_id |-> b2, code |-> "HOT_KITCHEN", is_active |-> TRUE]
                      [] s = s3 -> [branch_id |-> b1, code |-> "COLD_KITCHEN", is_active |-> TRUE]
                      [] OTHER -> None]
    /\ category = [c \in CategoryIds |->
                     CASE c = c1 -> [branch_id |-> b1, station_id |-> s1,
                                     station |-> "HOT_KITCHEN", is_active |-> ~ordered]
                       [] c = c2 -> [branch_id |-> b2, station_id |-> None,
                                     station |-> "HOT_KITCHEN", is_active |-> TRUE]
                       [] OTHER -> None]
    /\ item = [i \in ItemIds |->
                 CASE i = i1 -> [category_id |-> c1, station_id |-> None, station |-> None,
                                 is_available |-> TRUE, base_price |-> 1]
                   [] i = i2 -> [category_id |-> c2, station_id |-> s2, station |-> None,
                                 is_available |-> FALSE, base_price |-> 1]
                   [] OTHER -> None]
    /\ group = [g \in GroupIds |->
                  IF g = g1 /\ ~ordered
                  THEN [item_id |-> i1, min_choices |-> 0, max_choices |-> 1,
                        is_required |-> FALSE]
                  ELSE None]
    /\ option = [o \in OptionIds |->
                   IF o = o1 /\ ~ordered
                   THEN [group_id |-> g1, is_available |-> TRUE, price_delta |-> 1]
                   ELSE None]
    /\ line = [l \in LineIds |->
                 IF l = l0 /\ ordered
                 THEN [branch_id |-> b1, item_id |-> i1, base_price |-> 1, station_id |-> s1,
                       station_code |-> "HOT_KITCHEN", modifiers |-> {}, open |-> TRUE]
                 ELSE None]
    /\ used = {s1, s2, s3, c1, c2, i1, i2, g1, o1, l0}
              \cup IF ordered THEN {n1, n2, n3, c3, i3, g2, o2} ELSE {}
    /\ HistoryInit

MCSpec == MCInit /\ [][Next /\ Watched]_historyVars
===============================================================================
