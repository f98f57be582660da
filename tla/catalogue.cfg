SPECIFICATION MCSpec
CONSTANTS
    None = None
    b1 = b1 b2 = b2 owner = owner clerk = clerk waiter = waiter rival = rival
    s1 = s1 s2 = s2 s3 = s3 n1 = n1 n2 = n2 n3 = n3
    c1 = c1 c2 = c2 c3 = c3 i1 = i1 i2 = i2 i3 = i3 g1 = g1 g2 = g2 o1 = o1 o2 = o2
    l0 = l0 l1 = l1 e1 = e1 e2 = e2
    Users = {owner, clerk, waiter, rival}
    ActiveUsers = {owner, clerk, waiter, rival}
    Branches = {b1, b2}
    ActiveBranches = {b1, b2}
    RoleOf <- MCRoleOf
    EmployerOf <- MCEmployerOf
    AccessOf <- MCAccessOf
    TenantOf <- MCTenantOf
    StationIds = {s1, s2, s3, n1, n2, n3}
    CategoryIds = {c1, c2, c3}
    ItemIds = {i1, i2, i3}
    GroupIds = {g1, g2}
    OptionIds = {o1, o2}
    LineIds = {l0, l1}
    Codes = {"HOT_KITCHEN", "COLD_KITCHEN", "BEVERAGE", "BAR"}
    NewCodes = {"BAR"}
    Prices = {1, 2}
    Deltas <- MCDeltas
    Edits = {e1, e2}
    Checkouts = {k1}
    Selections <- MCSelections
    CategoryBodies <- MCCategoryBodies
    ItemBodies <- MCItemBodies
    OptionBodies <- MCOptionBodies
    NewCategories <- MCNewCategories
    NewItems <- MCNewItems
    NewGroups <- MCNewGroups
    NewOptions <- MCNewOptions
CHECK_DEADLOCK FALSE
SYMMETRY MCSymmetry
INVARIANTS HInv ReferencesHold OwnBranch AuditIsTruthful
           OneTicketPerLine OfferedLines BroadcastsWereStored
PROPERTY EditsStayInBranch
