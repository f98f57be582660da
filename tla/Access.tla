-------------------------------- MODULE Access --------------------------------
(***************************************************************************)
(* Who may act on which branch: the dependencies of app/api/deps.py and    *)
(* app/core/context.py, which run before every staff endpoint.             *)
(***************************************************************************)
EXTENDS FiniteSets

CONSTANTS Users,        \* rows of users
          Branches,     \* rows of branches
          RoleOf,       \* User.role
          EmployerOf,   \* User.tenant_id
          AccessOf,     \* the branches of User.branch_access
          ActiveUsers, ActiveBranches,
          TenantOf,     \* Branch.tenant_id
          None

UserRoles == {"SUPER_ADMIN", "REGIONAL_MANAGER", "BRANCH_ADMIN", "CASHIER", "WAITER",
              "KITCHEN_STAFF"}

ASSUME AccessAssumption ==
    /\ RoleOf \in [Users -> UserRoles]
    /\ AccessOf \in [Users -> SUBSET Branches]
    /\ ActiveUsers \subseteq Users
    /\ ActiveBranches \subseteq Branches
    /\ None \notin Branches

\* A bearer token as create_access_token signs it; its role claim is never read.
Token(u) == [sub |-> u, tenant_id |-> EmployerOf[u]]

\* The token's subject, if it is still an active user of the tenant it names.
CurrentUsers(token) ==
    {u \in ActiveUsers : u = token.sub /\ EmployerOf[u] = token.tenant_id}

\* The branch a request means: path, then query, then header, and no two may differ.
BranchNamed(path, query, header) ==
    LET named == {path, query, header} \ {None}
    IN  IF Cardinality(named) = 1 THEN CHOOSE b \in named : TRUE ELSE None

CanAccessBranch(u, b) == RoleOf[u] = "SUPER_ADMIN" \/ b \in AccessOf[u]

\* FAULT: a chain's owner reaches every tenant's branches.
EnforceAccessOnly(u, path, query, header) ==
    {b \in ActiveBranches : b = BranchNamed(path, query, header) /\ CanAccessBranch(u, b)}

EnforceBranchAccess(u, path, query, header) ==
    {b \in ActiveBranches : /\ b = BranchNamed(path, query, header)
                            /\ TenantOf[b] = EmployerOf[u]
                            /\ CanAccessBranch(u, b)}

\* The branches an endpoint lets some user of these roles act on.
Admitted(roles) ==
    UNION {EnforceBranchAccess(u, None, query, header) :
             u \in {u \in UNION {CurrentUsers(Token(v)) : v \in Users} : RoleOf[u] \in roles},
             query \in Branches \cup {None}, header \in Branches \cup {None}}

\* The roles of every endpoint of staff_menu.py, and of staff_stations.py.
MenuEndpointRoles    == {"BRANCH_ADMIN", "SUPER_ADMIN"}
StationEndpointRoles == {"BRANCH_ADMIN", "SUPER_ADMIN"}
===============================================================================
