------------------------- MODULE OrderStateMachine -------------------------
(***************************************************************************)
(* The order life cycle of app/core/state_machine.py as constant-level     *)
(* operators: the transition graph, the cancellation guard and the table   *)
(* status that a transition brings about.  No variables: TableService uses *)
(* these operators inside its actions, as OrderService uses the class.     *)
(***************************************************************************)

OrderStatuses ==
    {"DRAFT", "PENDING_STAFF_CONFIRMATION", "SUBMITTED", "PREPARING",
     "READY", "DELIVERED", "CLOSED", "CANCELLED"}

\* Fault: closed orders still take new lines.
OpenUntilCancelled == OrderStatuses \ {"CANCELLED"}

OPEN_ORDER_STATUSES == OrderStatuses \ {"CLOSED", "CANCELLED"}

TableStatuses ==
    {"AVAILABLE", "BROWSING", "AWAITING_FOOD", "EATING",
     "BILL_REQUESTED", "NEEDS_CLEANING"}

\* The roles the transition endpoint admits, and the guest's cancel endpoint.
ADMIN_CANCELLATION_ROLES == {"BRANCH_ADMIN", "REGIONAL_MANAGER", "SUPER_ADMIN"}
StaffRoles == ADMIN_CANCELLATION_ROLES \cup {"KITCHEN_STAFF", "CASHIER"}
Guest == "GUEST"

VALID_TRANSITIONS(from) ==
    CASE from = "DRAFT" ->
            {"SUBMITTED", "PENDING_STAFF_CONFIRMATION", "CANCELLED"}
      [] from = "PENDING_STAFF_CONFIRMATION" -> {"SUBMITTED", "CANCELLED"}
      [] from = "SUBMITTED" -> {"PREPARING", "CANCELLED"}
      [] from = "PREPARING" -> {"READY", "CANCELLED"}
      [] from = "READY"     -> {"DELIVERED"}
      [] from = "DELIVERED" -> {"CLOSED"}
      [] OTHER              -> {}

CanCancel(from, role, reasoned) ==
    /\ from \in {"DRAFT", "PENDING_STAFF_CONFIRMATION", "SUBMITTED", "PREPARING"}
    /\ role = Guest => from \in {"DRAFT", "PENDING_STAFF_CONFIRMATION"}
    /\ from \in {"SUBMITTED", "PREPARING"} =>
            role \in ADMIN_CANCELLATION_ROLES /\ reasoned

\* What one call of the transition or cancel endpoint may do: a guest can only
\* ask for CANCELLED.
MayTransition(from, to, role, reasoned) ==
    /\ to \in VALID_TRANSITIONS(from)
    /\ to = "CANCELLED" => CanCancel(from, role, reasoned)
    /\ role = Guest => to = "CANCELLED"

\* Fault: cancelling leaves the table as it was.
TableStatusAfterServing(to, hasOther, current) ==
    CASE to \in {"SUBMITTED", "PREPARING"} -> "AWAITING_FOOD"
      [] to = "DELIVERED"                  -> "EATING"
      [] to = "CLOSED" /\ ~hasOther        -> "AVAILABLE"
      [] OTHER                             -> current

\* The table's status once an order of it has moved to status to; current when
\* the code leaves the table alone.
TableStatusAfter(to, hasOther, current) ==
    CASE to \in {"SUBMITTED", "PREPARING"} -> "AWAITING_FOOD"
      [] to = "DELIVERED"                  -> "EATING"
      [] to = "CLOSED" /\ ~hasOther        -> "AVAILABLE"
      [] to = "CANCELLED" /\ ~hasOther     -> "BROWSING"
      [] OTHER                             -> current
=============================================================================
