--------------------------- MODULE KitchenService ---------------------------
(***************************************************************************)
(* The bump bar of app/services/station_routing_service.py: bump_order_item*)
(* and bump_station_ticket, which lock the Order row and no table.         *)
(***************************************************************************)
EXTENDS BranchDatabase

\* The item row is read before the order is locked.
BumpRead(p, i) ==
    /\ pc[p] = "idle"
    /\ item[i].order # None
    /\ Goto(p, "bump_lock", [NoJob EXCEPT !.order = item[i].order, !.items = {i},
                                          !.flag = item[i].is_bumped])
    /\ UNCHANGED <<rows, guests, dispatched, tableLock, orderLock>>

BumpLock(p) ==
    LET o == job[p].order
    IN  /\ pc[p] = "bump_lock"
        /\ Lockable(o)
        /\ LockOrder(p, o)
        /\ Goto(p, "bump", [job[p] EXCEPT !.others = UnbumpedOf(o) \ job[p].items])
        /\ UNCHANGED <<rows, guests, dispatched, tableLock>>

\* A station's bulk bump reads all of the order's lines under the lock.
BumpStationLock(p, o, s) ==
    LET lines == {i \in ItemsOf(o) : StationOf[i] = s}
    IN  /\ pc[p] = "idle"
        /\ Lockable(o)
        /\ lines # {}
        /\ LockOrder(p, o)
        /\ Goto(p, "bump_station", [NoJob EXCEPT !.order = o, !.items = lines,
                                                 !.others = UnbumpedOf(o) \ lines])
        /\ UNCHANGED <<rows, guests, dispatched, tableLock>>

\* The order's status when, as the handler sees it, unbumped lines remain.
StatusAfterBump(status, unbumped, someBumped) ==
    CASE unbumped = {} /\ status \in {"SUBMITTED", "PREPARING"}      -> "READY"
      [] unbumped # {} /\ status = "SUBMITTED" /\ someBumped         -> "PREPARING"
      [] OTHER                                                       -> status

\* written are the lines whose UPDATE is sent; all of job.items count as bumped.
BumpWrites(p, bumped, written) ==
    LET o        == job[p].order
        unbumped == job[p].others \cup IF bumped THEN {} ELSE job[p].items
    IN  /\ item' = [i \in Items |-> IF i \in written
                       THEN [item[i] EXCEPT !.is_bumped = bumped] ELSE item[i]]
        /\ order' = [order EXCEPT ![o].status =
                        StatusAfterBump(@, unbumped, ItemsOf(o) \ unbumped # {})]
        /\ FreeOrder(o)
        /\ Return(p)
        /\ UNCHANGED <<table, payment, collected, called, guests, dispatched, tableLock>>

\* Fault: with nothing to write the handler returns without a commit.
BumpUncommitted(p, bumped) ==
    /\ pc[p] = "bump"
    /\ IF bumped = job[p].flag
       THEN Return(p) /\ UNCHANGED <<rows, guests, dispatched, tableLock, orderLock>>
       ELSE BumpWrites(p, bumped, job[p].items)

\* Assigning the value that was loaded sends no UPDATE.
BumpCommit(p, bumped) ==
    /\ pc[p] = "bump"
    /\ BumpWrites(p, bumped, IF bumped = job[p].flag THEN {} ELSE job[p].items)

BumpStationCommit(p, bumped) ==
    /\ pc[p] = "bump_station"
    /\ BumpWrites(p, bumped, job[p].items)

-----------------------------------------------------------------------------
KitchenBegin(p) ==
    \/ \E i \in Items : BumpRead(p, i)
    \/ \E o \in Orders, s \in Stations : BumpStationLock(p, o, s)

KitchenProceed(p) ==
    \/ BumpLock(p)
    \/ \E bumped \in BOOLEAN : BumpCommit(p, bumped) \/ BumpStationCommit(p, bumped)
=============================================================================
