------------------------------ MODULE CallBell ------------------------------
(***************************************************************************)
(* What service requests promise, with no handlers, locks or answers of    *)
(* staff: a table rings once for a thing, and again only when the call was *)
(* closed and some time has passed; a call left alone too long is          *)
(* escalated, once, and announced, once.  ServiceRequests implements it.   *)
(***************************************************************************)
EXTENDS Naturals

CONSTANTS Tables, Types, Requests, None, Cooldown, Thresholds

VARIABLES now, call

NoCall == [state |-> "none", table |-> None, type |-> None, at |-> 0,
           escalated |-> FALSE, announced |-> 0]

Init ==
    /\ now = 0
    /\ call = [r \in Requests |-> NoCall]

-----------------------------------------------------------------------------
\* A guest rings, and the call counts from then on even if it was booked later.
Ring(r, t, type, at) ==
    /\ call[r].state = "none"
    /\ \A q \in Requests :
          call[q].state # "none" /\ call[q].table = t /\ call[q].type = type
             => call[q].state = "closed" /\ at >= call[q].at + Cooldown
    /\ call' = [call EXCEPT ![r] = [NoCall EXCEPT !.state = "live", !.table = t,
                                                  !.type = type, !.at = at]]
    /\ UNCHANGED now

\* Staff close one call, a settlement all of a table.  Nothing opens them again.
Close(calls) ==
    /\ \A r \in calls : call[r].state = "live"
    /\ call' = [r \in Requests |-> IF r \in calls THEN [call[r] EXCEPT !.state = "closed"]
                                   ELSE call[r]]
    /\ UNCHANGED now

Escalate(calls) ==
    /\ \A r \in calls :
          /\ call[r].state = "live" /\ ~call[r].escalated
          /\ \E threshold \in Thresholds : now >= call[r].at + threshold
    /\ call' = [r \in Requests |-> IF r \in calls THEN [call[r] EXCEPT !.escalated = TRUE]
                                   ELSE call[r]]
    /\ UNCHANGED now

\* It may have been closed by now.
Announce(r) ==
    /\ call[r].escalated /\ call[r].announced = 0
    /\ call' = [call EXCEPT ![r].announced = 1]
    /\ UNCHANGED now

Tick ==
    /\ now' = now + 1
    /\ UNCHANGED call

-----------------------------------------------------------------------------
Next ==
    \/ \E r \in Requests, t \in Tables, type \in Types : \E at \in 0 .. now : Ring(r, t, type, at)
    \/ \E calls \in SUBSET Requests : Close(calls) \/ Escalate(calls)
    \/ \E r \in Requests : Announce(r)
    \/ Tick

Spec == Init /\ [][Next]_<<now, call>>
=============================================================================
