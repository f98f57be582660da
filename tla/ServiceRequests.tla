--------------------------- MODULE ServiceRequests ---------------------------
(***************************************************************************)
(* Guests' calls for service: create_request and transition_status of      *)
(* app/services/service_request_service.py, the escalation of overdue      *)
(* calls of app/services/sla_monitor_service.py, and the dismissal of a    *)
(* table's calls by a settlement.  TableService sees of all this only      *)
(* whether a table is `called'.                                            *)
(*                                                                         *)
(* A member of Procs is a request handler, of Monitors the background      *)
(* worker of one server process.  Creation is serialised by the row lock   *)
(* of the table; staff answer without a lock.                              *)
(***************************************************************************)
EXTENDS Naturals, FiniteSets

CONSTANTS
    Procs, Monitors,
    Tables, Types, Requests,
    None,
    Cooldown,     \* TABLE_REQUEST_COOLDOWN_SECONDS
    Thresholds,   \* threshold_seconds of the worker and of the endpoint
    MaxTime,      \* bound: the clock stops there
    MaxCrashes    \* bound on the transactions that fail

ASSUME MonitorsAreTasks == Monitors \subseteq Procs
ASSUME TimesAreNaturals ==
    Cooldown \in Nat \ {0} /\ Thresholds \subseteq Nat /\ MaxTime \in Nat /\ MaxCrashes \in Nat
ASSUME NoneIsNobody == None \notin Procs \cup Tables \cup Types \cup Requests

VARIABLES
    now,          \* the wall clock
    request,      \* ServiceRequest rows
    escalations,  \* how often SERVICE_REQUEST_ESCALATED was published for a request
    tableLock, rowLock,
    pc, job, crashes

vars == <<now, request, escalations, tableLock, rowLock, pc, job, crashes>>

-----------------------------------------------------------------------------
Statuses == {"PENDING", "ACKNOWLEDGED", "COMPLETED", "DISMISSED"}

ActiveStatuses == {"PENDING", "ACKNOWLEDGED"}

\* The graph LEGAL_SERVICE_REQUEST_TRANSITIONS.
LegalTargets(from) ==
    CASE from = "PENDING"      -> {"ACKNOWLEDGED", "COMPLETED", "DISMISSED"}
      [] from = "ACKNOWLEDGED" -> {"COMPLETED", "DISMISSED"}
      [] OTHER                 -> {}

\* acknowledged_at, completed_at and dismissed_at count only by being set.
Request == [status : Statuses \cup {"UNUSED"}, table : Tables \cup {None},
            type : Types \cup {None}, created : Nat, escalated : BOOLEAN,
            stamps : SUBSET {"ACKNOWLEDGED", "COMPLETED", "DISMISSED"}]

NoRequest == [status |-> "UNUSED", table |-> None, type |-> None, created |-> 0,
              escalated |-> FALSE, stamps |-> {}]

Labels == {"idle", "create", "insert", "answer", "escalate", "publish"}

Job == [table : Tables \cup {None}, type : Types \cup {None}, at : Nat,
        request : Requests \cup {None}, to : Statuses \cup {"UNUSED"},
        acknowledged : BOOLEAN, overdue : SUBSET Requests]

NoJob == [table |-> None, type |-> None, at |-> 0, request |-> None, to |-> "UNUSED",
          acknowledged |-> FALSE, overdue |-> {}]

TypeOK ==
    /\ now \in 0 .. MaxTime
    /\ request \in [Requests -> Request]
    /\ escalations \in [Requests -> Nat]
    /\ tableLock \in [Tables -> Procs \cup {None}]
    /\ rowLock \in [Requests -> Procs \cup {None}]
    /\ pc \in [Procs -> Labels]
    /\ job \in [Procs -> Job]
    /\ crashes \in 0 .. MaxCrashes

Init ==
    /\ now = 0
    /\ request = [r \in Requests |-> NoRequest]
    /\ escalations = [r \in Requests |-> 0]
    /\ tableLock = [t \in Tables |-> None]
    /\ rowLock = [r \in Requests |-> None]
    /\ pc = [p \in Procs |-> "idle"]
    /\ job = [p \in Procs |-> NoJob]
    /\ crashes = 0

Goto(p, label, local) ==
    /\ pc' = [pc EXCEPT ![p] = label]
    /\ job' = [job EXCEPT ![p] = local]

Return(p) == Goto(p, "idle", NoJob)

Active(r) == request[r].status \in ActiveStatuses

\* The earlier requests a guard of create_request looks at.
Alike(t, type) ==
    {r \in Requests : /\ request[r].status # "UNUSED"
                      /\ request[r].table = t /\ request[r].type = type}

FreshRequests ==
    {r \in Requests : request[r].status = "UNUSED" /\ \A p \in Procs : job[p].request # r}

-----------------------------------------------------------------------------
(* Creation *)

\* The handler notes the time before it waits for the table.
CreateBegin(p, t, type) ==
    /\ pc[p] = "idle"
    /\ Goto(p, "create", [NoJob EXCEPT !.table = t, !.type = type, !.at = now])
    /\ UNCHANGED <<now, request, escalations, tableLock, rowLock, crashes>>

\* Fault: the table is read without FOR UPDATE.
TableUnguarded(t) == TRUE

TableFree(t) == tableLock[t] = None

\* Fault: the cool-down is over a second too early.
NearlyElapsed(at, created) == at + 1 >= created + Cooldown

\* elapsed_seconds of the request just created, in the eyes of a later one.
Elapsed(at, created) == at >= created + Cooldown

\* Under the lock: no active request of the type, and the latest one cooled down.
CreateCheck(p) ==
    LET alike == Alike(job[p].table, job[p].type)
    IN  /\ pc[p] = "create"
        /\ TableFree(job[p].table)
        /\ \A r \in alike : ~Active(r) /\ Elapsed(job[p].at, request[r].created)
        /\ tableLock' = [tableLock EXCEPT ![job[p].table] = p]
        /\ \E r \in FreshRequests : Goto(p, "insert", [job[p] EXCEPT !.request = r])
        /\ UNCHANGED <<now, request, escalations, rowLock, crashes>>

\* 403, 409 or 429; the table may have been deactivated.
CreateReject(p) ==
    /\ pc[p] = "create"
    /\ TableFree(job[p].table)
    /\ Return(p)
    /\ UNCHANGED <<now, request, escalations, tableLock, rowLock, crashes>>

CreateCommit(p) ==
    /\ pc[p] = "insert"
    /\ request' = [request EXCEPT ![job[p].request] =
          [NoRequest EXCEPT !.status = "PENDING", !.table = job[p].table,
                            !.type = job[p].type, !.created = job[p].at]]
    /\ tableLock' = [tableLock EXCEPT ![job[p].table] = None]
    /\ Return(p)
    /\ UNCHANGED <<now, escalations, rowLock, crashes>>

-----------------------------------------------------------------------------
(* Staff answer (transition_status), a settlement dismisses *)

\* The row is read, and the transition found legal, without a lock.
TransitionRead(p, r, to) ==
    /\ pc[p] = "idle"
    /\ to \in LegalTargets(request[r].status)
    /\ Goto(p, "answer", [NoJob EXCEPT !.request = r, !.to = to,
                             !.acknowledged = ("ACKNOWLEDGED" \in request[r].stamps)])
    /\ UNCHANGED <<now, request, escalations, tableLock, rowLock, crashes>>

\* Fault: rows locked by others are written.
RowUnguarded(r) == TRUE

RowFree(r) == rowLock[r] = None

\* The UPDATE waits for the row and writes what was decided before.
TransitionCommit(p) ==
    LET r      == job[p].request
        stamps == {job[p].to} \cup IF job[p].to = "COMPLETED" /\ ~job[p].acknowledged
                                   THEN {"ACKNOWLEDGED"} ELSE {}
    IN  /\ pc[p] = "answer"
        /\ RowFree(r)
        /\ request' = [request EXCEPT ![r].status = job[p].to, ![r].stamps = @ \cup stamps]
        /\ Return(p)
        /\ UNCHANGED <<now, escalations, tableLock, rowLock, crashes>>

\* The bulk UPDATE of a settlement, in the transaction that holds the table.
SettlementDismiss(t) ==
    LET calls == {r \in Requests : Active(r) /\ request[r].table = t}
    IN  /\ TableFree(t)
        /\ calls # {} /\ \A r \in calls : RowFree(r)
        /\ request' = [r \in Requests |-> IF r \in calls
              THEN [request[r] EXCEPT !.status = "DISMISSED", !.stamps = @ \cup {"DISMISSED"}]
              ELSE request[r]]
        /\ UNCHANGED <<now, escalations, tableLock, rowLock, pc, job, crashes>>

-----------------------------------------------------------------------------
(* Escalation (check_and_escalate_overdue_requests) *)

\* Fault: a request is escalated on every scan.
OverdueAgain(r, threshold) ==
    request[r].status = "PENDING" /\ now >= request[r].created + threshold

Overdue(r, threshold) ==
    /\ request[r].status = "PENDING" /\ ~request[r].escalated
    /\ now >= request[r].created + threshold

\* FOR UPDATE SKIP LOCKED; nothing overdue ends the scan.
EscalateSelect(p, threshold) ==
    LET overdue == {r \in Requests : Overdue(r, threshold) /\ RowFree(r)}
    IN  /\ pc[p] = "idle"
        /\ overdue # {}
        /\ rowLock' = [r \in Requests |-> IF r \in overdue THEN p ELSE rowLock[r]]
        /\ Goto(p, "escalate", [NoJob EXCEPT !.overdue = overdue])
        /\ UNCHANGED <<now, request, escalations, tableLock, crashes>>

EscalateCommit(p) ==
    /\ pc[p] = "escalate"
    /\ request' = [r \in Requests |-> IF r \in job[p].overdue
                      THEN [request[r] EXCEPT !.escalated = TRUE] ELSE request[r]]
    /\ rowLock' = [r \in Requests |-> IF r \in job[p].overdue THEN None ELSE rowLock[r]]
    /\ Goto(p, "publish", job[p])
    /\ UNCHANGED <<now, escalations, tableLock, crashes>>

\* After the commit, one request after the other (the code's order, oldest first, is
\* left open).
EscalatePublish(p, r) ==
    LET rest == job[p].overdue \ {r}
    IN  /\ pc[p] = "publish"
        /\ r \in job[p].overdue
        /\ escalations' = [escalations EXCEPT ![r] = @ + 1]
        /\ IF rest = {} THEN Return(p) ELSE Goto(p, "publish", [job[p] EXCEPT !.overdue = rest])
        /\ UNCHANGED <<now, request, tableLock, rowLock, crashes>>

-----------------------------------------------------------------------------
Tick ==
    /\ now < MaxTime
    /\ now' = now + 1
    /\ UNCHANGED <<request, escalations, tableLock, rowLock, pc, job, crashes>>

\* A failed transaction, a cancelled worker, or a crash after the commit.
Abort(p) ==
    /\ pc[p] # "idle"
    /\ crashes < MaxCrashes
    /\ crashes' = crashes + 1
    /\ tableLock' = [t \in Tables |-> IF tableLock[t] = p THEN None ELSE tableLock[t]]
    /\ rowLock' = [r \in Requests |-> IF rowLock[r] = p THEN None ELSE rowLock[r]]
    /\ Return(p)
    /\ UNCHANGED <<now, request, escalations>>

Begin(p) ==
    \/ \E t \in Tables, type \in Types : CreateBegin(p, t, type)
    \/ \E r \in Requests, to \in Statuses : TransitionRead(p, r, to)

Proceed(p) ==
    \/ CreateCheck(p)
    \/ CreateReject(p)
    \/ CreateCommit(p)
    \/ TransitionCommit(p)
    \/ EscalateCommit(p)
    \/ \E r \in Requests : EscalatePublish(p, r)

\* Fault: an exception ends the loop.
ScanUntilFailure(p) == crashes = 0 /\ \E threshold \in Thresholds : EscalateSelect(p, threshold)

\* The loop of SLAMonitorWorker, and the endpoint that scans at once.
Scan(p) == \E threshold \in Thresholds : EscalateSelect(p, threshold)

Next ==
    \/ \E p \in Procs \ Monitors : Begin(p)
    \/ \E p \in Procs : Proceed(p) \/ Scan(p) \/ Abort(p)
    \/ \E t \in Tables : SettlementDismiss(t)
    \/ Tick

Spec == Init /\ [][Next]_vars

(* Fairness.  The event loop runs every handler that need not wait, and the  *)
(* worker's loop comes round again, whatever happened in its last scan.      *)
Fairness ==
    /\ \A p \in Procs : SF_vars(Proceed(p))
    /\ \A p \in Monitors : SF_vars(Scan(p))

FairSpec == Spec /\ Fairness

-----------------------------------------------------------------------------
\* A request that no staff member and no settlement has closed yet.
Live(r) == Active(r) /\ request[r].stamps \cap {"COMPLETED", "DISMISSED"} = {}

\* The duplicate guard: guests of a table, asking at the same time, never have two
\* live requests of one type.
OneLiveRequest ==
    \A r1, r2 \in Requests :
       /\ Live(r1) /\ Live(r2)
       /\ request[r1].table = request[r2].table /\ request[r1].type = request[r2].type
       => r1 = r2

\* The cool-down: two requests of one type are a minute apart, whatever became of
\* the first and however long either waited for the table.
RequestsAreSpaced ==
    \A t \in Tables, type \in Types : \A r1, r2 \in Alike(t, type) :
       r1 # r2 => \/ request[r1].created >= request[r2].created + Cooldown
                  \/ request[r2].created >= request[r1].created + Cooldown

\* Scans of several workers and of the endpoint publish an escalation at most once.
EscalatedOnce == \A r \in Requests : escalations[r] <= 1

\* Only a request that still waits is escalated: staff cannot answer it between the
\* scan and its commit.
OnlyWaitingEscalate ==
    [][\A r \in Requests :
          ~request[r].escalated /\ request'[r].escalated =>
             /\ request[r].status = "PENDING" /\ request'[r].status = "PENDING"
             /\ \E threshold \in Thresholds : now >= request[r].created + threshold]_request

\* A call nobody answers is escalated, scans that skip it or fail notwithstanding.
OverdueEscalates ==
    \A r \in Requests, threshold \in Thresholds :
       request[r].status = "PENDING" /\ now >= request[r].created + threshold
          ~> request[r].status # "PENDING" \/ request[r].escalated

\* Staff move a request along LEGAL_SERVICE_REQUEST_TRANSITIONS only.
OnlyLegalAnswers ==
    [][\A r \in Requests :
          request[r].status \in Statuses /\ request'[r].status # request[r].status
             => request'[r].status \in LegalTargets(request[r].status)]_request

-----------------------------------------------------------------------------
(* What the rows promise as calls, however handlers and scans interleave *)

Closed(r) == request[r].stamps \cap {"COMPLETED", "DISMISSED"} # {}

\* A row counts as closed from the first time it was, even if a late answer reopens it.
CallState(r) ==
    IF request[r].status = "UNUSED" THEN "none" ELSE IF Closed(r) THEN "closed" ELSE "live"

CallOf(r) == [state |-> CallState(r), table |-> request[r].table, type |-> request[r].type,
              at |-> request[r].created, escalated |-> request[r].escalated,
              announced |-> escalations[r]]

Calls == INSTANCE CallBell WITH call <- [r \in Requests |-> CallOf(r)]

\* Handlers, settlements and scans together treat calls as CallBell does: a table rings
\* for one thing at a time, a call that was ever closed is not escalated, none is twice.
ImplementsCallBell == Calls!Spec

-----------------------------------------------------------------------------
(* The inductive invariant behind OneLiveRequest, RequestsAreSpaced and      *)
(* OnlyWaitingEscalate.                                                      *)

RowsOK ==
    \A r \in Requests :
       /\ request[r].status = "UNUSED" => request[r].stamps = {}
       /\ request[r].status \in {"COMPLETED", "DISMISSED"} => Closed(r)

\* A handler about to insert: all earlier requests are closed and cooled down.
CreateInHand(p) ==
    /\ pc[p] \in {"create", "insert"} => job[p].table \in Tables /\ job[p].type \in Types
    /\ pc[p] = "insert" =>
          /\ tableLock[job[p].table] = p
          /\ job[p].request \in Requests /\ request[job[p].request].status = "UNUSED"
          /\ \A q \in Procs \ {p} : job[q].request # job[p].request
          /\ \A r \in Alike(job[p].table, job[p].type) :
                Closed(r) /\ job[p].at >= request[r].created + Cooldown

AnswerInHand(p) ==
    pc[p] = "answer" =>
       /\ job[p].request \in Requests /\ request[job[p].request].status # "UNUSED"
       /\ job[p].to \in {"ACKNOWLEDGED", "COMPLETED", "DISMISSED"}

\* A scan about to commit: its rows are locked, and wait as they did.
EscalateInHand(p) ==
    pc[p] = "escalate" =>
       \A r \in job[p].overdue :
          /\ rowLock[r] = p
          /\ request[r].status = "PENDING" /\ ~request[r].escalated
          /\ \E threshold \in Thresholds : now >= request[r].created + threshold

HandlersOK == \A p \in Procs : CreateInHand(p) /\ AnswerInHand(p) /\ EscalateInHand(p)

IInv == TypeOK /\ RowsOK /\ HandlersOK /\ OneLiveRequest /\ RequestsAreSpaced
=============================================================================
