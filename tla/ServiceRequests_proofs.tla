----------------------- MODULE ServiceRequests_proofs -----------------------
(***************************************************************************)
(* Proofs of the safety properties of ServiceRequests for any number of    *)
(* handlers, workers, tables, types and requests, any cool-down, and any   *)
(* bound on the clock.                                                     *)
(***************************************************************************)
EXTENDS ServiceRequests, TLAPS

(***************************************************************************)
(* 1. Types                                                                *)
(***************************************************************************)

\* Moving on keeps the control state of every handler well typed.
LEMMA GotoType ==
    ASSUME TypeOK, NEW p \in Procs, NEW label \in Labels, NEW local \in Job,
           Goto(p, label, local)
    PROVE  pc' \in [Procs -> Labels] /\ job' \in [Procs -> Job]
BY DEF TypeOK, Goto

\* So does ending a request.
LEMMA ReturnType ==
    ASSUME TypeOK, NEW p \in Procs, Return(p)
    PROVE  pc' \in [Procs -> Labels] /\ job' \in [Procs -> Job]
<1>1. NoJob \in Job
  BY DEF NoJob, Job
<1>. QED BY <1>1, GotoType DEF Return, Labels

\* Only the moving handler changes its control state.
LEMMA GotoOthers ==
    ASSUME TypeOK, NEW p \in Procs, NEW label, NEW local, Goto(p, label, local)
    PROVE  /\ pc'[p] = label /\ job'[p] = local
           /\ \A q \in Procs \ {p} : pc'[q] = pc[q] /\ job'[q] = job[q]
BY DEF TypeOK, Goto

\* Every statement of a handler and every scan keeps the types.
LEMMA StepTypes ==
    ASSUME IInv, NEW p \in Procs, Begin(p) \/ Proceed(p) \/ Scan(p) \/ Abort(p)
    PROVE  TypeOK'
<1>. TypeOK /\ job[p] \in Job
  BY DEF IInv, TypeOK
<1>1. ASSUME NEW t \in Tables, NEW type \in Types, CreateBegin(p, t, type)
      PROVE  TypeOK'
  <2>1. now \in Nat
    BY TimesAreNaturals DEF TypeOK
  <2>2. [NoJob EXCEPT !.table = t, !.type = type, !.at = now] \in Job
    BY <2>1 DEF NoJob, Job
  <2>. QED BY <1>1, <2>2, GotoType DEF CreateBegin, TypeOK, Labels
<1>2. ASSUME NEW r \in Requests, NEW to \in Statuses, TransitionRead(p, r, to)
      PROVE  TypeOK'
  <2>. PICK acknowledged \in BOOLEAN :
          acknowledged = ("ACKNOWLEDGED" \in request[r].stamps)
    <3>. WITNESS ("ACKNOWLEDGED" \in request[r].stamps) \in BOOLEAN
    <3>. QED OBVIOUS
  <2>1. [NoJob EXCEPT !.request = r, !.to = to, !.acknowledged = acknowledged] \in Job
    BY DEF NoJob, Job, Statuses
  <2>. QED BY <1>2, <2>1, GotoType DEF TransitionRead, TypeOK, Labels
<1>3. ASSUME CreateCheck(p)
      PROVE  TypeOK'
  <2>1. PICK r \in Requests : Goto(p, "insert", [job[p] EXCEPT !.request = r])
    BY <1>3 DEF CreateCheck, FreshRequests
  <2>2. [job[p] EXCEPT !.request = r] \in Job
    BY DEF Job
  <2>3. tableLock' \in [Tables -> Procs \cup {None}]
    BY <1>3 DEF CreateCheck, TypeOK
  <2>. QED BY <1>3, <2>1, <2>2, <2>3, GotoType DEF CreateCheck, TypeOK, Labels
<1>4. ASSUME CreateReject(p)
      PROVE  TypeOK'
  BY <1>4, ReturnType DEF CreateReject, TypeOK
<1>5. ASSUME CreateCommit(p)
      PROVE  TypeOK'
  <2>1. request' \in [Requests -> Request] /\ tableLock' \in [Tables -> Procs \cup {None}]
    BY <1>5 DEF CreateCommit, TypeOK, Request, NoRequest, Statuses, Job
  <2>. QED BY <1>5, <2>1, ReturnType DEF CreateCommit, TypeOK
<1>6. ASSUME TransitionCommit(p)
      PROVE  TypeOK'
  <2>1. job[p].to \in {"ACKNOWLEDGED", "COMPLETED", "DISMISSED"}
    BY <1>6 DEF TransitionCommit, IInv, HandlersOK, AnswerInHand
  <2>. PICK r \in Requests, stamps \in SUBSET {"ACKNOWLEDGED", "COMPLETED", "DISMISSED"} :
          request' = [request EXCEPT ![r].status = job[p].to, ![r].stamps = @ \cup stamps]
    BY <1>6, <2>1 DEF TransitionCommit, IInv, HandlersOK, AnswerInHand
  <2>2. PICK to \in Statuses, set \in SUBSET {"ACKNOWLEDGED", "COMPLETED", "DISMISSED"} :
           to = job[p].to /\ set = request[r].stamps \cup stamps
    BY <2>1 DEF TypeOK, Request, Statuses
  <2>3. request' = [request EXCEPT ![r].status = to, ![r].stamps = set]
    BY <2>2
  <2>4. request' \in [Requests -> Request]
    <3>1. ASSUME NEW row \in Request
          PROVE  [[row EXCEPT !.status = to] EXCEPT !.stamps = set] \in Request
      BY DEF Request
    <3>2. request' = [request EXCEPT ![r] =
                         [[request[r] EXCEPT !.status = to] EXCEPT !.stamps = set]]
      BY <2>3 DEF TypeOK
    <3>3. PICK row \in Request : request' = [request EXCEPT ![r] = row]
      <4>1. request[r] \in Request
        BY DEF TypeOK
      <4>2. [[request[r] EXCEPT !.status = to] EXCEPT !.stamps = set] \in Request
        BY <3>1, <4>1
      <4>. QED BY <3>2, <4>2, Zenon
    <3>. QED BY <3>3 DEF TypeOK
  <2>. QED BY <1>6, <2>4, ReturnType DEF TransitionCommit, TypeOK
<1>7. ASSUME NEW threshold \in Thresholds, EscalateSelect(p, threshold)
      PROVE  TypeOK'
  <2>. PICK overdue \in SUBSET Requests :
          /\ rowLock' = [r \in Requests |-> IF r \in overdue THEN p ELSE rowLock[r]]
          /\ Goto(p, "escalate", [NoJob EXCEPT !.overdue = overdue])
    BY <1>7 DEF EscalateSelect
  <2>1. [NoJob EXCEPT !.overdue = overdue] \in Job
    BY DEF NoJob, Job
  <2>2. rowLock' \in [Requests -> Procs \cup {None}]
    BY DEF TypeOK
  <2>. QED BY <1>7, <2>1, <2>2, GotoType DEF EscalateSelect, TypeOK, Labels
<1>8. ASSUME EscalateCommit(p)
      PROVE  TypeOK'
  <2>1. rowLock' \in [Requests -> Procs \cup {None}]
    BY <1>8 DEF EscalateCommit, TypeOK
  <2>2. \A r \in Requests : [request[r] EXCEPT !.escalated = TRUE] \in Request
    BY DEF TypeOK, Request
  <2>3. request' \in [Requests -> Request]
    BY <1>8, <2>2 DEF EscalateCommit, TypeOK
  <2>. QED BY <1>8, <2>1, <2>3, GotoType DEF EscalateCommit, TypeOK, Labels
<1>9. ASSUME NEW r \in Requests, EscalatePublish(p, r)
      PROVE  TypeOK'
  <2>1. [job[p] EXCEPT !.overdue = job[p].overdue \ {r}] \in Job
    BY DEF Job
  <2>2. pc' \in [Procs -> Labels] /\ job' \in [Procs -> Job]
    BY <1>9, <2>1, GotoType, ReturnType DEF EscalatePublish, Labels
  <2>3. escalations' \in [Requests -> Nat]
    BY <1>9 DEF EscalatePublish, TypeOK
  <2>. QED BY <1>9, <2>2, <2>3 DEF EscalatePublish, TypeOK
<1>10. ASSUME Abort(p)
       PROVE  TypeOK'
  <2>1. crashes' \in 0 .. MaxCrashes
    BY <1>10, TimesAreNaturals DEF Abort, TypeOK
  <2>2. /\ tableLock' \in [Tables -> Procs \cup {None}]
        /\ rowLock' \in [Requests -> Procs \cup {None}]
    BY <1>10 DEF Abort, TypeOK
  <2>. QED BY <1>10, <2>1, <2>2, ReturnType DEF Abort, TypeOK
<1>. QED BY <1>1, <1>2, <1>3, <1>4, <1>5, <1>6, <1>7, <1>8, <1>9, <1>10
         DEF Begin, Proceed, Scan

(***************************************************************************)
(* 2. What a step of p, or of no handler (None), leaves to the other ones  *)
(***************************************************************************)

InHand(p) == CreateInHand(p) /\ AnswerInHand(p) /\ EscalateInHand(p)

RowsInv == RowsOK /\ OneLiveRequest /\ RequestsAreSpaced

OthersKeep(p) ==
    \A q \in Procs \ {p} :
       /\ pc'[q] = pc[q] /\ job'[q] = job[q]
       /\ \A t \in Tables : tableLock[t] = q => tableLock'[t] = q
       /\ \A r \in Requests :
             rowLock[r] = q =>
                rowLock'[r] = q /\ (request[r].status # "UNUSED" => request'[r] = request[r])
       /\ p \in Procs /\ pc[q] = "insert" => job'[p].request # job[q].request

\* Requests stay what they were asked for, and closed if they were; p inserts only
\* under the lock of the table.
RowsKept(p) ==
    \A r \in Requests :
       IF request[r].status = "UNUSED"
       THEN request'[r].status # "UNUSED" =>
               /\ request'[r].table \in Tables /\ tableLock[request'[r].table] = p
               /\ \A q \in Procs \ {p} : pc[q] = "insert" => job[q].request # r
       ELSE /\ request'[r].status # "UNUSED" /\ request'[r].table = request[r].table
            /\ request'[r].type = request[r].type /\ request'[r].created = request[r].created
            /\ Closed(r) => Closed(r)'

\* Such a step leaves to the other handlers what they have in hand.
LEMMA Frame ==
    ASSUME IInv, NEW p \in Procs \cup {None}, OthersKeep(p), RowsKept(p),
           now' \in Nat, now' >= now, p \in Procs => InHand(p)'
    PROVE  HandlersOK'
<1>. SUFFICES ASSUME NEW q \in Procs \ {p} PROVE InHand(q)'
  BY DEF HandlersOK, InHand
<1>0. /\ pc'[q] = pc[q] /\ job'[q] = job[q]
      /\ CreateInHand(q) /\ AnswerInHand(q) /\ EscalateInHand(q)
  BY DEF OthersKeep, IInv, HandlersOK
<1>1. CreateInHand(q)'
  <2>. SUFFICES ASSUME pc[q] = "insert"
                PROVE  /\ tableLock'[job[q].table] = q
                       /\ request'[job[q].request].status = "UNUSED"
                       /\ \A s \in Procs \ {q} : job'[s].request # job[q].request
                       /\ \A r \in Alike(job[q].table, job[q].type)' :
                             Closed(r)' /\ job[q].at >= request'[r].created + Cooldown
    BY <1>0 DEF CreateInHand
  <2>1. /\ job[q].table \in Tables /\ tableLock[job[q].table] = q
        /\ job[q].request \in Requests /\ request[job[q].request].status = "UNUSED"
        /\ \A s \in Procs \ {q} : job[s].request # job[q].request
        /\ \A r \in Alike(job[q].table, job[q].type) :
              Closed(r) /\ job[q].at >= request[r].created + Cooldown
    BY <1>0 DEF CreateInHand
  <2>2. \A s \in Procs \ {q} : job'[s].request # job[q].request
    BY <2>1 DEF OthersKeep
  <2>3. request'[job[q].request].status = "UNUSED"
    BY <2>1 DEF RowsKept
  <2>4. ASSUME NEW r \in Requests, request'[r].status # "UNUSED",
               request'[r].table = job[q].table, request'[r].type = job[q].type
        PROVE  Closed(r)' /\ job[q].at >= request'[r].created + Cooldown
    <3>1. request[r].status # "UNUSED"
      BY <2>1, <2>4 DEF RowsKept
    <3>. QED BY <2>1, <2>4, <3>1 DEF RowsKept, Alike
  <2>. QED BY <2>1, <2>2, <2>3, <2>4 DEF OthersKeep, Alike
<1>2. AnswerInHand(q)'
  BY <1>0 DEF AnswerInHand, RowsKept
<1>3. EscalateInHand(q)'
  <2>1. \A r \in Requests :
           rowLock[r] = q =>
              rowLock'[r] = q /\ (request[r].status # "UNUSED" => request'[r] = request[r])
    BY DEF OthersKeep
  <2>2. job[q].overdue \subseteq Requests
    BY DEF IInv, TypeOK, Job
  <2>3. /\ now \in Nat /\ \A r \in Requests : request[r].created \in Nat
        /\ \A threshold \in Thresholds : threshold \in Nat
    BY TimesAreNaturals DEF IInv, TypeOK, Request
  <2>4. \A r \in Requests, threshold \in Thresholds :
           now >= request[r].created + threshold => now' >= request[r].created + threshold
    BY <2>3
  <2>. QED BY <1>0, <2>1, <2>2, <2>4 DEF EscalateInHand
<1>. QED BY <1>1, <1>2, <1>3 DEF InHand

\* A step that writes no request keeps what holds of requests.
LEMMA QuietRows ==
    ASSUME RowsInv, UNCHANGED request
    PROVE  RowsInv'
BY DEF RowsInv, RowsOK, OneLiveRequest, RequestsAreSpaced, Live, Active, Closed, Alike

\* A handler that is idle or publishes needs nothing any more.
LEMMA DoneInHand ==
    ASSUME NEW p \in Procs, pc'[p] \in {"idle", "publish"}
    PROVE  InHand(p)'
BY DEF InHand, CreateInHand, AnswerInHand, EscalateInHand

\* A step that writes no request keeps the invariant.
LEMMA QuietStep ==
    ASSUME IInv, TypeOK', NEW p \in Procs, UNCHANGED <<request, now>>, OthersKeep(p), InHand(p)'
    PROVE  IInv'
<1>1. RowsKept(p)
  BY DEF RowsKept, Closed
<1>2. now' \in Nat /\ now' >= now
  BY TimesAreNaturals DEF IInv, TypeOK
<1>. QED BY <1>1, <1>2, Frame, QuietRows DEF IInv, RowsInv

(***************************************************************************)
(* 3. The invariant                                                        *)
(***************************************************************************)

\* Statements that write no request, and the scan that only locks.
LEMMA ReadInvariant ==
    ASSUME IInv, TypeOK', NEW p \in Procs,
           \/ Begin(p) \/ CreateCheck(p) \/ CreateReject(p) \/ Scan(p)
           \/ (\E r \in Requests : EscalatePublish(p, r)) \/ Abort(p)
    PROVE  IInv'
<1>. TypeOK
  BY DEF IInv
<1>1. ASSUME NEW t \in Tables, NEW type \in Types, CreateBegin(p, t, type)
      PROVE  IInv'
  <2>. DEFINE local == [NoJob EXCEPT !.table = t, !.type = type, !.at = now]
  <2>. local.table = t /\ local.type = type /\ local.request = None /\ Goto(p, "create", local)
    BY <1>1 DEF CreateBegin, NoJob
  <2>. HIDE DEF local
  <2>1. InHand(p)'
    BY GotoOthers DEF InHand, CreateInHand, AnswerInHand, EscalateInHand
  <2>2. OthersKeep(p)
    BY <1>1, GotoOthers, NoneIsNobody DEF CreateBegin, OthersKeep, IInv, HandlersOK, CreateInHand
  <2>. QED BY <1>1, <2>1, <2>2, QuietStep DEF CreateBegin
<1>2. ASSUME NEW r \in Requests, NEW to \in Statuses, TransitionRead(p, r, to)
      PROVE  IInv'
  <2>. DEFINE local == [NoJob EXCEPT !.request = r, !.to = to,
                           !.acknowledged = ("ACKNOWLEDGED" \in request[r].stamps)]
  <2>. local.request = r /\ local.to = to /\ Goto(p, "answer", local)
    BY <1>2 DEF TransitionRead, NoJob
  <2>. HIDE DEF local
  <2>1. /\ request[r].status # "UNUSED"
        /\ to \in {"ACKNOWLEDGED", "COMPLETED", "DISMISSED"}
    BY <1>2 DEF TransitionRead, LegalTargets
  <2>2. InHand(p)'
    BY <1>2, <2>1, GotoOthers
       DEF TransitionRead, InHand, CreateInHand, AnswerInHand, EscalateInHand
  <2>3. OthersKeep(p)
    BY <1>2, <2>1, GotoOthers DEF TransitionRead, OthersKeep, IInv, HandlersOK, CreateInHand
  <2>. QED BY <1>2, <2>2, <2>3, QuietStep DEF TransitionRead
<1>3. ASSUME CreateCheck(p)
      PROVE  IInv'
  <2>. PICK r \in FreshRequests : Goto(p, "insert", [job[p] EXCEPT !.request = r])
    BY <1>3 DEF CreateCheck
  <2>. DEFINE local == [job[p] EXCEPT !.request = r]
  <2>. /\ local.request = r /\ local.table = job[p].table /\ local.type = job[p].type
       /\ local.at = job[p].at /\ Goto(p, "insert", local)
    BY DEF TypeOK, Job
  <2>. HIDE DEF local
  <2>1. pc'[p] = "insert" /\ job'[p] = local
    BY GotoOthers
  <2>2. /\ r \in Requests /\ request[r].status = "UNUSED" /\ \A q \in Procs : job[q].request # r
        /\ job[p].table \in Tables /\ job[p].type \in Types /\ tableLock[job[p].table] = None
    BY <1>3 DEF CreateCheck, FreshRequests, TableFree, IInv, HandlersOK, CreateInHand
  <2>3. \A s \in Alike(job[p].table, job[p].type) :
           Closed(s) /\ job[p].at >= request[s].created + Cooldown
    <3>1. \A s \in Requests : request[s].status # "UNUSED" /\ ~Active(s) => Closed(s)
      BY DEF IInv, TypeOK, RowsOK, Request, Statuses, Active, ActiveStatuses
    <3>. QED BY <1>3, <3>1 DEF CreateCheck, Elapsed, Alike
  <2>4. OthersKeep(p)
    BY <1>3, <2>1, <2>2, GotoOthers, NoneIsNobody DEF CreateCheck, OthersKeep, TypeOK
  <2>5. InHand(p)'
    <3>1. /\ tableLock'[job[p].table] = p
          /\ \A q \in Procs \ {p} : job'[q].request # r
      BY <1>3, <2>2, GotoOthers DEF CreateCheck, TypeOK
    <3>2. ASSUME NEW s \in Requests, request'[s].status # "UNUSED",
                 request'[s].table = local.table, request'[s].type = local.type
          PROVE  Closed(s)' /\ local.at >= request'[s].created + Cooldown
      BY <1>3, <2>3, <3>2 DEF CreateCheck, Alike, Closed
    <3>3. request'[r].status = "UNUSED"
      BY <1>3, <2>2 DEF CreateCheck
    <3>4. CreateInHand(p)'
      BY <2>1, <2>2, <3>1, <3>2, <3>3 DEF CreateInHand, Alike
    <3>. QED BY <2>1, <3>4 DEF InHand, AnswerInHand, EscalateInHand
  <2>. QED BY <1>3, <2>4, <2>5, QuietStep DEF CreateCheck
<1>4. ASSUME CreateReject(p)
      PROVE  IInv'
  <2>1. InHand(p)' /\ OthersKeep(p)
    BY <1>4, GotoOthers, DoneInHand, NoneIsNobody
       DEF CreateReject, Return, NoJob, OthersKeep, IInv, HandlersOK, CreateInHand
  <2>. QED BY <1>4, <2>1, QuietStep DEF CreateReject
<1>5. ASSUME NEW threshold \in Thresholds, EscalateSelect(p, threshold)
      PROVE  IInv'
  <2>. PICK overdue : /\ overdue = {r \in Requests : Overdue(r, threshold) /\ RowFree(r)}
                      /\ rowLock' = [r \in Requests |-> IF r \in overdue THEN p ELSE rowLock[r]]
                      /\ Goto(p, "escalate", [NoJob EXCEPT !.overdue = overdue])
    BY <1>5 DEF EscalateSelect
  <2>1. pc'[p] = "escalate" /\ job'[p].overdue = overdue /\ job'[p].request = None
    BY GotoOthers DEF NoJob
  <2>2. InHand(p)'
    BY <1>5, <2>1
       DEF EscalateSelect, Overdue, InHand, CreateInHand, AnswerInHand, EscalateInHand
  <2>3. OthersKeep(p)
    BY <1>5, <2>1, GotoOthers, NoneIsNobody
       DEF EscalateSelect, RowFree, OthersKeep, IInv, HandlersOK, CreateInHand
  <2>. QED BY <1>5, <2>2, <2>3, QuietStep DEF EscalateSelect
<1>6. ASSUME NEW r \in Requests, EscalatePublish(p, r)
      PROVE  IInv'
  <2>1. /\ pc'[p] \in {"idle", "publish"} /\ job'[p].request \in {None, job[p].request}
        /\ \A q \in Procs \ {p} : pc'[q] = pc[q] /\ job'[q] = job[q]
    BY <1>6, GotoOthers DEF EscalatePublish, Return, NoJob, TypeOK, Job
  <2>2. InHand(p)' /\ OthersKeep(p)
    BY <1>6, <2>1, DoneInHand, NoneIsNobody
       DEF EscalatePublish, OthersKeep, IInv, HandlersOK, CreateInHand
  <2>. QED BY <1>6, <2>2, QuietStep DEF EscalatePublish
<1>7. ASSUME Abort(p)
      PROVE  IInv'
  <2>1. InHand(p)' /\ OthersKeep(p)
    BY <1>7, GotoOthers, DoneInHand, NoneIsNobody
       DEF Abort, Return, NoJob, OthersKeep, IInv, HandlersOK, CreateInHand
  <2>. QED BY <1>7, <2>1, QuietStep DEF Abort
<1>. QED BY <1>1, <1>2, <1>3, <1>4, <1>5, <1>6, <1>7 DEF Begin, Scan

\* Inserting a request: the ones before it are closed and cooled down.
LEMMA InsertInvariant ==
    ASSUME IInv, TypeOK', NEW p \in Procs, CreateCommit(p)
    PROVE  IInv'
<1>. TypeOK
  BY DEF IInv
<1>. PICK r \in Requests, t \in Tables, type \in Types, at \in Nat :
        /\ r = job[p].request /\ t = job[p].table /\ type = job[p].type /\ at = job[p].at
        /\ tableLock[t] = p /\ request[r].status = "UNUSED"
        /\ \A q \in Procs \ {p} : job[q].request # r
        /\ \A s \in Alike(t, type) : Closed(s) /\ at >= request[s].created + Cooldown
  BY DEF CreateCommit, IInv, HandlersOK, CreateInHand, TypeOK, Job
<1>1. /\ request'[r] = [status |-> "PENDING", table |-> t, type |-> type, created |-> at,
                         escalated |-> FALSE, stamps |-> {}]
      /\ \A s \in Requests \ {r} : request'[s] = request[s]
      /\ now' = now /\ rowLock' = rowLock
      /\ tableLock' = [tableLock EXCEPT ![t] = None]
  BY DEF CreateCommit, TypeOK, NoRequest
<1>2. /\ pc'[p] = "idle" /\ job'[p].request = None
      /\ \A q \in Procs \ {p} : pc'[q] = pc[q] /\ job'[q] = job[q]
  BY GotoOthers DEF CreateCommit, Return, NoJob
<1>3. OthersKeep(p)
  BY <1>1, <1>2, NoneIsNobody DEF OthersKeep, TypeOK, IInv, HandlersOK, CreateInHand
<1>4. RowsKept(p)
  BY <1>1 DEF RowsKept, Closed
<1>5. RowsOK'
  BY <1>1 DEF IInv, RowsOK, Closed
<1>6. \A s \in Requests \ {r} :
         request[s].status # "UNUSED" /\ request[s].table = t /\ request[s].type = type
            => Closed(s) /\ at >= request[s].created + Cooldown
  BY DEF Alike
<1>7. OneLiveRequest'
  <2>1. \A s \in Requests \ {r} : Live(s)' <=> Live(s)
    BY <1>1 DEF Live, Active
  <2>2. \A s \in Requests \ {r} : Live(s) => request[s].status # "UNUSED" /\ ~Closed(s)
    BY DEF Live, Active, ActiveStatuses, Closed
  <2>3. \A s \in Requests \ {r} : Live(s)' => request'[s].table # t \/ request'[s].type # type
    BY <1>1, <1>6, <2>1, <2>2
  <2>4. \A s1, s2 \in Requests \ {r} :
           /\ Live(s1)' /\ Live(s2)'
           /\ request'[s1].table = request'[s2].table /\ request'[s1].type = request'[s2].type
           => s1 = s2
    BY <1>1, <2>1 DEF IInv, OneLiveRequest
  <2>5. request'[r].table = t /\ request'[r].type = type
    BY <1>1
  <2>. QED BY <2>3, <2>4, <2>5 DEF OneLiveRequest
<1>8. RequestsAreSpaced'
  <2>. SUFFICES ASSUME NEW u \in Tables, NEW kind \in Types,
                       NEW s1 \in Alike(u, kind)', NEW s2 \in Alike(u, kind)', s1 # s2
                PROVE  \/ request'[s1].created >= request'[s2].created + Cooldown
                       \/ request'[s2].created >= request'[s1].created + Cooldown
    BY DEF RequestsAreSpaced
  <2>1. /\ s1 \in Requests /\ s2 \in Requests
        /\ request'[s1].status # "UNUSED" /\ request'[s2].status # "UNUSED"
        /\ request'[s1].table = u /\ request'[s1].type = kind
        /\ request'[s2].table = u /\ request'[s2].type = kind
    BY DEF Alike
  <2>2. CASE s1 # r /\ s2 # r
    BY <1>1, <2>1, <2>2 DEF Alike, IInv, RequestsAreSpaced
  <2>3. CASE s1 = r
    BY <1>1, <1>6, <2>1, <2>3
  <2>4. CASE s2 = r
    BY <1>1, <1>6, <2>1, <2>4
  <2>. QED BY <2>2, <2>3, <2>4
<1>9. HandlersOK'
  <2>1. now' \in Nat /\ now' >= now
    BY <1>1, TimesAreNaturals DEF TypeOK
  <2>. QED BY <2>1, <1>2, <1>3, <1>4, DoneInHand, Frame
<1>. QED BY <1>5, <1>7, <1>8, <1>9 DEF IInv

\* A step that answers, dismisses or escalates rows but revives none.
LEMMA RowsStay ==
    ASSUME IInv,
           \A r \in Requests :
              /\ request'[r].status = "UNUSED" <=> request[r].status = "UNUSED"
              /\ request'[r].table = request[r].table /\ request'[r].type = request[r].type
              /\ request'[r].created = request[r].created
              /\ Live(r)' => Live(r)
    PROVE  OneLiveRequest' /\ RequestsAreSpaced'
<1>1. OneLiveRequest'
  BY DEF IInv, OneLiveRequest
<1>2. \A t \in Tables, type \in Types : Alike(t, type)' = Alike(t, type)
  BY DEF Alike
<1>3. \A t \in Tables, type \in Types : Alike(t, type) \subseteq Requests
  BY DEF Alike
<1>. QED BY <1>1, <1>2, <1>3 DEF IInv, RequestsAreSpaced

\* Staff write the answer they decided on, over whatever the row holds by now.
LEMMA AnswerInvariant ==
    ASSUME IInv, TypeOK', NEW p \in Procs, TransitionCommit(p)
    PROVE  IInv'
<1>. TypeOK
  BY DEF IInv
<1>. PICK r \in Requests, to \in {"ACKNOWLEDGED", "COMPLETED", "DISMISSED"} :
        /\ r = job[p].request /\ to = job[p].to /\ request[r].status # "UNUSED"
        /\ rowLock[r] = None
  BY DEF TransitionCommit, RowFree, IInv, HandlersOK, AnswerInHand
<1>1. PICK stamps : /\ to \in stamps
                    /\ request' = [request EXCEPT ![r].status = to,
                                                  ![r].stamps = @ \cup stamps]
  BY DEF TransitionCommit
<1>2. /\ request'[r].status = to /\ request'[r].stamps = request[r].stamps \cup stamps
      /\ request'[r].table = request[r].table /\ request'[r].type = request[r].type
      /\ request'[r].created = request[r].created
      /\ \A s \in Requests \ {r} : request'[s] = request[s]
  BY <1>1 DEF TypeOK, Request
<1>3. /\ now' = now /\ rowLock' = rowLock /\ tableLock' = tableLock
      /\ pc'[p] = "idle" /\ job'[p].request = None
      /\ \A q \in Procs \ {p} : pc'[q] = pc[q] /\ job'[q] = job[q]
  BY GotoOthers DEF TransitionCommit, Return, NoJob
<1>4. RowsOK'
  BY <1>1, <1>2 DEF IInv, RowsOK, Closed
<1>5. \A s \in Requests : Live(s)' => Live(s)
  <2>1. ~Closed(r) => Live(r)
    <3>1. request[r].status \in Statuses \cup {"UNUSED"}
      BY DEF TypeOK, Request
    <3>. QED BY <3>1 DEF IInv, RowsOK, Live, Active, ActiveStatuses, Closed, Statuses
  <2>2. request'[r].stamps \cap {"COMPLETED", "DISMISSED"} = {} => ~Closed(r)
    BY <1>2 DEF Closed
  <2>3. Live(r)' => Live(r)
    BY <2>1, <2>2 DEF Live
  <2>. QED BY <1>2, <2>3 DEF Live, Active
<1>6. OneLiveRequest' /\ RequestsAreSpaced'
  BY <1>2, <1>5, RowsStay
<1>7. OthersKeep(p)
  BY <1>2, <1>3, NoneIsNobody DEF OthersKeep, IInv, HandlersOK, CreateInHand
<1>8. RowsKept(p)
  BY <1>2 DEF RowsKept, Closed
<1>9. HandlersOK'
  <2>1. now' \in Nat /\ now' >= now
    BY <1>3, TimesAreNaturals DEF TypeOK
  <2>. QED BY <2>1, <1>3, <1>7, <1>8, DoneInHand, Frame
<1>. QED BY <1>4, <1>6, <1>9 DEF IInv

\* A scan commits.
LEMMA EscalateInvariant ==
    ASSUME IInv, TypeOK', NEW p \in Procs, EscalateCommit(p)
    PROVE  IInv'
<1>. TypeOK
  BY DEF IInv
<1>1. \A r \in Requests :
         /\ request'[r].status = request[r].status /\ request'[r].stamps = request[r].stamps
         /\ request'[r].table = request[r].table /\ request'[r].type = request[r].type
         /\ request'[r].created = request[r].created
  BY DEF EscalateCommit, TypeOK, Request
<1>2. \A r \in Requests, q \in Procs \ {p} :
         rowLock[r] = q => rowLock'[r] = q /\ request'[r] = request[r]
  BY DEF EscalateCommit, IInv, HandlersOK, EscalateInHand
<1>3. /\ now' = now /\ tableLock' = tableLock
      /\ pc'[p] = "publish" /\ job'[p] = job[p]
      /\ \A q \in Procs \ {p} : pc'[q] = pc[q] /\ job'[q] = job[q]
  BY GotoOthers DEF EscalateCommit
<1>4. RowsOK'
  BY <1>1 DEF IInv, RowsOK, Closed
<1>5. OneLiveRequest' /\ RequestsAreSpaced'
  <2>1. \A r \in Requests : Live(r)' => Live(r)
    BY <1>1 DEF Live, Active
  <2>. QED BY <1>1, <2>1, RowsStay
<1>6. OthersKeep(p)
  BY <1>2, <1>3 DEF OthersKeep, IInv, HandlersOK, CreateInHand
<1>7. RowsKept(p)
  BY <1>1 DEF RowsKept, Closed
<1>8. HandlersOK'
  <2>1. now' \in Nat /\ now' >= now
    BY <1>3, TimesAreNaturals DEF TypeOK
  <2>. QED BY <2>1, <1>3, <1>6, <1>7, DoneInHand, Frame
<1>. QED BY <1>4, <1>5, <1>8 DEF IInv

\* A settlement dismisses the calls of its table.
LEMMA DismissInvariant ==
    ASSUME IInv, NEW t \in Tables, SettlementDismiss(t)
    PROVE  IInv'
<1>. TypeOK
  BY DEF IInv
<1>1. PICK calls \in SUBSET Requests :
         /\ calls = {r \in Requests : Active(r) /\ request[r].table = t}
         /\ \A r \in calls : RowFree(r)
         /\ request' = [r \in Requests |-> IF r \in calls
               THEN [request[r] EXCEPT !.status = "DISMISSED", !.stamps = @ \cup {"DISMISSED"}]
               ELSE request[r]]
  BY DEF SettlementDismiss
<1>2. \A r \in calls :
         /\ request'[r].status = "DISMISSED"
         /\ request'[r].stamps = request[r].stamps \cup {"DISMISSED"}
         /\ request'[r].table = request[r].table /\ request'[r].type = request[r].type
         /\ request'[r].created = request[r].created
         /\ request[r].status # "UNUSED" /\ rowLock[r] = None
  BY <1>1 DEF Active, ActiveStatuses, RowFree, TypeOK, Request
<1>3. \A r \in Requests \ calls : request'[r] = request[r]
  BY <1>1
<1>4. now' = now /\ tableLock' = tableLock /\ rowLock' = rowLock /\ pc' = pc /\ job' = job
  BY DEF SettlementDismiss
<1>5. TypeOK'
  <2>1. ASSUME NEW row \in Request
        PROVE  [row EXCEPT !.status = "DISMISSED", !.stamps = row.stamps \cup {"DISMISSED"}]
                  \in Request
    <3>. DEFINE set == row.stamps \cup {"DISMISSED"}
    <3>1. set \in SUBSET {"ACKNOWLEDGED", "COMPLETED", "DISMISSED"}
      BY DEF Request
    <3>. HIDE DEF set
    <3>2. [[row EXCEPT !.status = "DISMISSED"] EXCEPT !.stamps = set] \in Request
      BY <3>1 DEF Request, Statuses
    <3>. QED BY <3>2 DEF set
  <2>2. \A r \in Requests : request[r] \in Request
    BY DEF TypeOK
  <2>3. \A r \in Requests : request'[r] \in Request
    BY <1>1, <2>1, <2>2, Zenon
  <2>4. request' = [r \in Requests |-> request'[r]]
    BY <1>1
  <2>5. request' \in [Requests -> Request]
    BY <2>3, <2>4
  <2>. QED BY <2>5 DEF SettlementDismiss, TypeOK
<1>6. RowsOK'
  BY <1>2, <1>3 DEF IInv, RowsOK, Closed
<1>7. OneLiveRequest' /\ RequestsAreSpaced'
  <2>1. \A r \in Requests : Live(r)' => Live(r)
    BY <1>2, <1>3 DEF Live, Active, ActiveStatuses
  <2>. QED BY <1>2, <1>3, <2>1, RowsStay
<1>8. OthersKeep(None)
  BY <1>2, <1>3, <1>4, NoneIsNobody DEF OthersKeep
<1>9. RowsKept(None)
  BY <1>2, <1>3 DEF RowsKept, Closed
<1>10. HandlersOK'
  <2>1. now' \in Nat /\ now' >= now
    BY <1>4, TimesAreNaturals DEF TypeOK
  <2>. QED BY <2>1, <1>8, <1>9, NoneIsNobody, Frame
<1>. QED BY <1>5, <1>6, <1>7, <1>10 DEF IInv

\* Time passes.
LEMMA TickInvariant ==
    ASSUME IInv, Tick
    PROVE  IInv'
<1>1. TypeOK' /\ now' \in Nat /\ now' >= now
  BY TimesAreNaturals DEF IInv, TypeOK, Tick
<1>2. OthersKeep(None) /\ RowsKept(None)
  BY NoneIsNobody DEF Tick, OthersKeep, RowsKept, Closed
<1>3. HandlersOK'
  BY <1>1, <1>2, NoneIsNobody, Frame
<1>4. RowsInv'
  BY QuietRows DEF IInv, RowsInv, Tick
<1>. QED BY <1>1, <1>3, <1>4 DEF IInv, RowsInv

\* Every step keeps the invariant.
LEMMA NextInvariant ==
    ASSUME IInv, [Next]_vars
    PROVE  IInv'
<1>1. ASSUME NEW p \in Procs, Begin(p) \/ Proceed(p) \/ Scan(p) \/ Abort(p)
      PROVE  IInv'
  <2>1. TypeOK'
    BY <1>1, StepTypes
  <2>. QED BY <1>1, <2>1, ReadInvariant, InsertInvariant, AnswerInvariant, EscalateInvariant
           DEF Proceed
<1>2. CASE UNCHANGED vars
  <2>1. TypeOK' /\ HandlersOK'
    BY <1>2 DEF vars, IInv, TypeOK, HandlersOK, CreateInHand, AnswerInHand, EscalateInHand,
                Alike, Closed
  <2>. QED BY <1>2, <2>1, QuietRows DEF vars, IInv, RowsInv
<1>. QED BY <1>1, <1>2, DismissInvariant, TickInvariant DEF Next

\* The invariant holds initially.
LEMMA InitInvariant == Init => IInv
<1>. SUFFICES ASSUME Init PROVE IInv
  OBVIOUS
<1>1. TypeOK
  BY TimesAreNaturals DEF Init, TypeOK, NoRequest, Request, NoJob, Job, Labels
<1>2. RowsOK /\ OneLiveRequest /\ RequestsAreSpaced
  BY DEF Init, NoRequest, RowsOK, OneLiveRequest, RequestsAreSpaced, Live, Active,
         ActiveStatuses, Alike
<1>3. HandlersOK
  BY DEF Init, HandlersOK, CreateInHand, AnswerInHand, EscalateInHand
<1>. QED BY <1>1, <1>2, <1>3 DEF IInv

(***************************************************************************)
(* 4. The theorems                                                         *)
(***************************************************************************)

\* The invariant holds throughout: types, rows and what every handler relies on.
THEOREM InvariantHolds == Spec => []IInv
BY InitInvariant, NextInvariant, PTL DEF Spec

\* create_request never lets a table have two live requests of one type.
THEOREM OneLive == Spec => []OneLiveRequest
<1>1. IInv => OneLiveRequest
  BY DEF IInv
<1>. QED BY <1>1, InvariantHolds, PTL

\* Two requests of one type are always a cool-down apart.
THEOREM Spaced == Spec => []RequestsAreSpaced
<1>1. IInv => RequestsAreSpaced
  BY DEF IInv
<1>. QED BY <1>1, InvariantHolds, PTL

\* Only rows of the committing scan become escalated.
LEMMA EscalatedByScan ==
    ASSUME IInv, [Next]_vars, NEW r \in Requests,
           ~request[r].escalated, request'[r].escalated
    PROVE  /\ request[r].status = "PENDING" /\ request'[r].status = "PENDING"
           /\ \E threshold \in Thresholds : now >= request[r].created + threshold
<1>. TypeOK
  BY DEF IInv
<1>1. PICK p \in Procs : CreateCommit(p) \/ TransitionCommit(p) \/ EscalateCommit(p)
  <2>1. ASSUME NEW t \in Tables, SettlementDismiss(t)
        PROVE  request'[r].escalated = request[r].escalated
    BY <2>1 DEF SettlementDismiss, TypeOK, Request
  <2>. QED BY <2>1 DEF Next, Begin, Proceed, Scan, CreateBegin, TransitionRead, CreateCheck,
                       CreateReject, EscalateSelect, EscalatePublish, Abort, Tick, vars
<1>2. ~CreateCommit(p)
  <2>. SUFFICES ASSUME CreateCommit(p) PROVE FALSE
    OBVIOUS
  <2>1. PICK row : ~row.escalated /\ request' = [request EXCEPT ![job[p].request] = row]
    BY DEF CreateCommit, NoRequest
  <2>. QED BY <2>1 DEF TypeOK
<1>3. ~TransitionCommit(p)
  BY DEF TransitionCommit, TypeOK, Request
<1>4. EscalateCommit(p)
  BY <1>1, <1>2, <1>3
<1>5. r \in job[p].overdue
  BY <1>4 DEF EscalateCommit
<1>6. request'[r].status = request[r].status
  BY <1>4, <1>5 DEF EscalateCommit, TypeOK, Request
<1>. QED BY <1>4, <1>5, <1>6 DEF EscalateCommit, IInv, HandlersOK, EscalateInHand

\* A scan escalates only requests that are overdue and unanswered when it commits.
THEOREM OnlyWaiting == Spec => OnlyWaitingEscalate
<1>1. IInv /\ [Next]_vars =>
         [\A r \in Requests :
             ~request[r].escalated /\ request'[r].escalated =>
                /\ request[r].status = "PENDING" /\ request'[r].status = "PENDING"
                /\ \E threshold \in Thresholds : now >= request[r].created + threshold]_request
  BY EscalatedByScan
<1>. QED BY <1>1, InvariantHolds, PTL DEF Spec, OnlyWaitingEscalate

(***************************************************************************)
(* 5. One escalation per request                                           *)
(***************************************************************************)

\* p has committed its scan and has yet to publish r.
Publishes(p, r) == pc[p] = "publish" /\ r \in job[p].overdue

\* A request that was published, or is about to be, is marked; only one scan marked it.
Marked(r) ==
    /\ escalations[r] <= 1
    /\ request[r].status = "UNUSED" => ~request[r].escalated
    /\ ~request[r].escalated => escalations[r] = 0
    /\ \A p \in Procs : Publishes(p, r) =>
          /\ request[r].escalated /\ escalations[r] = 0
          /\ \A q \in Procs \ {p} : ~Publishes(q, r)

EscalationsOK == \A r \in Requests : Marked(r)

\* A step by which no scan gets to publish, and which marks and unmarks no request.
LEMMA UnmarkedStep ==
    ASSUME EscalationsOK, UNCHANGED escalations,
           \A r \in Requests : /\ request'[r].escalated = request[r].escalated
                               /\ request'[r].status = "UNUSED" => request[r].status = "UNUSED"
                               /\ \A p \in Procs : Publishes(p, r)' => Publishes(p, r)
    PROVE  EscalationsOK'
BY DEF EscalationsOK, Marked

\* Handlers do not publish, and a scan that begins does not yet.
LEMMA HandlersDoNotPublish ==
    ASSUME IInv, IInv', EscalationsOK, NEW p \in Procs,
           \/ Begin(p) \/ CreateCheck(p) \/ CreateReject(p) \/ CreateCommit(p)
           \/ TransitionCommit(p) \/ Scan(p) \/ Abort(p)
    PROVE  EscalationsOK'
<1>. TypeOK
  BY DEF IInv
<1>1. UNCHANGED escalations
  BY DEF Begin, CreateBegin, TransitionRead, CreateCheck, CreateReject, CreateCommit,
         TransitionCommit, Scan, EscalateSelect, Abort
<1>2. \E label, local : label \in Labels \ {"publish"} /\ Goto(p, label, local)
  BY DEF Begin, CreateBegin, TransitionRead, CreateCheck, CreateReject, CreateCommit,
         TransitionCommit, Scan, EscalateSelect, Abort, Return, Labels
<1>3. \A q \in Procs, r \in Requests : Publishes(q, r)' => Publishes(q, r)
  BY <1>2, GotoOthers DEF Publishes
<1>4. ASSUME NEW r \in Requests
      PROVE  /\ request'[r].escalated = request[r].escalated
             /\ request'[r].status = "UNUSED" => request[r].status = "UNUSED"
  <2>1. CASE CreateCommit(p)
    <3>1. request[job[p].request].status = "UNUSED" /\ job[p].request \in Requests
      BY <2>1 DEF CreateCommit, IInv, HandlersOK, CreateInHand
    <3>2. ~request[job[p].request].escalated
      BY <3>1 DEF EscalationsOK, Marked
    <3>3. PICK row : /\ row.status = "PENDING" /\ row.escalated = FALSE
                     /\ request' = [request EXCEPT ![job[p].request] = row]
      BY <2>1 DEF CreateCommit, NoRequest
    <3>. QED
      <4>1. request[job[p].request].escalated \in BOOLEAN
        BY <3>1 DEF TypeOK, Request
      <4>. QED BY <3>1, <3>2, <3>3, <4>1 DEF TypeOK
  <2>2. CASE TransitionCommit(p)
    <3>1. /\ job[p].request \in Requests /\ request[job[p].request].status # "UNUSED"
          /\ job[p].to # "UNUSED"
      BY <2>2 DEF TransitionCommit, IInv, HandlersOK, AnswerInHand
    <3>. QED BY <2>2, <3>1 DEF TransitionCommit, TypeOK, Request
  <2>3. CASE UNCHANGED request
    BY <2>3
  <2>. QED BY <2>1, <2>2, <2>3 DEF Begin, CreateBegin, TransitionRead, CreateCheck,
                                   CreateReject, Scan, EscalateSelect, Abort
<1>. QED BY <1>1, <1>3, <1>4, UnmarkedStep

\* A scan that commits marks requests that were not: nobody else publishes them.
LEMMA CommitMarks ==
    ASSUME IInv, EscalationsOK, NEW p \in Procs, EscalateCommit(p)
    PROVE  EscalationsOK'
<1>. SUFFICES ASSUME NEW r \in Requests PROVE Marked(r)'
  BY DEF EscalationsOK
<1>. TypeOK /\ Marked(r)
  BY DEF IInv, EscalationsOK
<1>1. /\ pc[p] = "escalate" /\ pc'[p] = "publish" /\ job'[p] = job[p]
      /\ \A q \in Procs \ {p} : pc'[q] = pc[q] /\ job'[q] = job[q]
      /\ escalations' = escalations
  BY GotoOthers DEF EscalateCommit, Labels
<1>2. CASE r \in job[p].overdue
  <2>1. request[r].status = "PENDING" /\ ~request[r].escalated
    BY <1>1, <1>2 DEF IInv, HandlersOK, EscalateInHand
  <2>2. request'[r].status = request[r].status /\ request'[r].escalated
    BY <1>2 DEF EscalateCommit, TypeOK, Request
  <2>3. escalations[r] = 0 /\ \A q \in Procs : ~Publishes(q, r)
    BY <2>1 DEF Marked
  <2>. QED BY <1>1, <2>1, <2>2, <2>3 DEF Marked, Publishes
<1>3. CASE r \notin job[p].overdue
  <2>1. request'[r] = request[r]
    BY <1>3 DEF EscalateCommit
  <2>. QED BY <1>1, <1>3, <2>1 DEF Marked, Publishes
<1>. QED BY <1>2, <1>3

\* What was published is no longer about to be.
LEMMA PublishOnce ==
    ASSUME IInv, EscalationsOK, NEW p \in Procs, NEW s \in Requests, EscalatePublish(p, s)
    PROVE  EscalationsOK'
<1>. SUFFICES ASSUME NEW r \in Requests PROVE Marked(r)'
  BY DEF EscalationsOK
<1>. TypeOK /\ Marked(r) /\ Marked(s)
  BY DEF IInv, EscalationsOK
<1>1. /\ Publishes(p, s) /\ request' = request
      /\ escalations' = [escalations EXCEPT ![s] = @ + 1]
      /\ \A q \in Procs \ {p} : pc'[q] = pc[q] /\ job'[q] = job[q]
      /\ Publishes(p, r)' => Publishes(p, r) /\ r # s
  <2>1. CASE job[p].overdue \ {s} = {}
    BY <2>1, GotoOthers DEF EscalatePublish, Publishes, Return, NoJob, Labels
  <2>2. CASE job[p].overdue \ {s} # {}
    <3>1. PICK local : local.overdue = job[p].overdue \ {s} /\ Goto(p, "publish", local)
      BY <2>2 DEF EscalatePublish, TypeOK, Job
    <3>. QED BY <3>1, GotoOthers DEF EscalatePublish, Publishes, Labels
  <2>. QED BY <2>1, <2>2
<1>2. CASE r = s
  BY <1>1, <1>2 DEF Marked, Publishes, TypeOK
<1>3. CASE r # s
  BY <1>1, <1>3 DEF Marked, Publishes, TypeOK
<1>. QED BY <1>2, <1>3

\* Neither a settlement nor the clock marks a request.
LEMMA EscalationsStay ==
    ASSUME IInv, EscalationsOK, (\E t \in Tables : SettlementDismiss(t)) \/ Tick \/ UNCHANGED vars
    PROVE  EscalationsOK'
<1>. TypeOK
  BY DEF IInv
<1>1. UNCHANGED <<escalations, pc, job>>
  BY DEF SettlementDismiss, Tick, vars
<1>2. ASSUME NEW r \in Requests
      PROVE  /\ request'[r].escalated = request[r].escalated
             /\ request'[r].status = "UNUSED" => request[r].status = "UNUSED"
  <2>1. ASSUME NEW t \in Tables, SettlementDismiss(t)
        PROVE  \/ request'[r] = request[r]
               \/ request'[r].status = "DISMISSED" /\ request'[r].escalated = request[r].escalated
    BY <2>1 DEF SettlementDismiss, TypeOK, Request
  <2>. QED BY <2>1 DEF Tick, vars
<1>. QED BY <1>1, <1>2, UnmarkedStep DEF Publishes

\* SERVICE_REQUEST_ESCALATED is published once per request at most, however many
\* workers and endpoints scan, and however their scans fail.
THEOREM AtMostOneEscalation == Spec => []EscalatedOnce
<1>1. Init => EscalationsOK
  BY DEF Init, EscalationsOK, Marked, Publishes, NoRequest
<1>2. IInv /\ IInv' /\ EscalationsOK /\ [Next]_vars => EscalationsOK'
  BY HandlersDoNotPublish, CommitMarks, PublishOnce, EscalationsStay DEF Next, Proceed
<1>3. EscalationsOK => EscalatedOnce
  BY DEF EscalationsOK, Marked, EscalatedOnce
<1>. QED BY <1>1, <1>2, <1>3, InvariantHolds, PTL DEF Spec

(***************************************************************************)
(* 6. Every step is a step of CallBell, or none                            *)
(***************************************************************************)

\* Nobody answers a request that still waits, and no handler noted a time to come.
TimesOK ==
    /\ \A r \in Requests : request[r].status = "PENDING" => request[r].stamps = {}
    /\ \A p \in Procs : job[p].at <= now

calls == [r \in Requests |-> CallOf(r)]

Rung == Calls!Next \/ UNCHANGED <<now, calls>>

\* A handler that moves keeps the time it noted, forgets it, or notes the present.
LEMMA MovesKeepTimes ==
    ASSUME TypeOK, \A q \in Procs : job[q].at <= now, NEW p \in Procs, NEW label, NEW local,
           Goto(p, label, local), local.at \in {0, now, job[p].at}, now' = now
    PROVE  \A q \in Procs : job'[q].at <= now'
<1>1. now \in Nat
  BY TimesAreNaturals DEF TypeOK
<1>2. 0 <= now /\ now <= now
  BY <1>1
<1>. QED BY <1>2, GotoOthers

LEMMA StepTimes ==
    ASSUME IInv, TimesOK, NEW p \in Procs, Begin(p) \/ Proceed(p) \/ Scan(p) \/ Abort(p)
    PROVE  TimesOK'
<1>. TypeOK /\ job[p] \in Job
  BY DEF IInv, TypeOK
<1>1. \A q \in Procs : job'[q].at <= now'
  <2>1. now' = now
    BY DEF Begin, CreateBegin, TransitionRead, Proceed, CreateCheck, CreateReject, CreateCommit,
           TransitionCommit, EscalateCommit, EscalatePublish, Scan, EscalateSelect, Abort
  <2>2. \E label, local : Goto(p, label, local) /\ local.at \in {0, now, job[p].at}
    <3>1. ASSUME NEW t \in Tables, NEW type \in Types, CreateBegin(p, t, type)
          PROVE  \E label, local : Goto(p, label, local) /\ local.at \in {0, now, job[p].at}
      <4>1. [NoJob EXCEPT !.table = t, !.type = type, !.at = now].at = now
        BY DEF NoJob
      <4>. QED BY <3>1, <4>1 DEF CreateBegin
    <3>6. ASSUME NEW r \in Requests, NEW to \in Statuses, TransitionRead(p, r, to)
          PROVE  \E label, local : Goto(p, label, local) /\ local.at \in {0, now, job[p].at}
      <4>1. PICK acknowledged : acknowledged = ("ACKNOWLEDGED" \in request[r].stamps)
        OBVIOUS
      <4>2. [NoJob EXCEPT !.request = r, !.to = to, !.acknowledged = acknowledged].at = 0
        BY DEF NoJob
      <4>. QED BY <3>6, <4>1, <4>2 DEF TransitionRead
    <3>7. ASSUME NEW threshold \in Thresholds, EscalateSelect(p, threshold)
          PROVE  \E label, local : Goto(p, label, local) /\ local.at \in {0, now, job[p].at}
      <4>1. PICK overdue : Goto(p, "escalate", [NoJob EXCEPT !.overdue = overdue])
        BY <3>7 DEF EscalateSelect
      <4>2. [NoJob EXCEPT !.overdue = overdue].at = 0
        BY DEF NoJob
      <4>. QED BY <4>1, <4>2
    <3>5. CASE CreateReject(p) \/ CreateCommit(p) \/ TransitionCommit(p) \/ Abort(p)
      BY <3>5 DEF CreateReject, CreateCommit, TransitionCommit, Abort, Return, NoJob
    <3>2. CASE EscalateCommit(p)
      BY <3>2 DEF EscalateCommit
    <3>3. CASE CreateCheck(p)
      <4>1. PICK r \in Requests : Goto(p, "insert", [job[p] EXCEPT !.request = r])
        BY <3>3 DEF CreateCheck, FreshRequests
      <4>2. [job[p] EXCEPT !.request = r].at = job[p].at
        BY DEF Job
      <4>. QED BY <4>1, <4>2
    <3>4. ASSUME NEW r \in Requests, EscalatePublish(p, r)
          PROVE  \E label, local : Goto(p, label, local) /\ local.at \in {0, now, job[p].at}
      <4>1. [job[p] EXCEPT !.overdue = job[p].overdue \ {r}].at = job[p].at /\ NoJob.at = 0
        BY DEF Job, NoJob
      <4>. QED BY <3>4, <4>1 DEF EscalatePublish, Return
    <3>. QED BY <3>1, <3>2, <3>3, <3>4, <3>5, <3>6, <3>7 DEF Begin, Proceed, Scan
  <2>. QED BY <2>1, <2>2, MovesKeepTimes DEF TimesOK
<1>2. ASSUME NEW r \in Requests, request'[r].status = "PENDING"
      PROVE  request'[r].stamps = {}
  <2>1. CASE CreateCommit(p)
    <3>1. PICK row : row.stamps = {} /\ request' = [request EXCEPT ![job[p].request] = row]
      BY <2>1 DEF CreateCommit, NoRequest
    <3>. QED BY <1>2, <3>1 DEF TypeOK, TimesOK
  <2>2. CASE TransitionCommit(p)
    <3>1. job[p].to # "PENDING"
      BY <2>2 DEF TransitionCommit, IInv, HandlersOK, AnswerInHand
    <3>. QED BY <1>2, <2>2, <3>1 DEF TransitionCommit, TypeOK, Request, TimesOK
  <2>3. CASE EscalateCommit(p)
    BY <1>2, <2>3 DEF EscalateCommit, TypeOK, Request, TimesOK
  <2>4. CASE UNCHANGED request
    BY <1>2, <2>4 DEF TimesOK
  <2>. QED BY <2>1, <2>2, <2>3, <2>4 DEF Begin, CreateBegin, TransitionRead, Proceed, CreateCheck,
                          CreateReject, EscalatePublish, Scan, EscalateSelect, Abort
<1>. QED BY <1>1, <1>2 DEF TimesOK

LEMMA NextTimes ==
    ASSUME IInv, TimesOK, [Next]_vars
    PROVE  TimesOK'
<1>. TypeOK
  BY DEF IInv
<1>1. ASSUME NEW t \in Tables, SettlementDismiss(t)
      PROVE  TimesOK'
  BY <1>1 DEF SettlementDismiss, TypeOK, Request, TimesOK
<1>2. CASE Tick
  <2>1. /\ now \in Nat /\ now' = now + 1 /\ UNCHANGED <<request, job>>
        /\ \A p \in Procs : job[p].at \in Nat
    BY <1>2, TimesAreNaturals DEF Tick, TypeOK, Job
  <2>. QED BY <2>1 DEF TimesOK
<1>3. CASE UNCHANGED vars
  BY <1>3 DEF vars, TimesOK
<1>. QED BY <1>1, <1>2, <1>3, StepTimes DEF Next

\* The columns of a call.
LEMMA CallRow ==
    ASSUME NEW r \in Requests
    PROVE  /\ calls[r].state = CallState(r) /\ calls[r].table = request[r].table
           /\ calls[r].type = request[r].type /\ calls[r].at = request[r].created
           /\ calls[r].escalated = request[r].escalated /\ calls[r].announced = escalations[r]
BY DEF calls, CallOf

\* A row is no call before it is inserted, and closed from its first such answer.
LEMMA CallStates ==
    ASSUME IInv, NEW r \in Requests
    PROVE  /\ CallState(r) = "none" <=> request[r].status = "UNUSED"
           /\ CallState(r) = "closed" <=> Closed(r)
           /\ CallState(r) = "live" <=> request[r].status # "UNUSED" /\ ~Closed(r)
BY DEF CallState, Closed, IInv, RowsOK

\* Calls depend on the rows and on what was published alone.
LEMMA SameCall ==
    ASSUME NEW r \in Requests, request'[r] = request[r], escalations'[r] = escalations[r]
    PROVE  CallOf(r)' = CallOf(r)
BY DEF CallOf, CallState, Closed

LEMMA SameCalls ==
    ASSUME \A r \in Requests : CallOf(r)' = CallOf(r)
    PROVE  calls' = calls
BY DEF calls

\* Closing or escalating a call leaves its other columns.
LEMMA CallUpdates ==
    ASSUME NEW r \in Requests
    PROVE  /\ [calls[r] EXCEPT !.state = "closed"] =
                 [state |-> "closed", table |-> request[r].table, type |-> request[r].type,
                  at |-> request[r].created, escalated |-> request[r].escalated,
                  announced |-> escalations[r]]
           /\ [calls[r] EXCEPT !.escalated = TRUE] =
                 [state |-> CallState(r), table |-> request[r].table, type |-> request[r].type,
                  at |-> request[r].created, escalated |-> TRUE, announced |-> escalations[r]]
<1>1. PICK state, table, type, at, escalated, announced :
         /\ state = CallState(r) /\ table = request[r].table /\ type = request[r].type
         /\ at = request[r].created /\ escalated = request[r].escalated
         /\ announced = escalations[r]
  OBVIOUS
<1>2. calls[r] = [state |-> state, table |-> table, type |-> type, at |-> at,
                  escalated |-> escalated, announced |-> announced]
  <2>1. calls[r] = CallOf(r)
    BY DEF calls
  <2>. QED BY <1>1, <2>1, Zenon DEF CallOf
<1>3. [calls[r] EXCEPT !.state = "closed"] =
         [state |-> "closed", table |-> table, type |-> type, at |-> at,
          escalated |-> escalated, announced |-> announced]
  BY <1>2
<1>4. [calls[r] EXCEPT !.escalated = TRUE] =
         [state |-> state, table |-> table, type |-> type, at |-> at,
          escalated |-> TRUE, announced |-> announced]
  <2>1. \A x : [calls[r] EXCEPT !.escalated = x] =
                 [state |-> state, table |-> table, type |-> type, at |-> at,
                  escalated |-> x, announced |-> announced]
    BY <1>2
  <2>. QED BY <2>1, Zenon
<1>. QED BY <1>1, <1>3, <1>4, Zenon

\* A step that changes one row changes one call.
LEMMA CallChanged ==
    ASSUME NEW r \in Requests, \A q \in Requests \ {r} : CallOf(q)' = CallOf(q)
    PROVE  calls' = [calls EXCEPT ![r] = CallOf(r)']
BY DEF calls

\* A step that writes no row and publishes nothing is a stutter of CallBell.
LEMMA QuietCalls ==
    ASSUME UNCHANGED <<now, request, escalations>>
    PROVE  Rung
BY SameCall, SameCalls DEF Rung

\* create_request rings: earlier calls of the table for the thing are closed, and cooled
\* down at the time the handler noted.
LEMMA CreateRings ==
    ASSUME IInv, EscalationsOK, TimesOK, NEW p \in Procs, CreateCommit(p)
    PROVE  Rung
<1>. TypeOK
  BY DEF IInv
<1>1. PICK r \in Requests, t \in Tables, type \in Types :
         /\ r = job[p].request /\ t = job[p].table /\ type = job[p].type
         /\ request[r].status = "UNUSED"
         /\ \A q \in Alike(t, type) : Closed(q) /\ job[p].at >= request[q].created + Cooldown
  BY DEF CreateCommit, IInv, HandlersOK, CreateInHand
<1>2. PICK at \in 0 .. now : at = job[p].at
  <2>1. now \in Nat /\ job[p].at \in Nat /\ job[p].at <= now
    BY TimesAreNaturals DEF TypeOK, Job, TimesOK
  <2>. QED BY <2>1
<1>3. /\ request' = [request EXCEPT ![r] = [NoRequest EXCEPT
            !.status = "PENDING", !.table = t, !.type = type, !.created = at]]
      /\ UNCHANGED <<now, escalations>>
  BY <1>1, <1>2 DEF CreateCommit
<1>4. escalations[r] = 0
  BY <1>1 DEF EscalationsOK, Marked
<1>5. CallOf(r)' = [state |-> "live", table |-> t, type |-> type, at |-> at,
                    escalated |-> FALSE, announced |-> 0]
  <2>1. request'[r] = [status |-> "PENDING", table |-> t, type |-> type, created |-> at,
                       escalated |-> FALSE, stamps |-> {}]
    BY <1>3 DEF TypeOK, NoRequest
  <2>2. CallState(r)' = "live"
    BY <2>1 DEF CallState, Closed
  <2>3. /\ request'[r].table = t /\ request'[r].type = type /\ request'[r].created = at
        /\ request'[r].escalated = FALSE /\ escalations'[r] = 0
    <3>1. request'[r].table = t /\ request'[r].type = type /\ request'[r].created = at
      BY <2>1
    <3>2. request'[r].escalated = FALSE
      BY <2>1
    <3>3. escalations'[r] = 0
      BY <1>3, <1>4
    <3>. QED BY <3>1, <3>2, <3>3, Zenon
  <2>. QED BY <2>2, <2>3, Zenon DEF CallOf
<1>6. calls' = [calls EXCEPT ![r] = [Calls!NoCall EXCEPT !.state = "live", !.table = t,
                                                         !.type = type, !.at = at]]
  <2>1. \A q \in Requests \ {r} : CallOf(q)' = CallOf(q)
    BY <1>3, SameCall DEF TypeOK
  <2>2. calls' = [calls EXCEPT ![r] = CallOf(r)']
    BY <2>1, CallChanged
  <2>. QED BY <1>5, <2>2 DEF Calls!NoCall
<1>7. calls[r].state = "none"
  BY <1>1, CallRow, CallStates
<1>8. ASSUME NEW q \in Requests, calls[q].state # "none", calls[q].table = t,
             calls[q].type = type
      PROVE  calls[q].state = "closed" /\ at >= calls[q].at + Cooldown
  <2>1. q \in Alike(t, type)
    BY <1>8, CallRow, CallStates DEF Alike
  <2>. QED BY <1>1, <1>2, <2>1, CallRow, CallStates
<1>9. Calls!Ring(r, t, type, at)
  BY <1>3, <1>6, <1>7, <1>8 DEF Calls!Ring, calls
<1>. QED BY <1>9 DEF Rung, Calls!Next

\* Rows that keep all but their status, and become closed if they were not: their
\* live calls are closed at once.
LEMMA RowsClose ==
    ASSUME IInv, IInv', NEW rows \in SUBSET Requests, UNCHANGED <<now, escalations>>,
           \A r \in Requests \ rows : request'[r] = request[r],
           \A r \in rows :
              /\ request[r].status # "UNUSED" /\ Closed(r)'
              /\ request'[r].table = request[r].table /\ request'[r].type = request[r].type
              /\ request'[r].created = request[r].created
              /\ request'[r].escalated = request[r].escalated
    PROVE  Rung
<1>. DEFINE live == {r \in rows : ~Closed(r)}
<1>1. \A r \in live : calls[r].state = "live"
  BY CallRow, CallStates
<1>2. \A r \in live : CallOf(r)' = [calls[r] EXCEPT !.state = "closed"]
  <2>. SUFFICES ASSUME NEW r \in live
                PROVE  CallOf(r)' = [calls[r] EXCEPT !.state = "closed"]
    OBVIOUS
  <2>1. CallState(r)' = "closed"
    <3>1. request'[r].status # "UNUSED"
      BY DEF IInv, RowsOK, Closed
    <3>. QED BY <3>1 DEF CallState
  <2>2. CallOf(r)' = [state |-> "closed", table |-> request[r].table,
                      type |-> request[r].type, at |-> request[r].created,
                      escalated |-> request[r].escalated, announced |-> escalations[r]]
    <3>1. /\ request'[r].table = request[r].table /\ request'[r].type = request[r].type
          /\ request'[r].created = request[r].created
          /\ request'[r].escalated = request[r].escalated /\ escalations'[r] = escalations[r]
      OBVIOUS
    <3>. QED BY <2>1, <3>1, Zenon DEF CallOf
  <2>. QED BY <2>2, CallUpdates, Zenon
<1>3. \A r \in Requests \ live : CallOf(r)' = CallOf(r)
  <2>1. \A r \in Requests \ rows : CallOf(r)' = CallOf(r)
    BY SameCall
  <2>2. ASSUME NEW r \in rows, Closed(r)
        PROVE  CallOf(r)' = CallOf(r)
    <3>1. request'[r].status # "UNUSED"
      BY DEF IInv, RowsOK, Closed
    <3>2. CallState(r)' = "closed" /\ CallState(r) = "closed"
      BY <2>2, <3>1 DEF CallState
    <3>. QED BY <3>2 DEF CallOf
  <2>. QED BY <2>1, <2>2
<1>. HIDE DEF live
<1>4. calls' = [r \in Requests |-> IF r \in live THEN [calls[r] EXCEPT !.state = "closed"]
                                   ELSE calls[r]]
  <2>1. calls' = [r \in Requests |-> CallOf(r)']
    BY DEF calls
  <2>2. \A r \in Requests : CallOf(r) = calls[r]
    BY DEF calls
  <2>. QED BY <1>2, <1>3, <2>1, <2>2
<1>5. live \in SUBSET Requests
  BY DEF live
<1>6. Calls!Close(live)
  BY <1>1, <1>4 DEF Calls!Close, calls
<1>. QED BY <1>5, <1>6 DEF Rung, Calls!Next

\* transition_status closes a call, or only acknowledges it.
LEMMA AnswerCloses ==
    ASSUME IInv, IInv', NEW p \in Procs, TransitionCommit(p)
    PROVE  Rung
<1>. TypeOK
  BY DEF IInv
<1>1. PICK r \in Requests, to \in {"ACKNOWLEDGED", "COMPLETED", "DISMISSED"} :
         r = job[p].request /\ to = job[p].to /\ request[r].status # "UNUSED"
  BY DEF TransitionCommit, IInv, HandlersOK, AnswerInHand
<1>2. PICK stamps :
         /\ stamps \in {{to}, {to, "ACKNOWLEDGED"}}
         /\ request' = [request EXCEPT ![r].status = to, ![r].stamps = @ \cup stamps]
  BY <1>1 DEF TransitionCommit
<1>3. /\ \A q \in Requests \ {r} : request'[q] = request[q]
      /\ request'[r].status = to /\ request'[r].stamps = request[r].stamps \cup stamps
      /\ request'[r].table = request[r].table /\ request'[r].type = request[r].type
      /\ request'[r].created = request[r].created
      /\ request'[r].escalated = request[r].escalated
  BY <1>2 DEF TypeOK, Request
<1>4. UNCHANGED <<now, escalations>>
  BY DEF TransitionCommit
<1>5. CASE to = "ACKNOWLEDGED"
  <2>1. CallState(r)' = CallState(r)
    BY <1>1, <1>2, <1>3, <1>5 DEF CallState, Closed
  <2>2. CallOf(r)' = CallOf(r)
    BY <1>3, <1>4, <2>1 DEF CallOf
  <2>3. calls' = calls
    BY <1>3, <1>4, <2>2, SameCall, SameCalls
  <2>. QED BY <1>4, <2>3, Zenon DEF Rung
<1>6. CASE to \in {"COMPLETED", "DISMISSED"}
  <2>1. Closed(r)'
    BY <1>2, <1>3, <1>6 DEF Closed
  <2>. DEFINE rows == {r}
  <2>2. /\ rows \in SUBSET Requests
        /\ \A q \in Requests \ rows : request'[q] = request[q]
        /\ \A q \in rows :
              /\ request[q].status # "UNUSED" /\ Closed(q)'
              /\ request'[q].table = request[q].table /\ request'[q].type = request[q].type
              /\ request'[q].created = request[q].created
              /\ request'[q].escalated = request[q].escalated
    BY <1>1, <1>3, <2>1
  <2>. HIDE DEF rows
  <2>. QED BY <1>4, <2>2, RowsClose
<1>. QED BY <1>5, <1>6

\* A settlement closes the live calls of its table.
LEMMA DismissCloses ==
    ASSUME IInv, IInv', NEW t \in Tables, SettlementDismiss(t)
    PROVE  Rung
<1>. TypeOK
  BY DEF IInv
<1>1. PICK rows \in SUBSET Requests :
         /\ rows = {r \in Requests : Active(r) /\ request[r].table = t}
         /\ request' = [r \in Requests |-> IF r \in rows
               THEN [request[r] EXCEPT !.status = "DISMISSED", !.stamps = @ \cup {"DISMISSED"}]
               ELSE request[r]]
  BY DEF SettlementDismiss
<1>2. \A r \in rows :
         /\ request'[r].stamps = request[r].stamps \cup {"DISMISSED"}
         /\ request'[r].table = request[r].table /\ request'[r].type = request[r].type
         /\ request'[r].created = request[r].created
         /\ request'[r].escalated = request[r].escalated
         /\ request[r].status # "UNUSED"
  BY <1>1 DEF Active, ActiveStatuses, TypeOK, Request
<1>3. \A r \in Requests \ rows : request'[r] = request[r]
  BY <1>1
<1>4. UNCHANGED <<now, escalations>>
  BY DEF SettlementDismiss
<1>. QED BY <1>2, <1>3, <1>4, RowsClose DEF Closed

\* A scan that commits escalates calls that are live, overdue and not escalated yet.
LEMMA ScanEscalates ==
    ASSUME IInv, TimesOK, NEW p \in Procs, EscalateCommit(p)
    PROVE  Rung
<1>. TypeOK
  BY DEF IInv
<1>1. PICK overdue \in SUBSET Requests :
         /\ overdue = job[p].overdue
         /\ \A r \in overdue : /\ request[r].status = "PENDING" /\ ~request[r].escalated
                               /\ \E threshold \in Thresholds : now >= request[r].created + threshold
         /\ request' = [r \in Requests |-> IF r \in overdue
                           THEN [request[r] EXCEPT !.escalated = TRUE] ELSE request[r]]
  BY DEF EscalateCommit, IInv, HandlersOK, EscalateInHand, TypeOK, Job
<1>2. UNCHANGED <<now, escalations>>
  BY DEF EscalateCommit
<1>3. \A r \in overdue : /\ calls[r].state = "live" /\ ~calls[r].escalated
                         /\ \E threshold \in Thresholds : now >= calls[r].at + threshold
  <2>1. \A r \in overdue : ~Closed(r)
    BY <1>1 DEF TimesOK, Closed
  <2>. QED BY <1>1, <2>1, CallRow, CallStates
<1>4. \A r \in overdue : CallOf(r)' = [calls[r] EXCEPT !.escalated = TRUE]
  <2>. SUFFICES ASSUME NEW r \in overdue
                PROVE  CallOf(r)' = [calls[r] EXCEPT !.escalated = TRUE]
    OBVIOUS
  <2>1. /\ request'[r].status = request[r].status /\ request'[r].stamps = request[r].stamps
        /\ request'[r].table = request[r].table /\ request'[r].type = request[r].type
        /\ request'[r].created = request[r].created /\ request'[r].escalated = TRUE
    BY <1>1 DEF TypeOK, Request
  <2>2. CallState(r)' = CallState(r)
    BY <2>1 DEF CallState, Closed
  <2>3. CallOf(r)' = [state |-> CallState(r), table |-> request[r].table,
                      type |-> request[r].type, at |-> request[r].created,
                      escalated |-> TRUE, announced |-> escalations[r]]
    <3>1. escalations'[r] = escalations[r]
      BY <1>2
    <3>. QED BY <2>1, <2>2, <3>1, Zenon DEF CallOf
  <2>. QED BY <2>3, CallUpdates, Zenon
<1>5. \A r \in Requests \ overdue : CallOf(r)' = CallOf(r)
  BY <1>1, <1>2, SameCall
<1>6. calls' = [r \in Requests |-> IF r \in overdue THEN [calls[r] EXCEPT !.escalated = TRUE]
                                   ELSE calls[r]]
  <2>1. calls' = [r \in Requests |-> CallOf(r)']
    BY DEF calls
  <2>2. \A r \in Requests : CallOf(r) = calls[r]
    BY DEF calls
  <2>. QED BY <1>4, <1>5, <2>1, <2>2
<1>7. Calls!Escalate(overdue)
  BY <1>2, <1>3, <1>6 DEF Calls!Escalate, calls
<1>. QED BY <1>7 DEF Rung, Calls!Next

\* A publication announces a call that is escalated and was not announced.
LEMMA PublishAnnounces ==
    ASSUME IInv, EscalationsOK, NEW p \in Procs, NEW r \in Requests, EscalatePublish(p, r)
    PROVE  Rung
<1>. TypeOK
  BY DEF IInv
<1>1. /\ escalations' = [escalations EXCEPT ![r] = @ + 1] /\ UNCHANGED <<now, request>>
      /\ Publishes(p, r)
  BY DEF EscalatePublish, Publishes
<1>2. request[r].escalated /\ escalations[r] = 0
  BY <1>1 DEF EscalationsOK, Marked
<1>3. escalations'[r] = 1 /\ \A q \in Requests \ {r} : escalations'[q] = escalations[q]
  BY <1>1, <1>2 DEF TypeOK
<1>4. CallOf(r)' = [calls[r] EXCEPT !.announced = 1]
  <2>1. CallState(r)' = CallState(r)
    BY <1>1 DEF CallState, Closed
  <2>. QED BY <1>1, <1>3, <2>1 DEF calls, CallOf
<1>5. \A q \in Requests \ {r} : CallOf(q)' = CallOf(q)
  BY <1>1, <1>3, SameCall
<1>6. calls' = [calls EXCEPT ![r].announced = 1]
  BY <1>4, <1>5, CallChanged
<1>7. Calls!Announce(r)
  BY <1>1, <1>2, <1>6, CallRow DEF Calls!Announce, calls
<1>. QED BY <1>7 DEF Rung, Calls!Next

\* Every step of handlers, scans, settlements and the clock is one of CallBell, or none.
LEMMA NextRung ==
    ASSUME IInv, IInv', EscalationsOK, TimesOK, [Next]_vars
    PROVE  Rung
<1>1. ASSUME NEW p \in Procs, Begin(p) \/ Scan(p) \/ Abort(p) \/ CreateCheck(p) \/ CreateReject(p)
      PROVE  UNCHANGED <<now, request, escalations>>
  BY <1>1 DEF Begin, CreateBegin, TransitionRead, Scan, EscalateSelect, Abort, CreateCheck,
              CreateReject
<1>2. CASE Tick
  <2>1. now' = now + 1 /\ UNCHANGED <<request, escalations>>
    BY <1>2 DEF Tick
  <2>2. calls' = calls
    BY <2>1, SameCall, SameCalls
  <2>3. Calls!Tick
    BY <2>1, <2>2 DEF Calls!Tick, calls
  <2>. QED BY <2>3 DEF Rung, Calls!Next
<1>3. CASE UNCHANGED vars
  BY <1>3, QuietCalls DEF vars
<1>. QED BY <1>1, <1>2, <1>3, QuietCalls, CreateRings, AnswerCloses, DismissCloses,
            ScanEscalates, PublishAnnounces DEF Next, Proceed

\* The handlers of create_request and transition_status, settlements and the scans of any
\* number of workers treat calls as CallBell does: a table rings for a thing when its last
\* call for it is closed and cooled down, only live calls are escalated, each is announced
\* once at most, and none comes back to life.
THEOREM CallsRefine == Spec => ImplementsCallBell
<1>1. Init => EscalationsOK /\ TimesOK /\ Calls!Init
  <2>. SUFFICES ASSUME Init PROVE EscalationsOK /\ TimesOK /\ Calls!Init
    BY DEF Init
  <2>1. EscalationsOK
    BY DEF Init, EscalationsOK, Marked, Publishes, NoRequest
  <2>2. TimesOK
    BY DEF Init, TimesOK, NoRequest, NoJob
  <2>3. \A r \in Requests : CallOf(r) = Calls!NoCall
    BY DEF Init, CallOf, CallState, NoRequest, Calls!NoCall
  <2>. QED BY <2>1, <2>2, <2>3 DEF Init, Calls!Init
<1>2. IInv /\ IInv' /\ EscalationsOK /\ TimesOK /\ [Next]_vars
         => EscalationsOK' /\ TimesOK' /\ [Calls!Next]_<<now, calls>>
  <2>. SUFFICES ASSUME IInv, IInv', EscalationsOK, TimesOK, [Next]_vars
                PROVE  EscalationsOK' /\ TimesOK' /\ [Calls!Next]_<<now, calls>>
    OBVIOUS
  <2>1. EscalationsOK'
    BY HandlersDoNotPublish, CommitMarks, PublishOnce, EscalationsStay DEF Next, Proceed
  <2>2. Rung
    BY NextRung
  <2>. QED BY <2>1, <2>2, NextTimes DEF Rung
<1>. QED BY <1>1, <1>2, InvariantHolds, PTL DEF Spec, ImplementsCallBell, Calls!Spec, calls
=============================================================================
