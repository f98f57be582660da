--------------------------- MODULE SessionService ---------------------------
(***************************************************************************)
(* verify_presence_and_issue_session of app/services/session_service.py:   *)
(* a QR scan occupies a free table or joins the diners already there.      *)
(***************************************************************************)
EXTENDS BranchDatabase

\* The scan reads the table without a lock and decides, from that read, whether
\* it occupies a free table, rebinds one without a token, or joins its diners.
VerifyPresenceRead(p, t, verified) ==
    LET mode == IF table[t].status = "AVAILABLE" THEN "occupy"
                ELSE IF table[t].token = None THEN "rebind" ELSE "join"
    IN  /\ pc[p] = "idle"
        /\ \E sid \in IF mode = "join" THEN {table[t].token} ELSE FreshSessions :
              Goto(p, "verify", [NoJob EXCEPT !.table = t, !.sid = sid,
                                              !.verified = verified, !.seen = mode])
        /\ UNCHANGED <<rows, guests, dispatched, tableLock, orderLock>>

\* Only the attributes it assigned are written, and an UPDATE waits for the row.
VerifyPresenceCommit(p) ==
    LET t == job[p].table
    IN  /\ pc[p] = "verify"
        /\ job[p].seen # "join" => TableFree(t)
        /\ table' = [table EXCEPT
              ![t].status = IF job[p].seen = "occupy" THEN "BROWSING" ELSE @,
              ![t].token  = IF job[p].seen = "join" THEN @ ELSE job[p].sid]
        /\ guests' = guests \cup
              {[sid |-> job[p].sid, table |-> t, verified |-> job[p].verified]}
        /\ Return(p)
        /\ UNCHANGED <<order, item, payment, collected, called, dispatched,
                       tableLock, orderLock>>

-----------------------------------------------------------------------------
SessionBegin(p) ==
    \E t \in Tables, verified \in BOOLEAN : VerifyPresenceRead(p, t, verified)

SessionProceed(p) == VerifyPresenceCommit(p)
=============================================================================
