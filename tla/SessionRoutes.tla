--------------------------- MODULE SessionRoutes ---------------------------
(***************************************************************************)
(* routes/matches.py, routes/sessions.py, routes/blocks.py and             *)
(* routes/agents.py as far as they touch a session, and the session part   *)
(* of the maintenance job.                                                 *)
(*                                                                         *)
(* A REST handler reads the row, checks it, and commits in a later step:   *)
(* the row is neither locked nor checked again (READ COMMITTED, no version *)
(* column), and the commit writes the columns the handler assigned.  The   *)
(* maintenance job and the account deletion are single UPDATE statements.  *)
(***************************************************************************)
EXTENDS Relay

----------------------------------------------------------------------------
(* The checks of each handler.  A request that fails them, or that finds   *)
(* its work already done, is answered and changes nothing.                 *)

\* Mutant of MayPropose: a session that nobody proposed in, whatever it is.
MayProposeAnew(r) == r.proposer = None

MayPropose(r) == r.status = "active"

\* Mutant of MayAnswer: the proposer may answer its own proposal.
AnyoneMayAnswer(r, m) == r.status = "match_proposed" /\ r.proposer # None

MayAnswer(r, m) ==
    /\ r.status = "match_proposed"
    /\ r.proposer # None
    /\ r.proposer # m

StillOpen(r) == r.status # "closed"

Admits(op, m) ==
    \/ op = "propose" /\ MayPropose(row)
    \/ op \in {"accept", "reject"} /\ MayAnswer(row, m)
    \/ op \in {"end", "block"} /\ StillOpen(row)

ReadRow(q, op, m) ==
    /\ req[q].phase = "idle"
    /\ op \in Ops
    /\ m \notin gone
    /\ Admits(op, m)
    /\ req' = [req EXCEPT ![q] = [op |-> op, by |-> m, phase |-> "read"]]
    /\ UNCHANGED <<row, memVars, lockVars, conn, history, environment>>

----------------------------------------------------------------------------
(* The commits.                                                            *)

Ready(q, op) == req[q].phase = "read" /\ req[q].op = op

\* The match_proposed event that follows changes nothing, even if it fails.
CommitPropose(q) ==
    /\ Ready(q, "propose")
    /\ row' = [row EXCEPT !.status = "match_proposed", !.proposer = req[q].by]
    /\ assent' = assent \cup {req[q].by}
    /\ req' = Answered(q)
    /\ UNCHANGED <<memVars, lockVars, conn, sent, rcvd, environment>>

\* The handoff window replaces whatever deadline the row had.
CommitAccept(q) ==
    /\ Ready(q, "accept")
    /\ row' = [row EXCEPT !.status = "match_confirmed",
                          !.expires_in = HandoffWindow]
    /\ assent' = assent \cup {req[q].by}
    /\ req' = Continues(q, "emitting")
    /\ UNCHANGED <<memVars, lockVars, conn, sent, rcvd, environment>>

CommitReject(q) ==
    /\ Ready(q, "reject")
    /\ row' = [row EXCEPT !.status = "active", !.proposer = None]
    /\ req' = Answered(q)
    /\ UNCHANGED <<memVars, lockVars, conn, history, environment>>

\* close_session, and close_sessions_between.
CloseReason(op) == IF op = "end" THEN "ended_by_agent" ELSE "blocked"

CommitClose(q) ==
    /\ Ready(q, "end") \/ Ready(q, "block")
    /\ row' = ClosedRow(row, CloseReason(req[q].op))
    /\ req' = Continues(q, "ending")
    /\ UNCHANGED <<memVars, lockVars, conn, history, environment>>

----------------------------------------------------------------------------
(* What follows the commit.                                                *)

\* emit_to_session reached every socket; the handoff timer is set.
AcceptSchedules(q) ==
    /\ req[q].phase = "emitting"
    /\ ScheduleHandoffClose
    /\ req' = Answered(q)
    /\ UNCHANGED <<row, sockets, buffers, lockVars, conn, history, environment>>

\* A send to a dead socket raises: the handler fails before it sets the timer.
AcceptFails(q) ==
    /\ req[q].phase = "emitting"
    /\ \E c \in Registered : ~conn[c].live
    /\ req' = Answered(q)
    /\ UNCHANGED <<row, memVars, lockVars, conn, history, environment>>

\* SessionManager.end_session with a state.
RequestEnds(q) ==
    /\ req[q].phase = "ending"
    /\ EnterEnd(q, CloseReason(req[q].op))
    /\ UNCHANGED <<row, sockets, buffers, orphan, conn, req, history,
                   environment>>

\* Mutant of EndRequestIsMoot: a request that finds the state closed waits.
EndRequestWaits(q) ==
    /\ req[q].phase = "ending"
    /\ EndIsMoot
    /\ UNCHANGED vars

EndRequestIsMoot(q) ==
    /\ req[q].phase = "ending"
    /\ EndIsMoot
    /\ req' = Answered(q)
    /\ UNCHANGED <<row, memVars, lockVars, conn, history, environment>>

\* Without a state, end_session closes the row again; block_agent asks
\* has_session first and does nothing.
RequestEndsRow(q) ==
    /\ req[q].phase = "ending"
    /\ ~state.loaded
    /\ row' = IF req[q].op = "end" THEN ClosedRow(row, "ended_by_agent") ELSE row
    /\ req' = Answered(q)
    /\ UNCHANGED <<memVars, lockVars, conn, history, environment>>

----------------------------------------------------------------------------
(* Single statements on the row.  The relay is not told.                   *)

DeleteAccount(m) ==
    /\ "delete" \in Ops
    /\ m \notin gone
    /\ gone' = gone \cup {m}
    /\ row' = IF StillOpen(row) THEN ClosedRow(row, "account_deleted") ELSE row
    /\ UNCHANGED <<memVars, lockVars, conn, req, history, restarts, faults>>

DeadlineReason(status) ==
    CASE status = "awaiting_join" -> "awaiting_join_expired"
      [] status \in {"active", "match_proposed"} -> "time_limit_reached"
      [] status = "match_confirmed" -> "handoff_complete"

\* Mutant of Expired: only rows that await their members expire.
ExpiredUnjoined(r) == r.status = "awaiting_join" /\ r.expires_in = 0

Expired(r) == StillOpen(r) /\ r.expires_in = 0

RunMaintenance ==
    /\ Expired(row)
    /\ row' = ClosedRow(row, DeadlineReason(row.status))
    /\ UNCHANGED <<memVars, lockVars, conn, req, history, environment>>
=============================================================================
