---------------------------- MODULE Connections ----------------------------
(***************************************************************************)
(* routes/connections.py and routes/blocks.py, with the connection part of *)
(* the maintenance job and of the account deletion: how a session between  *)
(* two agents comes about.                                                 *)
(*                                                                         *)
(* A handler runs its queries one by one, at READ COMMITTED, and commits   *)
(* in the end; between two of its queries other handlers commit.  Only the *)
(* unique constraints of sessions and blocks are checked by the commit.    *)
(* Every agent has an intent to connect from and to; that of a deleted one *)
(* may have outlived it (Intents), and is not told from any other.         *)
(***************************************************************************)
EXTENDS Integers, FiniteSets

CONSTANTS
    Agents,
    Requests,       \* rows of connection_requests: bounds their number
    Calls,          \* API calls the server works on at a time
    None,           \* "no agent", "no request"
    PendingLimit,   \* the 20 of create_connection
    DayLimit,       \* the 50 of create_connection
    Ops             \* operations the environment uses

ASSUME NoneAssumption == None \notin Agents \cup Requests

AllOps == {"connect", "accept", "reject", "cancel", "block", "delete"}

ASSUME LimitAssumption ==
    /\ PendingLimit \in Nat \ {0}
    /\ DayLimit \in Nat \ {0}
    /\ Ops \subseteq AllOps

ASSUME FiniteAssumption == IsFiniteSet(Requests) /\ IsFiniteSet(Calls)

VARIABLES
    requests,   \* connection_requests
    sessions,   \* by request: the sessions row accept_connection inserted
    blocks,     \* blocks, as pairs <<blocker, blocked>>
    calls,      \* API calls in progress
    gone,       \* agents whose account is deleted
    sentTotal   \* connection_requests_sent_total of each agent

vars == <<requests, sessions, blocks, calls, gone, sentTotal>>

----------------------------------------------------------------------------
\* Rejected by the recipient, or cancelled by the sender: refused.
Answers == {"accepted", "refused", "expired"}

\* age: created within a day, within REQUEST_TTL (72h), or before.
RequestRow ==
    [status : {"absent", "pending"} \cup Answers,
     from : Agents \cup {None}, to : Agents \cup {None},
     age : {"today", "earlier", "due"}]

NoRequest == [status |-> "absent", from |-> None, to |-> None, age |-> "today"]

\* What a call has read so far: seen is the sender's sent total, fresh whether
\* there was no block yet, closing the open sessions a block is to close.
Call ==
    [op : {"none", "connect", "accept", "reject", "cancel", "block"},
     phase : {"idle", "checked", "counted", "allowed", "read"},
     by : Agents \cup {None}, to : Agents \cup {None},
     req : Requests \cup {None}, seen : Nat, fresh : BOOLEAN,
     closing : SUBSET Requests]

NoCall ==
    [op |-> "none", phase |-> "idle", by |-> None, to |-> None, req |-> None,
     seen |-> 0, fresh |-> FALSE, closing |-> {}]

Idle(k) == calls[k].phase = "idle"

\* The call is answered, with or without an error.
Done(k) == [calls EXCEPT ![k] = NoCall]

Pair(r) == {requests[r].from, requests[r].to}

\* has_block_between; two rows are as good as one, the handler then fails.
Blocked(a, b) == <<a, b>> \in blocks \/ <<b, a>> \in blocks

\* count_pending_outbound.
Outstanding(a) ==
    {r \in Requests : /\ requests[r].status = "pending"
                      /\ requests[r].from = a
                      /\ requests[r].age # "due"}

\* count_requests_sent_since yesterday.
SentToday(a) ==
    {r \in Requests : /\ requests[r].status # "absent"
                      /\ requests[r].from = a
                      /\ requests[r].age = "today"}

Init ==
    /\ requests = [r \in Requests |-> NoRequest]
    /\ sessions = [r \in Requests |-> "none"]
    /\ blocks = {}
    /\ calls = [k \in Calls |-> NoCall]
    /\ gone = {}
    /\ sentTotal = [a \in Agents |-> 0]

----------------------------------------------------------------------------
(* POST /connect.  A call that fails changes nothing.                   *)

CheckConnect(k, a, b) ==
    /\ Idle(k)
    /\ "connect" \in Ops
    /\ a # b
    /\ a \notin gone
    /\ ~Blocked(a, b)
    /\ calls' = [calls EXCEPT
                   ![k] = [NoCall EXCEPT !.op = "connect", !.phase = "checked",
                                         !.by = a, !.to = b,
                                         !.seen = sentTotal[a]]]
    /\ UNCHANGED <<requests, sessions, blocks, gone, sentTotal>>

\* Mutant of BelowPendingLimit: one request too many.
AtPendingLimit(a) == Cardinality(Outstanding(a)) <= PendingLimit

BelowPendingLimit(a) == Cardinality(Outstanding(a)) < PendingLimit

\* Mutant of CountPending: a request that is refused counts as sent.
CountRefused(k) ==
    /\ calls[k].phase = "checked"
    /\ IF BelowPendingLimit(calls[k].by)
       THEN /\ calls' = [calls EXCEPT ![k].phase = "counted"]
            /\ UNCHANGED sentTotal
       ELSE /\ calls' = Done(k)
            /\ sentTotal' = [sentTotal EXCEPT ![calls[k].by] = calls[k].seen + 1]
    /\ UNCHANGED <<requests, sessions, blocks, gone>>

CountPending(k) ==
    /\ calls[k].phase = "checked"
    /\ calls' = IF BelowPendingLimit(calls[k].by)
                THEN [calls EXCEPT ![k].phase = "counted"] ELSE Done(k)
    /\ UNCHANGED <<requests, sessions, blocks, gone, sentTotal>>

\* Mutant of BelowDayLimit: every request counts only for the pending limit.
AnyDayLoad(a) == TRUE

BelowDayLimit(a) == Cardinality(SentToday(a)) < DayLimit

CountToday(k) ==
    /\ calls[k].phase = "counted"
    /\ calls' = IF BelowDayLimit(calls[k].by)
                THEN [calls EXCEPT ![k].phase = "allowed"] ELSE Done(k)
    /\ UNCHANGED <<requests, sessions, blocks, gone, sentTotal>>

\* The counter is written as read plus one.
CommitConnect(k) ==
    /\ calls[k].phase = "allowed"
    /\ \E r \in Requests :
          /\ requests[r].status = "absent"
          /\ requests' = [requests EXCEPT
                            ![r] = [status |-> "pending", from |-> calls[k].by,
                                    to |-> calls[k].to, age |-> "today"]]
    /\ sentTotal' = [sentTotal EXCEPT ![calls[k].by] = calls[k].seen + 1]
    /\ calls' = Done(k)
    /\ UNCHANGED <<sessions, blocks, gone>>

----------------------------------------------------------------------------
(* POST /connect/{id}/accept, /reject and /cancel.                         *)

\* Mutant of MayAct: whoever is a party of the request.
EitherMayAct(op, r, a) ==
    /\ requests[r].status = "pending"
    /\ a \in Pair(r)
    /\ op = "accept" => requests[r].age # "due"

MayAct(op, r, a) ==
    /\ requests[r].status = "pending"
    /\ \/ op = "accept" /\ requests[r].to = a /\ requests[r].age # "due"
       \/ op = "reject" /\ requests[r].to = a
       \/ op = "cancel" /\ requests[r].from = a

ReadRequest(k, op, r, a) ==
    /\ Idle(k)
    /\ op \in Ops
    /\ a \notin gone
    /\ MayAct(op, r, a)
    /\ calls' = [calls EXCEPT
                   ![k] = [NoCall EXCEPT !.op = op, !.phase = "read",
                                         !.by = a, !.req = r]]
    /\ UNCHANGED <<requests, sessions, blocks, gone, sentTotal>>

Ready(k, op) == calls[k].phase = "read" /\ calls[k].op = op

\* Mutant of HasNoSession: sessions.connection_request_id is not unique.
MayHaveSession(r) == TRUE

HasNoSession(r) == sessions[r] = "none"

CommitAccept(k) ==
    LET r == calls[k].req
    IN  /\ Ready(k, "accept")
        /\ HasNoSession(r)
        /\ requests' = [requests EXCEPT ![r].status = "accepted"]
        /\ sessions' = [sessions EXCEPT ![r] = "open"]
        /\ calls' = Done(k)
        /\ UNCHANGED <<blocks, gone, sentTotal>>

\* The second of two accepts violates the unique key and is rolled back.
AcceptConflicts(k) ==
    /\ Ready(k, "accept")
    /\ ~HasNoSession(calls[k].req)
    /\ calls' = Done(k)
    /\ UNCHANGED <<requests, sessions, blocks, gone, sentTotal>>

\* update_request_status writes the status whatever it has become.
CommitAnswer(k) ==
    /\ Ready(k, "reject") \/ Ready(k, "cancel")
    /\ requests' = [requests EXCEPT ![calls[k].req].status = "refused"]
    /\ calls' = Done(k)
    /\ UNCHANGED <<sessions, blocks, gone, sentTotal>>

----------------------------------------------------------------------------
(* Blocks.                                                                 *)

\* upsert_block and close_sessions_between read the block and the sessions.
\* The target may be deleted.
ReadForBlock(k, a, b) ==
    /\ Idle(k)
    /\ "block" \in Ops
    /\ a # b
    /\ a \notin gone
    /\ calls' = [calls EXCEPT
                   ![k] = [NoCall EXCEPT
                             !.op = "block", !.phase = "read", !.by = a, !.to = b,
                             !.fresh = <<a, b>> \notin blocks,
                             !.closing = {r \in Requests : /\ sessions[r] = "open"
                                                           /\ Pair(r) = {a, b}}]]
    /\ UNCHANGED <<requests, sessions, blocks, gone, sentTotal>>

\* Mutant of Closed: the status of a request written to the session.
Expired(rs) == [r \in Requests |-> IF r \in rs THEN "expired" ELSE sessions[r]]

Closed(rs) == [r \in Requests |-> IF r \in rs THEN "closed" ELSE sessions[r]]

\* A fresh block is inserted, an old one keeps its row.
CommitBlock(k) ==
    LET pair == <<calls[k].by, calls[k].to>>
    IN  /\ Ready(k, "block")
        /\ calls[k].fresh => pair \notin blocks
        /\ blocks' = IF calls[k].fresh THEN blocks \cup {pair} ELSE blocks
        /\ sessions' = Closed(calls[k].closing)
        /\ calls' = Done(k)
        /\ UNCHANGED <<requests, gone, sentTotal>>

\* The pair was inserted meanwhile, or the row to update was deleted: all is
\* rolled back.
BlockConflicts(k) ==
    /\ Ready(k, "block")
    /\ calls[k].fresh <=> <<calls[k].by, calls[k].to>> \in blocks
    /\ calls' = Done(k)
    /\ UNCHANGED <<requests, sessions, blocks, gone, sentTotal>>

Unblock(a, b) ==
    /\ a \notin gone
    /\ <<a, b>> \in blocks
    /\ blocks' = blocks \ {<<a, b>>}
    /\ UNCHANGED <<requests, sessions, calls, gone, sentTotal>>

----------------------------------------------------------------------------
(* The rest.                                                               *)

\* The session has its own life, modelled in SessionSystem.
SessionEnds(r) ==
    /\ sessions[r] = "open"
    /\ sessions' = Closed({r})
    /\ UNCHANGED <<requests, blocks, calls, gone, sentTotal>>

\* Its activation, or a step of its match, overwrites a close.
SessionReopens(r) ==
    /\ sessions[r] = "closed"
    /\ sessions' = [sessions EXCEPT ![r] = "open"]
    /\ UNCHANGED <<requests, blocks, calls, gone, sentTotal>>

\* Pending requests, to and from the agent, are left as they are.  A counter that
\* was zero when the agent was read is not written.
DeleteAccount(a) ==
    /\ "delete" \in Ops
    /\ a \notin gone
    /\ gone' = gone \cup {a}
    /\ blocks' = {p \in blocks : a \notin {p[1], p[2]}}
    /\ sessions' = Closed({r \in Requests : /\ sessions[r] = "open"
                                            /\ a \in Pair(r)})
    /\ sentTotal' \in {[sentTotal EXCEPT ![a] = 0], sentTotal}
    /\ UNCHANGED <<requests, calls>>

Age(r) ==
    /\ requests[r].status # "absent"
    /\ requests[r].age # "due"
    /\ requests' = [requests EXCEPT
                      ![r].age = IF @ = "today" THEN "earlier" ELSE "due"]
    /\ UNCHANGED <<sessions, blocks, calls, gone, sentTotal>>

\* Mutant of Overdue: whatever became of the request.
OverdueAnyhow(r) == requests[r].status # "absent" /\ requests[r].age = "due"

Overdue(r) == requests[r].status = "pending" /\ requests[r].age = "due"

\* One UPDATE statement of run_maintenance.
ExpireRequests ==
    /\ \E r \in Requests : Overdue(r)
    /\ requests' = [r \in Requests |->
                      IF Overdue(r) THEN [requests[r] EXCEPT !.status = "expired"]
                      ELSE requests[r]]
    /\ UNCHANGED <<sessions, blocks, calls, gone, sentTotal>>

----------------------------------------------------------------------------
CallStep(k) ==
    \/ CountPending(k)
    \/ CountToday(k)
    \/ CommitConnect(k)
    \/ CommitAccept(k)
    \/ AcceptConflicts(k)
    \/ CommitAnswer(k)
    \/ CommitBlock(k)
    \/ BlockConflicts(k)

NewCall(k) ==
    \/ \E a, b \in Agents : CheckConnect(k, a, b) \/ ReadForBlock(k, a, b)
    \/ \E op \in {"accept", "reject", "cancel"}, r \in Requests, a \in Agents :
          ReadRequest(k, op, r, a)

Next ==
    \/ \E k \in Calls : NewCall(k) \/ CallStep(k)
    \/ \E a, b \in Agents : Unblock(a, b)
    \/ \E r \in Requests : SessionEnds(r) \/ SessionReopens(r) \/ Age(r)
    \/ \E a \in Agents : DeleteAccount(a)
    \/ ExpireRequests

Spec == Init /\ [][Next]_vars

----------------------------------------------------------------------------
(* Properties.                                                             *)

\* Every variable holds what the code's types allow, and a call that works has
\* its agents and its request.
TypeOK ==
    /\ requests \in [Requests -> RequestRow]
    /\ sessions \in [Requests -> {"none", "open", "closed"}]
    /\ blocks \subseteq Agents \X Agents
    /\ calls \in [Calls -> Call]
    /\ gone \subseteq Agents
    /\ sentTotal \in [Agents -> Nat]
    /\ \A k \in Calls :
          /\ ~Idle(k) => calls[k].by \in Agents
          /\ calls[k].op \in {"connect", "block"} => calls[k].to \in Agents
          /\ calls[k].op \in {"accept", "reject", "cancel"} =>
                calls[k].req \in Requests

\* Calls of a that have passed their checks up to one of these phases.
Passing(a, phases) ==
    {k \in Calls : calls[k].by = a /\ calls[k].phase \in phases}

\* Calls that count at the same time exceed the limit of pending requests by
\* less than their number, even when all that passed have inserted, and however
\* answers and expiry interleave with them (routes/connections.py,
\* create_connection).
PendingNearLimit ==
    \A a \in Agents :
        Cardinality(Outstanding(a)) + Cardinality(Passing(a, {"counted", "allowed"}))
        < PendingLimit + Cardinality(Calls)

\* The same for the requests of a day.
TodayNearLimit ==
    \A a \in Agents :
        Cardinality(SentToday(a)) + Cardinality(Passing(a, {"allowed"}))
        < DayLimit + Cardinality(Calls)

From(a) ==
    {r \in Requests : requests[r].status # "absent" /\ requests[r].from = a}

\* An agent is never billed more requests than it sent, although concurrent
\* connects write back a total that another has moved, and a deletion resets it
\* under them (routes/connections.py, create_connection_request).
SentNotOvercounted == \A a \in Agents : sentTotal[a] <= Cardinality(From(a))

\* A request that is still open, or that ran out, has no session, and one that
\* was accepted for good has one (accept_connection_request, run_maintenance).
SessionFitsRequest ==
    \A r \in Requests :
        /\ requests[r].status \in {"absent", "pending", "expired"} =>
              sessions[r] = "none"
        /\ requests[r].status = "accepted" => sessions[r] # "none"

\* However often a request is accepted, its session opens once: no answer opens
\* it again after it was closed (models.py, the unique connection_request_id).
OpenedOnce ==
    [][\A r \in Requests :
          sessions[r] = "closed" /\ sessions'[r] = "open"
          => UNCHANGED <<requests, calls>>]_vars

\* Calls that have read r and are to answer it.
Answering(r) ==
    {k \in Calls : /\ calls[k].op \in {"accept", "reject", "cancel"}
                   /\ calls[k].req = r}

\* A request can be answered twice, but only by calls that were in progress at
\* the first answer: once they are gone the answer stands, and nobody starts
\* to answer it again (routes/connections.py, jobs.py).
AnswerStands ==
    [][\A r \in Requests :
          requests[r].status \in Answers /\ Answering(r) = {}
          => requests'[r].status = requests[r].status /\ Answering(r)' = {}]_vars

\* Requests whose recipient is about to accept.
Willing ==
    {r \in Requests : \E k \in Calls : /\ Ready(k, "accept")
                                       /\ calls[k].req = r
                                       /\ calls[k].by = requests[r].to}

Intro ==
    INSTANCE Introduction WITH
        asker <- [r \in Requests |-> requests[r].from],
        asked <- [r \in Requests |-> requests[r].to],
        willing <- Willing, session <- sessions

\* The routes introduce agents as Introduction promises: a session opens for a
\* request between two agents that keeps its parties, by the will of the one
\* that was asked (routes/connections.py, accept_connection).
IntroSpec == Intro!Spec
=============================================================================
