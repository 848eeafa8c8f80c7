--------------------------- MODULE SessionSystem ---------------------------
(***************************************************************************)
(* A session: the relay, the REST handlers, the maintenance job, time and  *)
(* restarts, interleaved.                                                  *)
(***************************************************************************)
EXTENDS SessionRoutes

\* Steps of the handler of connection c that the server takes by itself.
HandlerStep(c) ==
    \/ Join(c)
    \/ SkipActivation(c)
    \/ ReadForActivation(c)
    \/ CommitActivation(c)
    \/ SendReady(c)
    \/ FailReady(c)
    \/ FlushNext(c)
    \/ FlushDone(c)
    \/ HearDisconnect(c)
    \/ Disconnect(c)
    \/ CapEnds(c)
    \/ CapIsMoot(c)

\* Steps that follow from what the client of c, or the network, does.
ClientStep(c) ==
    \/ \E m \in Members : AuthenticateHello(c, m)
    \/ RelayFrame(c)
    \/ BadFrame(c)
    \/ CapFrame(c)
    \/ ClientDrop(c)

EndStep == PersistClosed \/ NotifyEnded

TimerStep == MonitorDecides \/ MonitorEnds \/ HandoffFires

RequestStep(q) ==
    \/ CommitPropose(q)
    \/ CommitAccept(q)
    \/ CommitReject(q)
    \/ CommitClose(q)
    \/ AcceptSchedules(q)
    \/ AcceptFails(q)
    \/ RequestEnds(q)
    \/ EndRequestIsMoot(q)
    \/ RequestEndsRow(q)

NewRequest(q) == \E op \in AllOps, m \in Members : ReadRow(q, op, m)

Fault ==
    \/ \E c \in Conns : FailActivation(c) \/ FailFrame(c)
    \/ FailPersist
    \/ ServerRestart

Next ==
    \/ \E c \in Conns : HandlerStep(c) \/ ClientStep(c)
    \/ \E q \in Requests : NewRequest(q) \/ RequestStep(q)
    \/ \E m \in Members : DeleteAccount(m)
    \/ EndStep
    \/ TimerStep
    \/ \E t \in HandoffTasks : OrphanFires(t)
    \/ RunMaintenance
    \/ Tick
    \/ Fault

Spec == Init /\ [][Next]_vars

----------------------------------------------------------------------------
(* Fairness.  The event loop runs every handler that can go on, and        *)
(* asyncio.Lock serves its waiters in the order they came, so that a task  *)
(* that waits for the lock gets it although others take it in between:     *)
(* strong fairness for those.  Clients and failures owe nothing.           *)

WaitsForLock(c) == Join(c) \/ Disconnect(c) \/ CapEnds(c) \/ CapIsMoot(c)

Fairness ==
    /\ WF_vars(EndStep)
    /\ \A c \in Conns : WF_vars(HandlerStep(c)) /\ SF_vars(WaitsForLock(c))
    /\ \A q \in Requests : SF_vars(RequestStep(q))

FairSpec == Spec /\ Fairness

\* A server that starts on a row that awaits its members or that was activated
\* before.
StartedOn == row \in {NewRow, ActivatedRow(NewRow)} /\ ServerIdle

\* Only the clock and the maintenance job are sure to go on.
DurableSpec ==
    /\ StartedOn
    /\ [][Next]_vars
    /\ WF_vars(Tick)
    /\ WF_vars(RunMaintenance)

----------------------------------------------------------------------------
(* Type invariant.                                                         *)

RowOK == row \in SessionRow /\ row.message_count <= MessageCap

StateOK == state \in SessionState /\ state.message_count <= MessageCap

SocketsOK == sockets \in [Members -> Conns \cup {None}]

BuffersOK ==
    /\ buffers \in [Members -> Seq(Nat)]
    /\ \A m \in Members : Len(buffers[m]) <= BufferLimit

OrphanOK == orphan \in [HandoffTasks -> Nat \cup {Unset}]

LockOK ==
    /\ lock \in Holders \cup {None}
    /\ ending \in [phase : {"none", "persist", "notify"},
                   reason : Reasons \cup {None}]

ConnOK ==
    /\ conn \in [Conns -> Connection]
    /\ \A c \in Conns : conn[c].phase # "out" => conn[c].agent \in Members

HolderOK ==
    \A c \in Conns :
        lock = c => conn[c].phase \in {"activating", "committing", "capping"}

ReqOK ==
    /\ req \in [Requests -> Request]
    /\ \A q \in Requests : req[q].phase = "read" => req[q].by \in Members

HistoryOK ==
    /\ sent \in [Members -> Nat]
    /\ rcvd \in [Members -> Seq(Nat)]
    /\ assent \subseteq Members

EnvironmentOK == gone \subseteq Members /\ restarts \in Nat /\ faults \in Nat

\* Every variable holds what the code's types and limits allow; the buffer of
\* a sender stays within BUFFER_LIMIT and both counts within MESSAGE_CAP; a
\* handler that runs and a request that read the row belong to a member, and a
\* handler that holds the lock is where the code takes it.
TypeOK ==
    /\ RowOK
    /\ StateOK
    /\ SocketsOK
    /\ BuffersOK
    /\ OrphanOK
    /\ LockOK
    /\ ConnOK
    /\ HolderOK
    /\ ReqOK
    /\ HistoryOK
    /\ EnvironmentOK

----------------------------------------------------------------------------
(* Safety.                                                                 *)

\* The asyncio.Lock of relay.py protects what it is there for: an activation
\* and an end_session in progress belong to the one task that holds it, so
\* that a session is never started while it is being ended, nor twice at once.
LockDiscipline ==
    /\ \A c \in Conns :
          conn[c].phase \in {"activating", "committing"}
          => lock = c /\ ending.phase = "none"
    /\ ending.phase # "none" => lock # None /\ state.loaded /\ state.closed

\* Once a connection has flushed and receives frames, nothing for its agent
\* is left in a buffer: _flush_for_joined_agent runs outside the lock, and
\* still no frame stays behind that only a reconnect would bring.
NoneStranded ==
    \A m \in Members :
        LET c == sockets[m]
        IN  c # None /\ conn[c].phase = "loop" => buffers[Other(m)] = <<>>

\* A working connection that receives frames is the one its agent's frames go
\* to, whatever older connections of the agent are still on their way out:
\* the "is websocket" test of _disconnect, _join's replacement of a socket.
LoopIsRegistered ==
    \A c \in Conns :
        conn[c].phase = "loop" /\ conn[c].live => sockets[conn[c].agent] = c

Chan == INSTANCE Channel WITH pending <- buffers, delivered <- rcvd

\* The relay implements the at-most-once channel (relay.py).
ChannelSpec == Chan!Spec

\* No agent receives a frame twice, nor one that its counterparty did not send,
\* however its connections come and go during a flush (relay.py,
\* _flush_for_joined_agent).
FramesOnce == Chan!AtMostOnce

Stage ==
    CASE row.status = "awaiting_join" -> "waiting"
      [] row.status = "closed" -> "closed"
      [] OTHER -> "running"

Starting == {c \in Conns : conn[c].phase = "committing"}

Matching ==
    {q \in Requests : /\ req[q].phase = "read"
                      /\ req[q].op \in {"propose", "accept", "reject"}}

Life ==
    INSTANCE SessionLife WITH
        Tasks <- Conns \cup Requests,
        stage <- Stage, starting <- Starting, matching <- Matching

\* The session lives as SessionLife promises: one task at a time decides to
\* start it, none does once it started, and no task decides on a closed row, so
\* that a close is overwritten only by tasks that were in progress (relay.py,
\* _set_session_active; routes/matches.py).
LifeSpec == Life!Spec

\* The total of accepted frames exceeds MESSAGE_CAP only by what restarts made
\* the server forget: at most PersistEvery - 1 frames each, and one unit more
\* for each failed write of the count (relay.py, message_count).
CapAcrossRestarts ==
    TotalSent <= MessageCap + (PersistEvery - 1) * restarts
                            + PersistEvery * faults

\* A session starts once, however often its members reconnect and whatever
\* restarts in between: sessions_started_total counts it once (relay.py,
\* _set_session_active).
StartedOnce == row.started <= 1

\* A confirmed match, and anything that follows only from one, took both
\* members: one proposed and the other accepted, through every interleaving of
\* their requests (routes/matches.py).
MutualConsent ==
    \/ row.status = "match_confirmed"
    \/ row.close_reason = "handoff_complete"
    \/ state.handoff # Unset
    \/ \E t \in HandoffTasks : orphan[t] # Unset
    => assent = Members

\* expires_at is the deadline of the row's status (models.py, expires_at): no
\* order of activation, requests and time leaves a started session with the
\* 72-hour deadline it was created with.
DeadlineFitsStatus ==
    /\ row.status \in {"active", "match_proposed"} =>
           row.expires_in <= ActiveWindow
    /\ row.status = "match_confirmed" => row.expires_in <= HandoffWindow

\* A started session that is not closed is watched by its monitor and counted
\* in active_sessions whenever nobody is working on it under the lock
\* (relay.py, _join), as long as the database does not fail.
RunningIsWatched ==
    /\ faults = 0
    /\ LockFree
    /\ state.active_for # Unset
    /\ ~state.closed
    => state.monitor # "none" /\ state.counted

\* The count in the row is never set back, whichever of the relay's states
\* writes it: not by a frame or an end after a restart forgot some (relay.py,
\* _persist_message_count and _persist_closed).
SavedCountGrows == [][row'.message_count >= row.message_count]_vars

\* Whoever holds the session's lock has a step to take under it that waits for
\* the database or a send only: no task dies, returns or waits for the lock
\* while it holds it (relay.py, _join and end_session).
HolderIsAtWork ==
    lock # None =>
        \/ /\ lock \in Conns
           /\ conn[lock].phase \in {"activating", "committing"}
           /\ ending.phase = "none"
        \/ /\ lock \in Conns
           /\ conn[lock].phase = "capping"
           /\ ending.phase # "none"
        \/ /\ lock \in Requests
           /\ req[lock].phase = "ending"
           /\ ending.phase # "none"
        \/ lock = "handoff" /\ ending.phase # "none"

\* How many steps the holder of the lock has yet to take, at most.
WorkUnderLock ==
    IF lock = None THEN 0
    ELSE IF ending.phase = "notify" \/ lock \in Starting THEN 1
    ELSE 2

\* The lock goes from its holder to nobody.  What the holder has to do under it
\* gets less with every step that is taken under it, and is not made more by
\* what others do meanwhile (relay.py).
LockGoesBack ==
    [][lock # None =>
         /\ lock' \in {lock, None}
         /\ WorkUnderLock' <= WorkUnderLock
         /\ WorkUnderLock' = WorkUnderLock => UNCHANGED <<ending, Starting>>]_vars

----------------------------------------------------------------------------
(* Liveness: RowEventuallyClosed under DurableSpec, the rest under         *)
(* FairSpec.                                                               *)

\* A commit that sets the status of an open row anew.
MatchCommit ==
    \E q \in Requests : CommitPropose(q) \/ CommitAccept(q) \/ CommitReject(q)

\* The maintenance job makes up for the timers that were lost or that closed
\* only the state: however the members come, go and answer, the row is closed
\* for good, unless they go on for ever; and it is closed again and again then,
\* unless accepts renew its deadline for ever (jobs.py; routes/matches.py).
RowEventuallyClosed ==
    /\ <>[](row.status = "closed") \/ []<><<MatchCommit>>_vars
    /\ \/ []<>(row.status = "closed")
       \/ []<><<\E q \in Requests : CommitAccept(q)>>_vars

\* The session's lock is never held for ever (relay.py).
LockEventuallyFree == []<>LockFree

\* A connection whose hello was accepted gets to receive frames, or is gone.
HelloServed ==
    \A c \in Conns :
        conn[c].phase = "authed" ~> conn[c].phase \in {"loop", "out"}

\* POST /end and /block return once they committed (routes/sessions.py).
EndReturns ==
    \A q \in Requests :
        req[q].phase = "ending" ~> req[q].phase = "idle"
=============================================================================
