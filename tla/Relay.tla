------------------------------- MODULE Relay -------------------------------
(***************************************************************************)
(* relay.py: the websocket handler of a connection, the timer tasks of a   *)
(* session, and end_session.                                               *)
(*                                                                         *)
(* A step ends where the code awaits something another task can overtake.  *)
(* What runs under the session's lock is one step unless an unlocked step  *)
(* in between could tell: the database calls of the activation and of      *)
(* end_session are steps of their own, the rest is not.                    *)
(***************************************************************************)
EXTENDS Session

----------------------------------------------------------------------------
(* Opening a connection.                                                   *)

\* Nothing in the server refers to c any more.
Forgotten(c) ==
    /\ conn[c].phase = "out"
    /\ c \notin Registered
    /\ \A d \in Conns : conn[d].target # c

\* The row and the agent let a hello in.  A refused hello changes nothing.
HelloAccepted(m) == row.status # "closed" /\ m \notin gone

AuthenticateHello(c, m) ==
    /\ Forgotten(c)
    /\ HelloAccepted(m)
    /\ conn' = [conn EXCEPT ![c] = [phase |-> "authed", agent |-> m,
                                    target |-> None, live |-> TRUE]]
    /\ UNCHANGED <<row, memVars, lockVars, req, history, environment>>

\* The SessionState _join works on, made when there is none.
JoinedState == IF state.loaded THEN state ELSE FreshState

\* Both members have a socket and the session never started.
Completes(m, s) == sockets[Other(m)] # None /\ s.active_for = Unset

\* _join up to _set_session_active: replaces and closes an older socket.
Join(c) ==
    LET m == conn[c].agent
        s == JoinedState
        starts == Completes(m, s)
    IN  /\ conn[c].phase = "authed"
        /\ LockFree
        /\ sockets' = [sockets EXCEPT ![m] = c]
        /\ state' = IF starts
                    THEN [s EXCEPT !.active_for = 0, !.idle_for = 0] ELSE s
        /\ lock' = IF starts THEN c ELSE None
        /\ conn' = [d \in Conns |->
                      IF d = c
                      THEN [conn[d] EXCEPT
                              !.phase = IF starts THEN "activating" ELSE "joined"]
                      ELSE IF d = sockets[m]
                      THEN [conn[d] EXCEPT !.live = FALSE]
                      ELSE conn[d]]
        /\ UNCHANGED <<row, buffers, ending, orphan, req, history, environment>>

\* Mutant of StartMonitoring: the lock is not given back.
StartWithLock(c) ==
    /\ state' = [state EXCEPT
                   !.counted = TRUE,
                   !.monitor = IF state.closed THEN "none" ELSE "polling"]
    /\ lock' = lock
    /\ conn' = InPhase(c, "joined")

\* What _join does once _set_session_active returned.  On a closed state the
\* monitor task leaves its loop at once.
StartMonitoring(c) ==
    /\ state' = [state EXCEPT
                   !.counted = TRUE,
                   !.monitor = IF state.closed THEN "none" ELSE "polling"]
    /\ lock' = None
    /\ conn' = InPhase(c, "joined")

\* Mutant of Awaiting: any row that is not closed is activated again.
NotClosed(r) == r.status # "closed"

Awaiting(r) == r.status = "awaiting_join"

\* Mutant of SkipActivation: no row to activate, hence no monitor either.
SkipMonitoring(c) ==
    /\ conn[c].phase = "activating"
    /\ ~Awaiting(row)
    /\ lock' = None
    /\ conn' = InPhase(c, "joined")
    /\ UNCHANGED <<row, memVars, ending, req, history, environment>>

\* Mutant of SkipActivation: waits for the lock, which the caller holds.
SkipRelocking(c) ==
    /\ conn[c].phase = "activating"
    /\ ~Awaiting(row)
    /\ LockFree
    /\ StartMonitoring(c)
    /\ UNCHANGED <<row, sockets, buffers, orphan, ending, req, history,
                   environment>>

\* The row no longer awaits its members: _set_session_active leaves it alone.
SkipActivation(c) ==
    /\ conn[c].phase = "activating"
    /\ ~Awaiting(row)
    /\ StartMonitoring(c)
    /\ UNCHANGED <<row, sockets, buffers, orphan, ending, req, history,
                   environment>>

\* Mutant of ActivatedRow: the row keeps the deadline it had.
ActivatedForLong(r) == [r EXCEPT !.status = "active", !.started = @ + 1]

ActivatedRow(r) ==
    [r EXCEPT !.status = "active", !.expires_in = ActiveWindow, !.started = @ + 1]

\* The row is read; the commit is a step of its own and checks nothing again.
ReadForActivation(c) ==
    /\ conn[c].phase = "activating"
    /\ Awaiting(row)
    /\ conn' = InPhase(c, "committing")
    /\ UNCHANGED <<row, memVars, lockVars, req, history, environment>>

CommitActivation(c) ==
    /\ conn[c].phase = "committing"
    /\ row' = ActivatedRow(row)
    /\ StartMonitoring(c)
    /\ UNCHANGED <<sockets, buffers, orphan, ending, req, history, environment>>

\* The database fails: the exception ends the handler with its socket still
\* registered, active_at set, and no monitor.
FailActivation(c) ==
    /\ conn[c].phase \in {"activating", "committing"}
    /\ faults < MaxFaults
    /\ faults' = faults + 1
    /\ lock' = None
    /\ conn' = Finish(c)
    /\ UNCHANGED <<row, memVars, ending, req, history, gone, restarts>>

----------------------------------------------------------------------------
(* ready and the buffered frames, outside the lock and outside the try of  *)
(* handle_websocket: a dead socket ends the handler without _disconnect.   *)

\* ready is sent, and the socket to flush to looked up.  c may have broken, or
\* been replaced, in between.
SendReady(c) ==
    LET target == sockets[conn[c].agent]
    IN  /\ conn[c].phase = "joined"
        /\ conn' = [conn EXCEPT
                      ![c] = [@ EXCEPT
                                !.phase = IF target = None THEN "loop"
                                          ELSE "flushing",
                                !.target = target]]
        /\ UNCHANGED <<row, memVars, lockVars, req, history, environment>>

FailReady(c) ==
    /\ conn[c].phase = "joined"
    /\ ~conn[c].live
    /\ conn' = Finish(c)
    /\ UNCHANGED <<row, memVars, lockVars, req, history, environment>>

\* A frame of m's counterparty reaches the socket c, or is lost on it.
Arrives(c, m, k) ==
    rcvd' = IF Receivable(c) THEN [rcvd EXCEPT ![m] = Append(@, k)] ELSE rcvd

\* Mutant of Remaining: the frame is sent and stays in the buffer.
AllOf(b) == b

\* buffered.pop(0).
Remaining(b) == Tail(b)

\* One round of the flush loop.  A dead target swallows the frame, or its
\* send raises and ends the handler.
FlushNext(c) ==
    LET m == conn[c].agent
        from == Other(m)
        target == conn[c].target
    IN  /\ conn[c].phase = "flushing"
        /\ buffers[from] # <<>>
        /\ buffers' = [buffers EXCEPT ![from] = Remaining(@)]
        /\ Arrives(target, m, Head(buffers[from]))
        /\ \/ UNCHANGED conn
           \/ /\ ~conn[target].live
              /\ conn' = Finish(c)
        /\ UNCHANGED <<row, state, sockets, lockVars, orphan, req, sent, assent,
                       environment>>

\* Mutant of NothingBuffered: the loop may end at any round.
EnoughSent(from) == TRUE

\* The flush loop ends when it finds nothing buffered.
NothingBuffered(from) == buffers[from] = <<>>

FlushDone(c) ==
    /\ conn[c].phase = "flushing"
    /\ NothingBuffered(Other(conn[c].agent))
    /\ conn' = [conn EXCEPT ![c] = [@ EXCEPT !.phase = "loop", !.target = None]]
    /\ UNCHANGED <<row, memVars, lockVars, req, history, environment>>

----------------------------------------------------------------------------
(* Frames.  A frame that is too large, not JSON, of another type or for    *)
(* another session is answered with an error and changes nothing; so is    *)
(* every frame once the state is closed.  Frames the client sent before    *)
(* its socket broke are still received.                                    *)

MayReceive(c) == conn[c].phase = "loop" /\ LockFree /\ ~state.closed

BelowCap(s) == s.message_count < MessageCap

PersistDue(s) == (s.message_count + 1) % PersistEvery = 0

\* _handle_frame counts the frame and refreshes last_message_at.
CountFrame(m) ==
    /\ TotalSent < MaxFrames
    /\ state' = [state EXCEPT !.message_count = @ + 1, !.idle_for = 0]
    /\ sent' = [sent EXCEPT ![m] = @ + 1]

\* Mutant of RoomInBuffer: one frame too many.
RoomForOneMore(b) == Len(b) <= BufferLimit

RoomInBuffer(b) == Len(b) < BufferLimit

\* The counterparty has no socket: the frame is buffered, or refused with
\* buffer_full although it was counted.
Buffer(m, k) ==
    /\ sockets[Other(m)] = None
    /\ buffers' = IF RoomInBuffer(buffers[m])
                  THEN [buffers EXCEPT ![m] = Append(@, k)] ELSE buffers
    /\ UNCHANGED <<conn, rcvd>>

\* The counterparty has a socket.  A dead one swallows the frame, or its send
\* raises in the handler of the sender: WebSocketDisconnect makes that handler
\* disconnect the sender, RuntimeError ends it and leaves the socket behind.
Forward(c, m, k) ==
    LET peer == sockets[Other(m)]
    IN  /\ peer # None
        /\ Arrives(peer, Other(m), k)
        /\ \/ UNCHANGED conn
           \/ /\ ~conn[peer].live
              /\ conn' \in {InPhase(c, "leaving"), Finish(c)}
        /\ UNCHANGED buffers

RelayFrame(c) ==
    LET m == conn[c].agent
    IN  /\ MayReceive(c)
        /\ BelowCap(state)
        /\ CountFrame(m)
        /\ row' = IF PersistDue(state)
                  THEN [row EXCEPT !.message_count = state.message_count + 1]
                  ELSE row
        /\ Buffer(m, sent[m] + 1) \/ Forward(c, m, sent[m] + 1)
        /\ UNCHANGED <<sockets, lockVars, orphan, req, assent, environment>>

\* The database fails in _persist_message_count: the frame was counted, is not
\* forwarded, and the handler dies with its socket registered.
FailFrame(c) ==
    /\ MayReceive(c)
    /\ BelowCap(state)
    /\ PersistDue(state)
    /\ CountFrame(conn[c].agent)
    /\ faults < MaxFaults
    /\ faults' = faults + 1
    /\ conn' = Finish(c)
    /\ UNCHANGED <<row, sockets, buffers, lockVars, orphan, req, rcvd, assent,
                   gone, restarts>>

\* A binary frame, or JSON that is no object, raises in the handler, and so may
\* an error sent to a broken socket: it dies with its socket registered.
BadFrame(c) ==
    /\ conn[c].phase = "loop"
    /\ conn' = Finish(c)
    /\ UNCHANGED <<row, memVars, lockVars, req, history, environment>>

\* The frame after the last one allowed makes the handler end the session.
CapFrame(c) ==
    /\ MayReceive(c)
    /\ ~BelowCap(state)
    /\ conn' = InPhase(c, "capping")
    /\ UNCHANGED <<row, memVars, lockVars, req, history, environment>>

----------------------------------------------------------------------------
(* Closing a connection.                                                   *)

ClientDrop(c) ==
    /\ conn[c].live
    /\ conn' = [conn EXCEPT ![c].live = FALSE]
    /\ UNCHANGED <<row, memVars, lockVars, req, history, environment>>

\* receive_text raises WebSocketDisconnect.
HearDisconnect(c) ==
    /\ conn[c].phase = "loop"
    /\ ~conn[c].live
    /\ conn' = InPhase(c, "leaving")
    /\ UNCHANGED <<row, memVars, lockVars, req, history, environment>>

\* Mutant of IsCurrent: a handler unregisters whatever socket its agent has.
IsAny(m, c) == TRUE

\* The socket of m is still the one that is going away.
IsCurrent(m, c) == sockets[m] = c

Disconnect(c) ==
    LET m == conn[c].agent
    IN  /\ conn[c].phase = "leaving"
        /\ LockFree
        /\ sockets' = IF IsCurrent(m, c) THEN [sockets EXCEPT ![m] = None]
                      ELSE sockets
        /\ conn' = Finish(c)
        /\ UNCHANGED <<row, state, buffers, lockVars, orphan, req, history,
                       environment>>

----------------------------------------------------------------------------
(* end_session called by a task that is not a timer of the state.          *)

\* Mutant of EnterEnd: end_session does not take the lock.
EnterEndUnlocked(h, reason) ==
    /\ state.loaded
    /\ ~state.closed
    /\ state' = ClosedState
    /\ lock' = h
    /\ ending' = [phase |-> "persist", reason |-> reason]

\* The first part, up to the await in _persist_closed.
EnterEnd(h, reason) ==
    /\ LockFree
    /\ state.loaded
    /\ ~state.closed
    /\ state' = ClosedState
    /\ lock' = h
    /\ ending' = [phase |-> "persist", reason |-> reason]

\* Somebody else closed the state first.
EndIsMoot == LockFree /\ state.loaded /\ state.closed

CapEnds(c) ==
    /\ conn[c].phase = "capping"
    /\ EnterEnd(c, "message_cap_reached")
    /\ UNCHANGED <<row, sockets, buffers, orphan, conn, req, history,
                   environment>>

CapIsMoot(c) ==
    /\ conn[c].phase = "capping"
    /\ EndIsMoot
    /\ conn' = InPhase(c, "loop")
    /\ UNCHANGED <<row, memVars, lockVars, req, history, environment>>

ClosesRow(r) ==
    [ClosedRow(r, ending.reason) EXCEPT !.message_count = state.message_count]

PersistClosed ==
    /\ ending.phase = "persist"
    /\ row' = ClosesRow(row)
    /\ ending' = [ending EXCEPT !.phase = "notify"]
    /\ UNCHANGED <<memVars, lock, conn, req, history, environment>>

\* Mutant of FailPersist: the caller fails, the call itself goes on.
FailAndGoOn ==
    /\ ending.phase = "persist"
    /\ faults < MaxFaults
    /\ faults' = faults + 1
    /\ lock' = None
    /\ ending' = [ending EXCEPT !.phase = "notify"]
    /\ conn' = IF lock \in Conns THEN Finish(lock) ELSE conn
    /\ req' = IF lock \in Requests THEN Answered(lock) ELSE req
    /\ UNCHANGED <<row, memVars, history, gone, restarts>>

\* The database fails: the exception reaches whoever called end_session, with
\* the state closed, the row open and the sockets as they were.
FailPersist ==
    /\ ending.phase = "persist"
    /\ faults < MaxFaults
    /\ faults' = faults + 1
    /\ lock' = None
    /\ ending' = NoEnding
    /\ conn' = IF lock \in Conns THEN Finish(lock) ELSE conn
    /\ req' = IF lock \in Requests THEN Answered(lock) ELSE req
    /\ UNCHANGED <<row, memVars, history, gone, restarts>>

\* session_ended and close, to every socket; then the caller goes on.
NotifyEnded ==
    /\ ending.phase = "notify"
    /\ sockets' = [m \in Members |-> None]
    /\ conn' = [c \in Conns |->
                  [conn[c] EXCEPT !.live = @ /\ c \notin Registered,
                                  !.phase = IF c = lock THEN "loop" ELSE @]]
    /\ req' = IF lock \in Requests THEN Answered(lock) ELSE req
    /\ lock' = None
    /\ ending' = NoEnding
    /\ UNCHANGED <<row, state, buffers, orphan, history, environment>>

----------------------------------------------------------------------------
(* The timer tasks.  end_session cancels monitor_task and handoff_task, so *)
(* a call of end_session from one of them cancels its own caller: the      *)
(* CancelledError surfaces at the next await, which is the first one in    *)
(* _persist_closed.  The state is closed, the row is not, and no socket is *)
(* told or closed.                                                         *)

ActiveExpired(s) == s.active_for >= ActiveWindow

Inactive(s) == s.idle_for >= InactivityWindow

\* One poll of _monitor_limits finds a limit passed.  The wall clock goes first.
MonitorDecides ==
    /\ state.monitor = "polling"
    /\ ActiveExpired(state) \/ Inactive(state)
    /\ state' = [state EXCEPT
                   !.monitor = IF ActiveExpired(state) THEN "time_limit_reached"
                               ELSE "inactivity"]
    /\ UNCHANGED <<row, sockets, buffers, orphan, lockVars, conn, req, history,
                   environment>>

MonitorEnds ==
    /\ state.monitor \in TimerReasons
    /\ LockFree
    /\ state' = ClosedState
    /\ UNCHANGED <<row, sockets, buffers, orphan, lockVars, conn, req, history,
                   environment>>

\* _close_after_handoff as handoff_task; on a closed state it does nothing.
HandoffFires ==
    /\ state.handoff = 0
    /\ LockFree
    /\ state' = IF state.closed THEN [state EXCEPT !.handoff = Unset]
                ELSE ClosedState
    /\ UNCHANGED <<row, sockets, buffers, orphan, lockVars, conn, req, history,
                   environment>>

\* _close_after_handoff as a task of _handoff_tasks, scheduled when there was
\* no state: end_session does not cancel it.
OrphanFires(t) ==
    /\ orphan[t] = 0
    /\ orphan' = [orphan EXCEPT ![t] = Unset]
    /\ \/ /\ ~state.loaded
          /\ row' = ClosedRow(row, "handoff_complete")
          /\ UNCHANGED <<state, lockVars>>
       \/ /\ EnterEnd("handoff", "handoff_complete")
          /\ UNCHANGED row
       \/ /\ EndIsMoot
          /\ UNCHANGED <<row, state, lockVars>>
    /\ UNCHANGED <<sockets, buffers, conn, req, history, environment>>

\* schedule_handoff_close.  A task already there is cancelled and replaced,
\* unless it is no longer in _handoff_tasks: whichever handoff task of the
\* session ends or is cancelled removes the entry, even that of another.
ScheduleHandoffClose ==
    IF state.loaded
    THEN /\ state' = [state EXCEPT !.handoff = HandoffWindow]
         /\ UNCHANGED orphan
    ELSE /\ \E t \in HandoffTasks :
               orphan' = [orphan EXCEPT ![t] = HandoffWindow]
         /\ UNCHANGED state
=============================================================================
