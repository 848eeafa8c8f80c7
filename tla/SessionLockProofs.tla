------------------------- MODULE SessionLockProofs -------------------------
(***************************************************************************)
(* What the lock of relay.py protects, and what holds outside it: the      *)
(* handlers of connections, the sockets they register, the buffers they    *)
(* flush, the monitor they start.                                          *)
(*                                                                         *)
(* LockDiscipline is inductive given TypeOK.  The other properties are     *)
(* strengthened with what the code establishes before it releases the      *)
(* lock or enters the receive loop, and use LockDiscipline for the steps   *)
(* of end_session.                                                         *)
(***************************************************************************)
EXTENDS SessionTypeProofs

\* A handler that is past _join works on a state that is there.
LoadedInv ==
    \A c \in Conns : conn[c].phase \notin {"out", "authed"} => state.loaded

\* From _join on, and until it leaves, the handler of a live connection is the
\* one its agent is registered with: replacing or ending it closes it first.
RegisteredInv ==
    \A c \in Conns :
        /\ conn[c].live
        /\ conn[c].phase \in {"activating", "committing", "joined", "flushing",
                              "loop", "capping"}
        => sockets[conn[c].agent] = c

\* The registered socket of an agent is one of its own, unless its handler is
\* gone; nothing waits for it, neither in the loop nor on the way to the cap.
StrandedInv ==
    /\ \A m \in Members :
          LET c == sockets[m]
          IN  c # None /\ conn[c].phase # "out" => conn[c].agent = m
    /\ \A m \in Members :
          LET c == sockets[m]
          IN  c # None /\ conn[c].phase \in {"loop", "capping"}
              => buffers[Other(m)] = <<>>

\* A started session is watched, or the handler that starts it is still at it.
WatchedInv ==
    faults = 0 /\ state.active_for # Unset /\ ~state.closed
    => \/ state.monitor # "none" /\ state.counted
       \/ \E c \in Conns :
             lock = c /\ conn[c].phase \in {"activating", "committing"}

----------------------------------------------------------------------------
\* The lock, step by step.
LEMMA LockStep ==
    TypeOK /\ LockDiscipline /\ [Next]_vars => LockDiscipline'
<1> SUFFICES ASSUME TypeOK, LockDiscipline, [Next]_vars
             PROVE  LockDiscipline'
  OBVIOUS
<1> USE MembersAssumption, HoldersAssumption
<1>1. ASSUME NEW c \in Conns, NEW m \in Members, AuthenticateHello(c, m)
      PROVE  LockDiscipline'
  BY <1>1 DEF AuthenticateHello, LockDiscipline, memVars, lockVars, Forgotten
<1>2. ASSUME NEW c \in Conns, Join(c) PROVE LockDiscipline'
  BY <1>2 DEF Join, LockDiscipline, LockFree, JoinedState, FreshState
<1>3. ASSUME NEW c \in Conns, SkipActivation(c) PROVE LockDiscipline'
  BY <1>3
  DEF SkipActivation, LockDiscipline, TypeOK, ConnOK, InPhase, StartMonitoring
<1>4. ASSUME NEW c \in Conns, ReadForActivation(c) PROVE LockDiscipline'
  BY <1>4 DEF ReadForActivation, LockDiscipline, InPhase, lockVars
<1>5. ASSUME NEW c \in Conns, CommitActivation(c) PROVE LockDiscipline'
  BY <1>5
  DEF CommitActivation, LockDiscipline, TypeOK, ConnOK, InPhase,
      StartMonitoring, ActivatedRow
<1>6. ASSUME NEW c \in Conns, SendReady(c) PROVE LockDiscipline'
  BY <1>6 DEF SendReady, LockDiscipline, memVars, lockVars
<1>7. ASSUME NEW c \in Conns, FailReady(c) \/ BadFrame(c) PROVE LockDiscipline'
  <2>1. CASE FailReady(c)
    BY <2>1 DEF FailReady, LockDiscipline, Finish, Out, memVars, lockVars
  <2>2. CASE BadFrame(c)
    BY <2>2 DEF BadFrame, LockDiscipline, Finish, Out, memVars, lockVars
  <2> QED  BY <1>7, <2>1, <2>2
<1>8. ASSUME NEW c \in Conns, FlushNext(c) PROVE LockDiscipline'
  BY <1>8 DEF FlushNext, LockDiscipline, TypeOK, ConnOK, Finish, Out, lockVars
<1>9. ASSUME NEW c \in Conns, FlushDone(c) PROVE LockDiscipline'
  BY <1>9 DEF FlushDone, LockDiscipline, memVars, lockVars
<1>10. ASSUME NEW c \in Conns, HearDisconnect(c) PROVE LockDiscipline'
  BY <1>10 DEF HearDisconnect, LockDiscipline, InPhase, memVars, lockVars
<1>11. ASSUME NEW c \in Conns, Disconnect(c) PROVE LockDiscipline'
  BY <1>11 DEF Disconnect, LockDiscipline, LockFree, Finish, Out, lockVars
<1>12. ASSUME NEW c \in Conns, CapEnds(c) PROVE LockDiscipline'
  BY <1>12 DEF CapEnds, LockDiscipline, LockFree, ClosedState, EnterEnd
<1>13. ASSUME NEW c \in Conns, CapIsMoot(c) PROVE LockDiscipline'
  BY <1>13
  DEF CapIsMoot, LockDiscipline, LockFree, InPhase, lockVars, EndIsMoot
<1>14. ASSUME NEW c \in Conns, RelayFrame(c) PROVE LockDiscipline'
  BY <1>14
  DEF RelayFrame, LockDiscipline, LockFree, TypeOK, ConnOK, Connection,
      InPhase, Finish, Out, lockVars, MayReceive, CountFrame, Buffer, Forward
<1>15. ASSUME NEW c \in Conns, CapFrame(c) PROVE LockDiscipline'
  BY <1>15
  DEF CapFrame, LockDiscipline, LockFree, InPhase, lockVars, MayReceive
<1>16. ASSUME NEW c \in Conns, ClientDrop(c) PROVE LockDiscipline'
  BY <1>16 DEF ClientDrop, LockDiscipline, memVars, lockVars
<1>17. ASSUME NEW q \in Requests, NEW op \in AllOps, NEW m \in Members,
                    ReadRow(q, op, m) PROVE LockDiscipline'
  BY <1>17 DEF ReadRow, LockDiscipline, memVars, lockVars
<1>18. ASSUME NEW q \in Requests, CommitPropose(q) PROVE LockDiscipline'
  BY <1>18 DEF CommitPropose, LockDiscipline, memVars, lockVars
<1>19. ASSUME NEW q \in Requests, CommitAccept(q) PROVE LockDiscipline'
  BY <1>19 DEF CommitAccept, LockDiscipline, memVars, lockVars
<1>20. ASSUME NEW q \in Requests, CommitReject(q) PROVE LockDiscipline'
  BY <1>20 DEF CommitReject, LockDiscipline, memVars, lockVars
<1>21. ASSUME NEW q \in Requests, CommitClose(q) PROVE LockDiscipline'
  BY <1>21 DEF CommitClose, LockDiscipline, memVars, lockVars
<1>22. ASSUME NEW q \in Requests, AcceptSchedules(q) PROVE LockDiscipline'
  BY <1>22
  DEF AcceptSchedules, LockDiscipline, TypeOK, StateOK, SessionState,
      lockVars, ScheduleHandoffClose
<1>23. ASSUME NEW q \in Requests, AcceptFails(q) PROVE LockDiscipline'
  BY <1>23 DEF AcceptFails, LockDiscipline, memVars, lockVars
<1>24. ASSUME NEW q \in Requests, RequestEnds(q) PROVE LockDiscipline'
  BY <1>24 DEF RequestEnds, LockDiscipline, LockFree, ClosedState, EnterEnd
<1>25. ASSUME NEW q \in Requests, EndRequestIsMoot(q) PROVE LockDiscipline'
  BY <1>25 DEF EndRequestIsMoot, LockDiscipline, LockFree, lockVars, EndIsMoot
<1>26. ASSUME NEW q \in Requests, RequestEndsRow(q) PROVE LockDiscipline'
  BY <1>26 DEF RequestEndsRow, LockDiscipline, lockVars
<1>27. ASSUME NEW m \in Members, DeleteAccount(m) PROVE LockDiscipline'
  BY <1>27 DEF DeleteAccount, LockDiscipline, memVars, lockVars
<1>28. CASE PersistClosed
  BY <1>28 DEF PersistClosed, LockDiscipline, memVars, ClosesRow
<1>29. CASE NotifyEnded
  <2>1. ASSUME NEW c \in Conns
        PROVE  conn'[c].phase \in {conn[c].phase, "loop"}
    BY <1>29 DEF NotifyEnded, TypeOK, ConnOK, Connection
  <2> QED
    BY <1>29, <2>1 DEF NotifyEnded, LockDiscipline, NoEnding
<1>30. CASE MonitorDecides
  BY <1>30 DEF MonitorDecides, LockDiscipline, lockVars
<1>31. CASE MonitorEnds
  BY <1>31 DEF MonitorEnds, LockDiscipline, LockFree, ClosedState, lockVars
<1>32. CASE HandoffFires
  BY <1>32 DEF HandoffFires, LockDiscipline, LockFree, ClosedState, lockVars
<1>33. ASSUME NEW t \in HandoffTasks, OrphanFires(t)
       PROVE  LockDiscipline'
  <2>1. CASE UNCHANGED <<state, lockVars>>
    BY <1>33, <2>1 DEF OrphanFires, LockDiscipline, lockVars
  <2>2. CASE EnterEnd("handoff", "handoff_complete")
    BY <1>33, <2>2
    DEF OrphanFires, EnterEnd, LockDiscipline, LockFree, ClosedState
  <2> QED
    BY <1>33, <2>1, <2>2 DEF OrphanFires
<1>34. CASE RunMaintenance
  BY <1>34 DEF RunMaintenance, LockDiscipline, memVars, lockVars, Expired
<1>35. CASE Tick
  BY <1>35 DEF Tick, LockDiscipline, lockVars
<1>36. ASSUME NEW c \in Conns, FailActivation(c) PROVE LockDiscipline'
  BY <1>36 DEF FailActivation, LockDiscipline, TypeOK, ConnOK, Finish, Out
<1>37. ASSUME NEW c \in Conns, FailFrame(c) PROVE LockDiscipline'
  BY <1>37
  DEF FailFrame, LockDiscipline, LockFree, Finish, Out, lockVars, MayReceive,
      CountFrame
<1>38. CASE FailPersist
  BY <1>38 DEF FailPersist, LockDiscipline, Finish, Out, NoEnding
<1>39. CASE ServerRestart
  BY <1>39 DEF ServerRestart, LockDiscipline, Out, NoEnding
<1>40. CASE UNCHANGED vars
  BY <1>40 DEF vars, LockDiscipline, memVars, lockVars
<1> QED
  BY <1>1, <1>2, <1>3, <1>4, <1>5, <1>6, <1>7, <1>8, <1>9, <1>10, <1>11,
     <1>12, <1>13, <1>14, <1>15, <1>16, <1>17, <1>18, <1>19, <1>20, <1>21,
     <1>22, <1>23, <1>24, <1>25, <1>26, <1>27, <1>28, <1>29, <1>30, <1>31,
     <1>32, <1>33, <1>34, <1>35, <1>36, <1>37, <1>38, <1>39, <1>40
  DEF Next, HandlerStep, ClientStep, NewRequest, RequestStep, EndStep,
      TimerStep, Fault

\* The activation and an end_session in progress belong to the one task that
\* holds the lock (relay.py, async with state.lock).
THEOREM LockCorrect == Spec => []LockDiscipline
<1>1. Init => LockDiscipline
  BY DEF Init, ServerIdle, LockDiscipline, NoEnding, Out
<1> QED
  BY <1>1, LockStep, TypeCorrect, PTL DEF Spec

----------------------------------------------------------------------------
(* Who holds the lock, and what for.                                       *)

\* What a step does with the lock while somebody holds it.
LockKept ==
    lock # None =>
      /\ lock' \in {lock, None}
      /\ WorkUnderLock' <= WorkUnderLock
      /\ WorkUnderLock' = WorkUnderLock => UNCHANGED <<ending, Starting>>

\* The holder of the lock, step by step.
LEMMA HolderStep ==
    TypeOK /\ LockDiscipline /\ HolderIsAtWork /\ [Next]_vars
    => HolderIsAtWork' /\ LockKept
<1> SUFFICES ASSUME TypeOK, LockDiscipline, HolderIsAtWork, [Next]_vars
             PROVE  HolderIsAtWork' /\ LockKept
  OBVIOUS
<1> USE MembersAssumption, HoldersAssumption
<1>1. ASSUME NEW c \in Conns, NEW m \in Members, AuthenticateHello(c, m)
      PROVE  HolderIsAtWork' /\ LockKept
  BY <1>1
  DEF AuthenticateHello, HolderIsAtWork, LockKept, WorkUnderLock, Starting,
      lockVars, Forgotten
<1>2. ASSUME NEW c \in Conns, Join(c) PROVE HolderIsAtWork' /\ LockKept
  <2>1. LockFree
    BY <1>2 DEF Join
  <2>2. conn'[c].phase = "activating" \/ lock' = None
    BY <1>2 DEF Join, TypeOK, ConnOK, Connection
  <2>3. lock' \in {c, None} /\ UNCHANGED ending
    BY <1>2 DEF Join
  <2>4. ending.phase = "none"
    BY <2>1 DEF LockFree, LockDiscipline
  <2> QED
    BY <2>1, <2>2, <2>3, <2>4 DEF HolderIsAtWork, LockKept, LockFree
<1>3. ASSUME NEW c \in Conns, SkipActivation(c)
      PROVE  HolderIsAtWork' /\ LockKept
  BY <1>3
  DEF SkipActivation, HolderIsAtWork, LockKept, WorkUnderLock, StartMonitoring
<1>4. ASSUME NEW c \in Conns, ReadForActivation(c)
      PROVE  HolderIsAtWork' /\ LockKept
  <2>1. /\ conn' = [conn EXCEPT ![c].phase = "committing"]
        /\ conn[c].phase = "activating" /\ UNCHANGED lockVars
    BY <1>4 DEF ReadForActivation, InPhase
  <2>2. lock = c /\ ending.phase = "none"
    BY <2>1 DEF LockDiscipline
  <2>3. conn'[c].phase = "committing"
    BY <2>1 DEF TypeOK, ConnOK
  <2>4. c \in Starting' /\ c \notin Starting
    BY <2>1, <2>3 DEF Starting
  <2> QED
    BY <2>1, <2>2, <2>3, <2>4
    DEF HolderIsAtWork, LockKept, WorkUnderLock, lockVars
<1>5. ASSUME NEW c \in Conns, CommitActivation(c)
      PROVE  HolderIsAtWork' /\ LockKept
  BY <1>5
  DEF CommitActivation, HolderIsAtWork, LockKept, WorkUnderLock,
      StartMonitoring
<1>6. ASSUME NEW c \in Conns, SendReady(c) PROVE HolderIsAtWork' /\ LockKept
  BY <1>6
  DEF SendReady, HolderIsAtWork, LockKept, WorkUnderLock, Starting, lockVars
<1>7. ASSUME NEW c \in Conns, FailReady(c) \/ BadFrame(c)
      PROVE  HolderIsAtWork' /\ LockKept
  <2>1. /\ conn' = [conn EXCEPT ![c] = Out]
        /\ conn[c].phase \in {"joined", "loop"}
        /\ UNCHANGED <<lockVars, req>>
    BY <1>7 DEF FailReady, BadFrame, Finish
  <2>2. Starting' = Starting
    BY <2>1 DEF Starting, Out, TypeOK, ConnOK
  <2>3. \A d \in Conns : conn'[d].phase = conn[d].phase \/ d = c
    BY <2>1 DEF TypeOK, ConnOK
  <2>4. UNCHANGED <<lock, ending>>
    BY <2>1 DEF lockVars
  <2>5. HolderIsAtWork'
    BY <2>1, <2>3, <2>4 DEF HolderIsAtWork
  <2>6. WorkUnderLock' = WorkUnderLock
    BY <2>2, <2>4 DEF WorkUnderLock
  <2> QED
    BY <2>2, <2>4, <2>5, <2>6 DEF LockKept, WorkUnderLock
<1>8. ASSUME NEW c \in Conns, FlushNext(c) PROVE HolderIsAtWork' /\ LockKept
  <2>1. /\ conn' = conn \/ conn' = [conn EXCEPT ![c] = Out]
        /\ conn[c].phase = "flushing" /\ UNCHANGED <<lockVars, req>>
    BY <1>8 DEF FlushNext, Finish
  <2>2. Starting' = Starting
    BY <2>1 DEF Starting, Out, TypeOK, ConnOK
  <2>3. \A d \in Conns : conn'[d].phase = conn[d].phase \/ d = c
    BY <2>1 DEF TypeOK, ConnOK
  <2>4. UNCHANGED <<lock, ending>>
    BY <2>1 DEF lockVars
  <2>5. HolderIsAtWork'
    BY <2>1, <2>3, <2>4 DEF HolderIsAtWork
  <2>6. WorkUnderLock' = WorkUnderLock
    BY <2>2, <2>4 DEF WorkUnderLock
  <2> QED
    BY <2>2, <2>4, <2>5, <2>6 DEF LockKept, WorkUnderLock
<1>9. ASSUME NEW c \in Conns, FlushDone(c) PROVE HolderIsAtWork' /\ LockKept
  BY <1>9
  DEF FlushDone, HolderIsAtWork, LockKept, WorkUnderLock, Starting, lockVars
<1>10. ASSUME NEW c \in Conns, HearDisconnect(c)
      PROVE  HolderIsAtWork' /\ LockKept
  BY <1>10
  DEF HearDisconnect, HolderIsAtWork, LockKept, WorkUnderLock, Starting,
      lockVars, InPhase
<1>11. ASSUME NEW c \in Conns, Disconnect(c) PROVE HolderIsAtWork' /\ LockKept
  BY <1>11 DEF Disconnect, HolderIsAtWork, LockKept, lockVars, LockFree
<1>12. ASSUME NEW c \in Conns, CapEnds(c) PROVE HolderIsAtWork' /\ LockKept
  BY <1>12 DEF CapEnds, HolderIsAtWork, LockKept, LockFree, EnterEnd
<1>13. ASSUME NEW c \in Conns, CapIsMoot(c) PROVE HolderIsAtWork' /\ LockKept
  BY <1>13
  DEF CapIsMoot, HolderIsAtWork, LockKept, lockVars, LockFree, EndIsMoot
<1>14. ASSUME NEW c \in Conns, RelayFrame(c) PROVE HolderIsAtWork' /\ LockKept
  BY <1>14
  DEF RelayFrame, HolderIsAtWork, LockKept, lockVars, LockFree, MayReceive
<1>15. ASSUME NEW c \in Conns, CapFrame(c) PROVE HolderIsAtWork' /\ LockKept
  BY <1>15
  DEF CapFrame, HolderIsAtWork, LockKept, lockVars, LockFree, MayReceive
<1>16. ASSUME NEW c \in Conns, ClientDrop(c) PROVE HolderIsAtWork' /\ LockKept
  BY <1>16
  DEF ClientDrop, HolderIsAtWork, LockKept, WorkUnderLock, Starting, lockVars
<1>17. ASSUME NEW q \in Requests, NEW op \in AllOps, NEW m \in Members,
             ReadRow(q, op, m)
      PROVE  HolderIsAtWork' /\ LockKept
  BY <1>17
  DEF ReadRow, HolderIsAtWork, LockKept, WorkUnderLock, Starting, lockVars
<1>18. ASSUME NEW q \in Requests, CommitPropose(q)
      PROVE  HolderIsAtWork' /\ LockKept
  BY <1>18
  DEF CommitPropose, HolderIsAtWork, LockKept, WorkUnderLock, Starting,
      lockVars, Ready, Answered, Idle
<1>19. ASSUME NEW q \in Requests, CommitAccept(q)
      PROVE  HolderIsAtWork' /\ LockKept
  BY <1>19
  DEF CommitAccept, HolderIsAtWork, LockKept, WorkUnderLock, Starting,
      lockVars, Ready, Continues
<1>20. ASSUME NEW q \in Requests, CommitReject(q)
      PROVE  HolderIsAtWork' /\ LockKept
  BY <1>20
  DEF CommitReject, HolderIsAtWork, LockKept, WorkUnderLock, Starting,
      lockVars, Ready, Answered, Idle
<1>21. ASSUME NEW q \in Requests, CommitClose(q)
      PROVE  HolderIsAtWork' /\ LockKept
  BY <1>21
  DEF CommitClose, HolderIsAtWork, LockKept, WorkUnderLock, Starting, lockVars,
      Continues
<1>22. ASSUME NEW q \in Requests, AcceptSchedules(q)
      PROVE  HolderIsAtWork' /\ LockKept
  BY <1>22
  DEF AcceptSchedules, HolderIsAtWork, LockKept, WorkUnderLock, Starting,
      lockVars, Answered, Idle
<1>23. ASSUME NEW q \in Requests, AcceptFails(q)
      PROVE  HolderIsAtWork' /\ LockKept
  BY <1>23
  DEF AcceptFails, HolderIsAtWork, LockKept, WorkUnderLock, Starting, lockVars,
      Answered, Idle
<1>24. ASSUME NEW q \in Requests, RequestEnds(q)
      PROVE  HolderIsAtWork' /\ LockKept
  BY <1>24 DEF RequestEnds, HolderIsAtWork, LockKept, LockFree, EnterEnd
<1>25. ASSUME NEW q \in Requests, EndRequestIsMoot(q)
      PROVE  HolderIsAtWork' /\ LockKept
  BY <1>25
  DEF EndRequestIsMoot, HolderIsAtWork, LockKept, lockVars, LockFree, EndIsMoot
<1>26. ASSUME NEW q \in Requests, RequestEndsRow(q)
      PROVE  HolderIsAtWork' /\ LockKept
  BY <1>26
  DEF RequestEndsRow, HolderIsAtWork, LockKept, WorkUnderLock, Starting,
      LockDiscipline, lockVars
<1>27. ASSUME NEW m \in Members, DeleteAccount(m)
      PROVE  HolderIsAtWork' /\ LockKept
  BY <1>27
  DEF DeleteAccount, HolderIsAtWork, LockKept, WorkUnderLock, Starting,
      lockVars
<1>28. CASE PersistClosed
  BY <1>28 DEF PersistClosed, HolderIsAtWork, LockKept, WorkUnderLock, Starting
<1>29. CASE NotifyEnded
  <2>1. lock' = None /\ ending.phase = "notify"
    BY <1>29 DEF NotifyEnded
  <2> QED
    BY <2>1 DEF HolderIsAtWork, LockKept, WorkUnderLock
<1>30. CASE MonitorDecides
  BY <1>30
  DEF MonitorDecides, HolderIsAtWork, LockKept, WorkUnderLock, Starting,
      lockVars
<1>31. CASE MonitorEnds
  BY <1>31 DEF MonitorEnds, HolderIsAtWork, LockKept, lockVars, LockFree
<1>32. CASE HandoffFires
  BY <1>32 DEF HandoffFires, HolderIsAtWork, LockKept, lockVars, LockFree
<1>33. ASSUME NEW t \in HandoffTasks, OrphanFires(t)
       PROVE  HolderIsAtWork' /\ LockKept
  BY <1>33
  DEF OrphanFires, HolderIsAtWork, LockKept, WorkUnderLock, Starting, lockVars,
      LockFree, EnterEnd
<1>34. CASE RunMaintenance
  BY <1>34
  DEF RunMaintenance, HolderIsAtWork, LockKept, WorkUnderLock, Starting,
      lockVars
<1>35. CASE Tick
  BY <1>35
  DEF Tick, HolderIsAtWork, LockKept, WorkUnderLock, Starting, lockVars
<1>36. ASSUME NEW c \in Conns, FailActivation(c)
      PROVE  HolderIsAtWork' /\ LockKept
  BY <1>36 DEF FailActivation, HolderIsAtWork, LockKept, WorkUnderLock
<1>37. ASSUME NEW c \in Conns, FailFrame(c) PROVE HolderIsAtWork' /\ LockKept
  BY <1>37
  DEF FailFrame, HolderIsAtWork, LockKept, lockVars, LockFree, MayReceive
<1>38. CASE FailPersist
  BY <1>38 DEF FailPersist, HolderIsAtWork, LockKept, WorkUnderLock
<1>39. CASE ServerRestart
  BY <1>39 DEF ServerRestart, HolderIsAtWork, LockKept, WorkUnderLock
<1>40. CASE UNCHANGED vars
  BY <1>40
  DEF HolderIsAtWork, LockKept, WorkUnderLock, Starting, lockVars, vars
<1> QED
  BY <1>1, <1>2, <1>3, <1>4, <1>5, <1>6, <1>7, <1>8, <1>9, <1>10, <1>11, <1>12,
     <1>13, <1>14, <1>15, <1>16, <1>17, <1>18, <1>19, <1>20, <1>21, <1>22,
     <1>23, <1>24, <1>25, <1>26, <1>27, <1>28, <1>29, <1>30, <1>31, <1>32,
     <1>33, <1>34, <1>35, <1>36, <1>37, <1>38, <1>39, <1>40
  DEF Next, HandlerStep, ClientStep, NewRequest, RequestStep, EndStep,
      TimerStep, Fault

\* Whoever holds the lock of the session activates it or ends it, whatever was
\* dropped, failed or restarted meanwhile: nobody waits for a lock that nobody
\* will release (relay.py, _join and end_session).
THEOREM HolderCorrect == Spec => []HolderIsAtWork
<1>1. Init => HolderIsAtWork
  BY DEF Init, ServerIdle, HolderIsAtWork
<1> QED
  BY <1>1, HolderStep, TypeCorrect, LockCorrect, PTL DEF Spec

\* The lock is not passed on, and every step that is taken under it brings it
\* closer to being released (relay.py, _join, _set_session_active, end_session).
THEOREM LockReturns == Spec => LockGoesBack
<1>1. ASSUME TypeOK, LockDiscipline, HolderIsAtWork, [Next]_vars
      PROVE  [lock # None =>
         /\ lock' \in {lock, None}
         /\ WorkUnderLock' <= WorkUnderLock
         /\ WorkUnderLock' = WorkUnderLock => UNCHANGED <<ending, Starting>>]_vars
  BY <1>1, HolderStep DEF LockKept
<1> QED
  BY <1>1, TypeCorrect, LockCorrect, HolderCorrect, PTL DEF Spec, LockGoesBack

----------------------------------------------------------------------------
\* The state that handlers work on, step by step.
LEMMA LoadedStep ==
    TypeOK /\ LockDiscipline /\ LoadedInv /\ [Next]_vars => LoadedInv'
<1> SUFFICES ASSUME TypeOK, LockDiscipline, LoadedInv, [Next]_vars
             PROVE  LoadedInv'
  OBVIOUS
<1> USE MembersAssumption, HoldersAssumption
<1>1. ASSUME NEW c \in Conns, NEW m \in Members, AuthenticateHello(c, m)
      PROVE  LoadedInv'
  BY <1>1 DEF AuthenticateHello, LoadedInv, LockDiscipline, memVars, Forgotten
<1>2. ASSUME NEW c \in Conns, Join(c) PROVE LoadedInv'
  BY <1>2 DEF Join, LoadedInv, LockDiscipline, JoinedState, FreshState
<1>3. ASSUME NEW c \in Conns, SkipActivation(c) PROVE LoadedInv'
  BY <1>3
  DEF SkipActivation, LoadedInv, LockDiscipline, InPhase, StartMonitoring
<1>4. ASSUME NEW c \in Conns, ReadForActivation(c) PROVE LoadedInv'
  BY <1>4 DEF ReadForActivation, LoadedInv, LockDiscipline, InPhase, memVars
<1>5. ASSUME NEW c \in Conns, CommitActivation(c) PROVE LoadedInv'
  BY <1>5
  DEF CommitActivation, LoadedInv, LockDiscipline, InPhase, StartMonitoring,
      ActivatedRow
<1>6. ASSUME NEW c \in Conns, SendReady(c) PROVE LoadedInv'
  BY <1>6 DEF SendReady, LoadedInv, LockDiscipline, memVars
<1>7. ASSUME NEW c \in Conns, FailReady(c) \/ BadFrame(c) PROVE LoadedInv'
  BY <1>7 DEF FailReady, BadFrame, LoadedInv, LockDiscipline, Finish, Out,
      memVars
<1>8. ASSUME NEW c \in Conns, FlushNext(c) PROVE LoadedInv'
  BY <1>8 DEF FlushNext, LoadedInv, LockDiscipline, Finish, Out
<1>9. ASSUME NEW c \in Conns, FlushDone(c) PROVE LoadedInv'
  BY <1>9 DEF FlushDone, LoadedInv, LockDiscipline, memVars
<1>10. ASSUME NEW c \in Conns, HearDisconnect(c) PROVE LoadedInv'
  BY <1>10 DEF HearDisconnect, LoadedInv, LockDiscipline, InPhase, memVars
<1>11. ASSUME NEW c \in Conns, Disconnect(c) PROVE LoadedInv'
  BY <1>11 DEF Disconnect, LoadedInv, LockDiscipline, Finish, Out
<1>12. ASSUME NEW c \in Conns, CapEnds(c) PROVE LoadedInv'
  BY <1>12 DEF CapEnds, LoadedInv, LockDiscipline, ClosedState, EnterEnd
<1>13. ASSUME NEW c \in Conns, CapIsMoot(c) PROVE LoadedInv'
  BY <1>13
  DEF CapIsMoot, LoadedInv, LockDiscipline, InPhase, memVars, EndIsMoot
<1>14. ASSUME NEW c \in Conns, RelayFrame(c) PROVE LoadedInv'
  BY <1>14
  DEF RelayFrame, LoadedInv, LockDiscipline, InPhase, Finish, Out, MayReceive,
      CountFrame, Buffer, Forward
<1>15. ASSUME NEW c \in Conns, CapFrame(c) PROVE LoadedInv'
  BY <1>15
  DEF CapFrame, LoadedInv, LockDiscipline, InPhase, memVars, MayReceive
<1>16. ASSUME NEW c \in Conns, ClientDrop(c) PROVE LoadedInv'
  BY <1>16 DEF ClientDrop, LoadedInv, LockDiscipline, memVars
<1>17. ASSUME NEW q \in Requests, NEW op \in AllOps, NEW m \in Members,
                    ReadRow(q, op, m) PROVE LoadedInv'
  BY <1>17 DEF ReadRow, LoadedInv, LockDiscipline, memVars
<1>18. ASSUME NEW q \in Requests, CommitPropose(q) PROVE LoadedInv'
  BY <1>18 DEF CommitPropose, LoadedInv, LockDiscipline, memVars
<1>19. ASSUME NEW q \in Requests, CommitAccept(q) PROVE LoadedInv'
  BY <1>19 DEF CommitAccept, LoadedInv, LockDiscipline, memVars
<1>20. ASSUME NEW q \in Requests, CommitReject(q) PROVE LoadedInv'
  BY <1>20 DEF CommitReject, LoadedInv, LockDiscipline, memVars
<1>21. ASSUME NEW q \in Requests, CommitClose(q) PROVE LoadedInv'
  BY <1>21 DEF CommitClose, LoadedInv, LockDiscipline, memVars
<1>22. ASSUME NEW q \in Requests, AcceptSchedules(q) PROVE LoadedInv'
  BY <1>22
  DEF AcceptSchedules, LoadedInv, LockDiscipline, StateOK, SessionState,
      TypeOK, ScheduleHandoffClose
<1>23. ASSUME NEW q \in Requests, AcceptFails(q) PROVE LoadedInv'
  BY <1>23 DEF AcceptFails, LoadedInv, LockDiscipline, memVars
<1>24. ASSUME NEW q \in Requests, RequestEnds(q) PROVE LoadedInv'
  BY <1>24 DEF RequestEnds, LoadedInv, LockDiscipline, ClosedState, EnterEnd
<1>25. ASSUME NEW q \in Requests, EndRequestIsMoot(q) PROVE LoadedInv'
  BY <1>25 DEF EndRequestIsMoot, LoadedInv, LockDiscipline, memVars, EndIsMoot
<1>26. ASSUME NEW q \in Requests, RequestEndsRow(q) PROVE LoadedInv'
  BY <1>26 DEF RequestEndsRow, LoadedInv, LockDiscipline
<1>27. ASSUME NEW m \in Members, DeleteAccount(m) PROVE LoadedInv'
  BY <1>27 DEF DeleteAccount, LoadedInv, LockDiscipline, memVars
<1>28. CASE PersistClosed
  BY <1>28 DEF PersistClosed, LoadedInv, LockDiscipline, memVars, ClosesRow
<1>29. CASE NotifyEnded
  BY <1>29 DEF NotifyEnded, LoadedInv, LockDiscipline
<1>30. CASE MonitorDecides
  BY <1>30 DEF MonitorDecides, LoadedInv, LockDiscipline
<1>31. CASE MonitorEnds
  BY <1>31 DEF MonitorEnds, LoadedInv, LockDiscipline, ClosedState
<1>32. CASE HandoffFires
  BY <1>32 DEF HandoffFires, LoadedInv, LockDiscipline, ClosedState
<1>33. ASSUME NEW t \in HandoffTasks, OrphanFires(t)
       PROVE  LoadedInv'
  BY <1>33
  DEF OrphanFires, LoadedInv, LockDiscipline, StateOK, SessionState,
      ClosedState, TypeOK, EnterEnd, EndIsMoot
<1>34. CASE RunMaintenance
  BY <1>34 DEF RunMaintenance, LoadedInv, LockDiscipline, memVars, Expired
<1>35. CASE Tick
  BY <1>35 DEF Tick, LoadedInv, LockDiscipline
<1>36. ASSUME NEW c \in Conns, FailActivation(c) PROVE LoadedInv'
  BY <1>36 DEF FailActivation, LoadedInv, LockDiscipline, Finish, Out, memVars
<1>37. ASSUME NEW c \in Conns, FailFrame(c) PROVE LoadedInv'
  BY <1>37
  DEF FailFrame, LoadedInv, LockDiscipline, Finish, Out, MayReceive,
      CountFrame
<1>38. CASE FailPersist
  BY <1>38 DEF FailPersist, LoadedInv, LockDiscipline, Finish, Out, memVars
<1>39. CASE ServerRestart
  BY <1>39 DEF ServerRestart, LoadedInv, LockDiscipline, Out
<1>40. CASE UNCHANGED vars
  BY <1>40 DEF vars, LoadedInv, LockDiscipline, memVars
<1> QED
  BY <1>1, <1>2, <1>3, <1>4, <1>5, <1>6, <1>7, <1>8, <1>9, <1>10, <1>11,
     <1>12, <1>13, <1>14, <1>15, <1>16, <1>17, <1>18, <1>19, <1>20, <1>21,
     <1>22, <1>23, <1>24, <1>25, <1>26, <1>27, <1>28, <1>29, <1>30, <1>31,
     <1>32, <1>33, <1>34, <1>35, <1>36, <1>37, <1>38, <1>39, <1>40
  DEF Next, HandlerStep, ClientStep, NewRequest, RequestStep, EndStep,
      TimerStep, Fault

\* No handler works on a state that is not there.
LEMMA LoadedCorrect == Spec => []LoadedInv
<1>1. Init => LoadedInv
  BY DEF Init, ServerIdle, LoadedInv, Out
<1> QED
  BY <1>1, LoadedStep, TypeCorrect, LockCorrect, PTL DEF Spec

----------------------------------------------------------------------------
\* The registered sockets, step by step.
LEMMA RegisteredStep ==
    TypeOK /\ LockDiscipline /\ RegisteredInv /\ [Next]_vars => RegisteredInv'
<1> SUFFICES ASSUME TypeOK, LockDiscipline, RegisteredInv, [Next]_vars
             PROVE  RegisteredInv'
  OBVIOUS
<1> USE MembersAssumption, HoldersAssumption
<1>1. ASSUME NEW c \in Conns, NEW m \in Members, AuthenticateHello(c, m)
      PROVE  RegisteredInv'
  BY <1>1
  DEF AuthenticateHello, RegisteredInv, LockDiscipline, Registered, memVars,
      Forgotten
<1>2. ASSUME NEW c \in Conns, Join(c) PROVE RegisteredInv'
  BY <1>2
  DEF Join, RegisteredInv, LockDiscipline, SocketsOK, LockFree, TypeOK,
      ConnOK, JoinedState, FreshState
<1>3. ASSUME NEW c \in Conns, SkipActivation(c) PROVE RegisteredInv'
  BY <1>3
  DEF SkipActivation, RegisteredInv, LockDiscipline, InPhase, StartMonitoring
<1>4. ASSUME NEW c \in Conns, ReadForActivation(c) PROVE RegisteredInv'
  BY <1>4
  DEF ReadForActivation, RegisteredInv, LockDiscipline, InPhase, memVars
<1>5. ASSUME NEW c \in Conns, CommitActivation(c) PROVE RegisteredInv'
  BY <1>5
  DEF CommitActivation, RegisteredInv, LockDiscipline, InPhase,
      StartMonitoring, ActivatedRow
<1>6. ASSUME NEW c \in Conns, SendReady(c) PROVE RegisteredInv'
  BY <1>6 DEF SendReady, RegisteredInv, LockDiscipline, memVars
<1>7. ASSUME NEW c \in Conns, FailReady(c) \/ BadFrame(c) PROVE RegisteredInv'
  <2>1. CASE FailReady(c)
    BY <2>1 DEF FailReady, RegisteredInv, LockDiscipline, Finish, Out, memVars
  <2>2. CASE BadFrame(c)
    BY <2>2 DEF BadFrame, RegisteredInv, LockDiscipline, Finish, Out, memVars
  <2> QED  BY <1>7, <2>1, <2>2
<1>8. ASSUME NEW c \in Conns, FlushNext(c) PROVE RegisteredInv'
  BY <1>8
  DEF FlushNext, RegisteredInv, LockDiscipline, Finish, Out, TypeOK, ConnOK
<1>9. ASSUME NEW c \in Conns, FlushDone(c) PROVE RegisteredInv'
  BY <1>9 DEF FlushDone, RegisteredInv, LockDiscipline, memVars
<1>10. ASSUME NEW c \in Conns, HearDisconnect(c) PROVE RegisteredInv'
  BY <1>10 DEF HearDisconnect, RegisteredInv, LockDiscipline, InPhase, memVars
<1>11. ASSUME NEW c \in Conns, Disconnect(c) PROVE RegisteredInv'
  BY <1>11
  DEF Disconnect, RegisteredInv, LockDiscipline, LockFree, Finish, Out,
      IsCurrent
<1>12. ASSUME NEW c \in Conns, CapEnds(c) PROVE RegisteredInv'
  BY <1>12 DEF CapEnds, RegisteredInv, LockDiscipline, LockFree, EnterEnd
<1>13. ASSUME NEW c \in Conns, CapIsMoot(c) PROVE RegisteredInv'
  BY <1>13
  DEF CapIsMoot, RegisteredInv, LockDiscipline, LockFree, InPhase, memVars,
      EndIsMoot
<1>14. ASSUME NEW c \in Conns, RelayFrame(c) PROVE RegisteredInv'
  BY <1>14
  DEF RelayFrame, RegisteredInv, LockDiscipline, LockFree, InPhase, Finish,
      Out, TypeOK, ConnOK, Connection, MayReceive, CountFrame, Buffer, Forward
<1>15. ASSUME NEW c \in Conns, CapFrame(c) PROVE RegisteredInv'
  BY <1>15
  DEF CapFrame, RegisteredInv, LockDiscipline, LockFree, InPhase, memVars,
      MayReceive
<1>16. ASSUME NEW c \in Conns, ClientDrop(c) PROVE RegisteredInv'
  BY <1>16 DEF ClientDrop, RegisteredInv, LockDiscipline, memVars
<1>17. ASSUME NEW q \in Requests, NEW op \in AllOps, NEW m \in Members,
                    ReadRow(q, op, m) PROVE RegisteredInv'
  BY <1>17 DEF ReadRow, RegisteredInv, LockDiscipline, memVars
<1>18. ASSUME NEW q \in Requests, CommitPropose(q) PROVE RegisteredInv'
  BY <1>18 DEF CommitPropose, RegisteredInv, LockDiscipline, memVars
<1>19. ASSUME NEW q \in Requests, CommitAccept(q) PROVE RegisteredInv'
  BY <1>19 DEF CommitAccept, RegisteredInv, LockDiscipline, memVars
<1>20. ASSUME NEW q \in Requests, CommitReject(q) PROVE RegisteredInv'
  BY <1>20 DEF CommitReject, RegisteredInv, LockDiscipline, memVars
<1>21. ASSUME NEW q \in Requests, CommitClose(q) PROVE RegisteredInv'
  BY <1>21 DEF CommitClose, RegisteredInv, LockDiscipline, memVars
<1>22. ASSUME NEW q \in Requests, AcceptSchedules(q) PROVE RegisteredInv'
  BY <1>22
  DEF AcceptSchedules, RegisteredInv, LockDiscipline, ScheduleHandoffClose
<1>23. ASSUME NEW q \in Requests, AcceptFails(q) PROVE RegisteredInv'
  BY <1>23 DEF AcceptFails, RegisteredInv, LockDiscipline, Registered, memVars
<1>24. ASSUME NEW q \in Requests, RequestEnds(q) PROVE RegisteredInv'
  BY <1>24 DEF RequestEnds, RegisteredInv, LockDiscipline, LockFree, EnterEnd
<1>25. ASSUME NEW q \in Requests, EndRequestIsMoot(q) PROVE RegisteredInv'
  BY <1>25
  DEF EndRequestIsMoot, RegisteredInv, LockDiscipline, LockFree, memVars,
      EndIsMoot
<1>26. ASSUME NEW q \in Requests, RequestEndsRow(q) PROVE RegisteredInv'
  BY <1>26 DEF RequestEndsRow, RegisteredInv, LockDiscipline, memVars
<1>27. ASSUME NEW m \in Members, DeleteAccount(m) PROVE RegisteredInv'
  BY <1>27 DEF DeleteAccount, RegisteredInv, LockDiscipline, memVars
<1>28. CASE PersistClosed
  BY <1>28
  DEF PersistClosed, RegisteredInv, LockDiscipline, memVars, ClosesRow
<1>29. CASE NotifyEnded
  <2>1. ASSUME NEW c \in Conns, conn'[c].live
        PROVE  conn[c].live /\ c \notin Registered /\ conn'[c].agent = conn[c].agent
    BY <1>29, <2>1 DEF NotifyEnded, TypeOK, ConnOK, Connection
  <2>2. ASSUME NEW c \in Conns, c # lock
        PROVE  conn'[c].phase = conn[c].phase
    BY <1>29, <2>2 DEF NotifyEnded, TypeOK, ConnOK, Connection
  <2>3. ASSUME NEW c \in Conns, sockets[conn[c].agent] = c, conn[c].phase # "out"
        PROVE  c \in Registered
    BY <2>3 DEF Registered, TypeOK, ConnOK
  <2> QED
    BY <2>1, <2>2, <2>3 DEF RegisteredInv, TypeOK, HolderOK
<1>30. CASE MonitorDecides
  BY <1>30 DEF MonitorDecides, RegisteredInv, LockDiscipline
<1>31. CASE MonitorEnds
  BY <1>31 DEF MonitorEnds, RegisteredInv, LockDiscipline, LockFree
<1>32. CASE HandoffFires
  BY <1>32 DEF HandoffFires, RegisteredInv, LockDiscipline, LockFree
<1>33. ASSUME NEW t \in HandoffTasks, OrphanFires(t)
       PROVE  RegisteredInv'
  BY <1>33
  DEF OrphanFires, RegisteredInv, LockDiscipline, LockFree, EnterEnd,
      EndIsMoot
<1>34. CASE RunMaintenance
  BY <1>34 DEF RunMaintenance, RegisteredInv, LockDiscipline, memVars, Expired
<1>35. CASE Tick
  BY <1>35 DEF Tick, RegisteredInv, LockDiscipline
<1>36. ASSUME NEW c \in Conns, FailActivation(c) PROVE RegisteredInv'
  BY <1>36
  DEF FailActivation, RegisteredInv, LockDiscipline, Finish, Out, memVars
<1>37. ASSUME NEW c \in Conns, FailFrame(c) PROVE RegisteredInv'
  BY <1>37
  DEF FailFrame, RegisteredInv, LockDiscipline, LockFree, Finish, Out,
      MayReceive, CountFrame
<1>38. CASE FailPersist
  BY <1>38
  DEF FailPersist, RegisteredInv, LockDiscipline, Finish, Out, memVars
<1>39. CASE ServerRestart
  BY <1>39 DEF ServerRestart, RegisteredInv, LockDiscipline, Out
<1>40. CASE UNCHANGED vars
  BY <1>40 DEF vars, RegisteredInv, LockDiscipline, memVars
<1> QED
  BY <1>1, <1>2, <1>3, <1>4, <1>5, <1>6, <1>7, <1>8, <1>9, <1>10, <1>11,
     <1>12, <1>13, <1>14, <1>15, <1>16, <1>17, <1>18, <1>19, <1>20, <1>21,
     <1>22, <1>23, <1>24, <1>25, <1>26, <1>27, <1>28, <1>29, <1>30, <1>31,
     <1>32, <1>33, <1>34, <1>35, <1>36, <1>37, <1>38, <1>39, <1>40
  DEF Next, HandlerStep, ClientStep, NewRequest, RequestStep, EndStep,
      TimerStep, Fault

\* A working connection that receives frames is the one its agent's frames go
\* to (relay.py, _join and the "is websocket" test of _disconnect).
THEOREM RegisteredCorrect == Spec => []LoopIsRegistered
<1>1. Init => RegisteredInv
  BY DEF Init, ServerIdle, RegisteredInv, Out
<1>2. RegisteredInv => LoopIsRegistered
  BY DEF RegisteredInv, LoopIsRegistered
<1> QED
  BY <1>1, <1>2, RegisteredStep, TypeCorrect, LockCorrect, PTL DEF Spec

----------------------------------------------------------------------------
\* The buffers, step by step.
LEMMA StrandedStep ==
    TypeOK /\ LockDiscipline /\ StrandedInv /\ [Next]_vars => StrandedInv'
<1> SUFFICES ASSUME TypeOK, LockDiscipline, StrandedInv, [Next]_vars
             PROVE  StrandedInv'
  OBVIOUS
<1> USE MembersAssumption, HoldersAssumption, OtherIsMember
<1>1. ASSUME NEW c \in Conns, NEW m \in Members, AuthenticateHello(c, m)
      PROVE  StrandedInv'
  BY <1>1
  DEF AuthenticateHello, StrandedInv, LockDiscipline, Registered, memVars,
      Forgotten
<1>2. ASSUME NEW c \in Conns, Join(c) PROVE StrandedInv'
  BY <1>2
  DEF Join, StrandedInv, LockDiscipline, SocketsOK, LockFree, TypeOK,
      JoinedState, FreshState
<1>3. ASSUME NEW c \in Conns, SkipActivation(c) PROVE StrandedInv'
  BY <1>3
  DEF SkipActivation, StrandedInv, LockDiscipline, InPhase, StartMonitoring
<1>4. ASSUME NEW c \in Conns, ReadForActivation(c) PROVE StrandedInv'
  BY <1>4 DEF ReadForActivation, StrandedInv, LockDiscipline, InPhase, memVars
<1>5. ASSUME NEW c \in Conns, CommitActivation(c) PROVE StrandedInv'
  BY <1>5
  DEF CommitActivation, StrandedInv, LockDiscipline, InPhase, StartMonitoring,
      ActivatedRow
<1>6. ASSUME NEW c \in Conns, SendReady(c) PROVE StrandedInv'
  BY <1>6 DEF SendReady, StrandedInv, LockDiscipline, ConnOK, memVars
<1>7. ASSUME NEW c \in Conns, FailReady(c) \/ BadFrame(c) PROVE StrandedInv'
  <2>1. CASE FailReady(c)
    BY <2>1 DEF FailReady, StrandedInv, LockDiscipline, Finish, Out, memVars
  <2>2. CASE BadFrame(c)
    BY <2>2 DEF BadFrame, StrandedInv, LockDiscipline, Finish, Out, memVars
  <2> QED  BY <1>7, <2>1, <2>2
<1>8. ASSUME NEW c \in Conns, FlushNext(c) PROVE StrandedInv'
  <2>1. ASSUME NEW d \in Conns
        PROVE  \/ conn'[d] = conn[d]
               \/ conn'[d].phase = "out"
    BY <1>8 DEF FlushNext, Finish, Out, TypeOK, ConnOK
  <2>2. ASSUME NEW n \in Members, buffers[n] = <<>>
        PROVE  buffers'[n] = <<>>
    BY <1>8, <2>2 DEF FlushNext
  <2> QED
    BY <1>8, <2>1, <2>2 DEF FlushNext, StrandedInv, TypeOK, SocketsOK
<1>9. ASSUME NEW c \in Conns, FlushDone(c) PROVE StrandedInv'
  BY <1>9
  DEF FlushDone, StrandedInv, LockDiscipline, NothingBuffered, ConnOK,
      Connection, memVars
<1>10. ASSUME NEW c \in Conns, HearDisconnect(c) PROVE StrandedInv'
  BY <1>10 DEF HearDisconnect, StrandedInv, LockDiscipline, InPhase, memVars
<1>11. ASSUME NEW c \in Conns, Disconnect(c) PROVE StrandedInv'
  BY <1>11
  DEF Disconnect, StrandedInv, LockDiscipline, LockFree, Finish, Out,
      IsCurrent
<1>12. ASSUME NEW c \in Conns, CapEnds(c) PROVE StrandedInv'
  BY <1>12 DEF CapEnds, StrandedInv, LockDiscipline, LockFree, EnterEnd
<1>13. ASSUME NEW c \in Conns, CapIsMoot(c) PROVE StrandedInv'
  BY <1>13
  DEF CapIsMoot, StrandedInv, LockDiscipline, LockFree, InPhase, memVars,
      EndIsMoot
<1>14. ASSUME NEW c \in Conns, RelayFrame(c) PROVE StrandedInv'
  <2>1. ASSUME NEW d \in Conns
        PROVE  \/ conn'[d] = conn[d]
               \/ conn'[d].phase = "out"
               \/ /\ conn[d].phase = "loop" /\ conn'[d].phase = "leaving"
                  /\ conn'[d].agent = conn[d].agent
    BY <1>14
    DEF RelayFrame, MayReceive, Buffer, Forward, InPhase, Finish, Out, TypeOK,
        ConnOK, Connection
  <2>2. ASSUME NEW m \in Members, sockets[m] # None
        PROVE  buffers'[Other(m)] = buffers[Other(m)]
    BY <1>14, <2>2, OtherIsMember
    DEF RelayFrame, Buffer, Forward, TypeOK, BuffersOK
  <2>3. UNCHANGED sockets
    BY <1>14 DEF RelayFrame
  <2>4. ASSUME NEW m \in Members, sockets'[m] # None,
               conn'[sockets'[m]].phase # "out"
        PROVE  conn'[sockets'[m]].agent = m
    <3>1. sockets[m] \in Conns /\ sockets[m] # None
      BY <2>3, <2>4 DEF TypeOK, SocketsOK
    <3> QED
      BY <2>1, <2>3, <2>4, <3>1 DEF StrandedInv
  <2>5. ASSUME NEW m \in Members, sockets'[m] # None,
               conn'[sockets'[m]].phase \in {"loop", "capping"}
        PROVE  buffers'[Other(m)] = <<>>
    <3>1. sockets[m] \in Conns /\ sockets[m] # None
      BY <2>3, <2>5 DEF TypeOK, SocketsOK
    <3>2. conn'[sockets[m]] = conn[sockets[m]]
      BY <2>1, <2>3, <2>5, <3>1
    <3> QED
      BY <2>2, <2>3, <2>5, <3>1, <3>2 DEF StrandedInv
  <2> QED
    BY <2>4, <2>5 DEF StrandedInv
<1>15. ASSUME NEW c \in Conns, CapFrame(c) PROVE StrandedInv'
  BY <1>15
  DEF CapFrame, StrandedInv, LockDiscipline, LockFree, InPhase, memVars,
      MayReceive
<1>16. ASSUME NEW c \in Conns, ClientDrop(c) PROVE StrandedInv'
  BY <1>16 DEF ClientDrop, StrandedInv, LockDiscipline, memVars
<1>17. ASSUME NEW q \in Requests, NEW op \in AllOps, NEW m \in Members,
                    ReadRow(q, op, m) PROVE StrandedInv'
  BY <1>17 DEF ReadRow, StrandedInv, LockDiscipline, memVars
<1>18. ASSUME NEW q \in Requests, CommitPropose(q) PROVE StrandedInv'
  BY <1>18 DEF CommitPropose, StrandedInv, LockDiscipline, memVars
<1>19. ASSUME NEW q \in Requests, CommitAccept(q) PROVE StrandedInv'
  BY <1>19 DEF CommitAccept, StrandedInv, LockDiscipline, memVars
<1>20. ASSUME NEW q \in Requests, CommitReject(q) PROVE StrandedInv'
  BY <1>20 DEF CommitReject, StrandedInv, LockDiscipline, memVars
<1>21. ASSUME NEW q \in Requests, CommitClose(q) PROVE StrandedInv'
  BY <1>21 DEF CommitClose, StrandedInv, LockDiscipline, memVars
<1>22. ASSUME NEW q \in Requests, AcceptSchedules(q) PROVE StrandedInv'
  BY <1>22
  DEF AcceptSchedules, StrandedInv, LockDiscipline, ScheduleHandoffClose
<1>23. ASSUME NEW q \in Requests, AcceptFails(q) PROVE StrandedInv'
  BY <1>23 DEF AcceptFails, StrandedInv, LockDiscipline, Registered, memVars
<1>24. ASSUME NEW q \in Requests, RequestEnds(q) PROVE StrandedInv'
  BY <1>24 DEF RequestEnds, StrandedInv, LockDiscipline, LockFree, EnterEnd
<1>25. ASSUME NEW q \in Requests, EndRequestIsMoot(q) PROVE StrandedInv'
  BY <1>25
  DEF EndRequestIsMoot, StrandedInv, LockDiscipline, LockFree, memVars,
      EndIsMoot
<1>26. ASSUME NEW q \in Requests, RequestEndsRow(q) PROVE StrandedInv'
  BY <1>26 DEF RequestEndsRow, StrandedInv, LockDiscipline, memVars
<1>27. ASSUME NEW m \in Members, DeleteAccount(m) PROVE StrandedInv'
  BY <1>27 DEF DeleteAccount, StrandedInv, LockDiscipline, memVars
<1>28. CASE PersistClosed
  BY <1>28 DEF PersistClosed, StrandedInv, LockDiscipline, memVars, ClosesRow
<1>29. CASE NotifyEnded
  BY <1>29 DEF NotifyEnded, StrandedInv, LockDiscipline, Registered
<1>30. CASE MonitorDecides
  BY <1>30 DEF MonitorDecides, StrandedInv, LockDiscipline
<1>31. CASE MonitorEnds
  BY <1>31 DEF MonitorEnds, StrandedInv, LockDiscipline, LockFree
<1>32. CASE HandoffFires
  BY <1>32 DEF HandoffFires, StrandedInv, LockDiscipline, LockFree
<1>33. ASSUME NEW t \in HandoffTasks, OrphanFires(t)
       PROVE  StrandedInv'
  BY <1>33
  DEF OrphanFires, StrandedInv, LockDiscipline, LockFree, EnterEnd, EndIsMoot
<1>34. CASE RunMaintenance
  BY <1>34 DEF RunMaintenance, StrandedInv, LockDiscipline, memVars, Expired
<1>35. CASE Tick
  BY <1>35 DEF Tick, StrandedInv, LockDiscipline
<1>36. ASSUME NEW c \in Conns, FailActivation(c) PROVE StrandedInv'
  BY <1>36
  DEF FailActivation, StrandedInv, LockDiscipline, Finish, Out, memVars
<1>37. ASSUME NEW c \in Conns, FailFrame(c) PROVE StrandedInv'
  BY <1>37
  DEF FailFrame, StrandedInv, LockDiscipline, LockFree, Finish, Out,
      MayReceive, CountFrame
<1>38. CASE FailPersist
  BY <1>38 DEF FailPersist, StrandedInv, LockDiscipline, Finish, Out, memVars
<1>39. CASE ServerRestart
  BY <1>39 DEF ServerRestart, StrandedInv, LockDiscipline, Out
<1>40. CASE UNCHANGED vars
  BY <1>40 DEF vars, StrandedInv, LockDiscipline, memVars
<1> QED
  BY <1>1, <1>2, <1>3, <1>4, <1>5, <1>6, <1>7, <1>8, <1>9, <1>10, <1>11,
     <1>12, <1>13, <1>14, <1>15, <1>16, <1>17, <1>18, <1>19, <1>20, <1>21,
     <1>22, <1>23, <1>24, <1>25, <1>26, <1>27, <1>28, <1>29, <1>30, <1>31,
     <1>32, <1>33, <1>34, <1>35, <1>36, <1>37, <1>38, <1>39, <1>40
  DEF Next, HandlerStep, ClientStep, NewRequest, RequestStep, EndStep,
      TimerStep, Fault

\* Nothing waits in a buffer for a connection that receives frames, although
\* the flush runs outside the lock (relay.py, _flush_for_joined_agent).
THEOREM StrandedCorrect == Spec => []NoneStranded
<1>1. Init => StrandedInv
  BY DEF Init, ServerIdle, StrandedInv, Out
<1>2. StrandedInv => NoneStranded
  BY DEF StrandedInv, NoneStranded
<1> QED
  BY <1>1, <1>2, StrandedStep, TypeCorrect, LockCorrect, PTL DEF Spec

----------------------------------------------------------------------------
\* The monitor, step by step.
LEMMA WatchedStep ==
    TypeOK /\ LockDiscipline /\ WatchedInv /\ [Next]_vars => WatchedInv'
<1> SUFFICES ASSUME TypeOK, LockDiscipline, WatchedInv, [Next]_vars
             PROVE  WatchedInv'
  OBVIOUS
<1> USE MembersAssumption, HoldersAssumption, LimitsAssumption
<1>1. ASSUME NEW c \in Conns, NEW m \in Members, AuthenticateHello(c, m)
      PROVE  WatchedInv'
  BY <1>1
  DEF AuthenticateHello, WatchedInv, LockDiscipline, EnvironmentOK, memVars,
      lockVars, environment, Forgotten
<1>2. ASSUME NEW c \in Conns, Join(c) PROVE WatchedInv'
  BY <1>2
  DEF Join, WatchedInv, LockDiscipline, EnvironmentOK, LockFree, NoState,
      environment, JoinedState, FreshState
<1>3. ASSUME NEW c \in Conns, SkipActivation(c) PROVE WatchedInv'
  BY <1>3
  DEF SkipActivation, WatchedInv, LockDiscipline, EnvironmentOK, InPhase,
      StartMonitoring
<1>4. ASSUME NEW c \in Conns, ReadForActivation(c) PROVE WatchedInv'
  BY <1>4
  DEF ReadForActivation, WatchedInv, LockDiscipline, EnvironmentOK, InPhase,
      lockVars
<1>5. ASSUME NEW c \in Conns, CommitActivation(c) PROVE WatchedInv'
  BY <1>5
  DEF CommitActivation, WatchedInv, LockDiscipline, EnvironmentOK, InPhase,
      StartMonitoring, ActivatedRow
<1>6. ASSUME NEW c \in Conns, SendReady(c) PROVE WatchedInv'
  BY <1>6
  DEF SendReady, WatchedInv, LockDiscipline, EnvironmentOK, memVars, lockVars,
      environment
<1>7. ASSUME NEW c \in Conns, FailReady(c) \/ BadFrame(c) PROVE WatchedInv'
  <2>1. CASE FailReady(c)
    BY <2>1
    DEF FailReady, WatchedInv, LockDiscipline, EnvironmentOK, Finish, Out,
        memVars, lockVars, environment
  <2>2. CASE BadFrame(c)
    BY <2>2
    DEF BadFrame, WatchedInv, LockDiscipline, EnvironmentOK, Finish, Out,
        memVars, lockVars, environment
  <2> QED  BY <1>7, <2>1, <2>2
<1>8. ASSUME NEW c \in Conns, FlushNext(c) PROVE WatchedInv'
  BY <1>8
  DEF FlushNext, WatchedInv, LockDiscipline, EnvironmentOK, Finish, Out,
      TypeOK, ConnOK, lockVars, environment
<1>9. ASSUME NEW c \in Conns, FlushDone(c) PROVE WatchedInv'
  BY <1>9
  DEF FlushDone, WatchedInv, LockDiscipline, EnvironmentOK, memVars, lockVars,
      environment
<1>10. ASSUME NEW c \in Conns, HearDisconnect(c) PROVE WatchedInv'
  BY <1>10
  DEF HearDisconnect, WatchedInv, LockDiscipline, EnvironmentOK, InPhase,
      memVars, lockVars, environment
<1>11. ASSUME NEW c \in Conns, Disconnect(c) PROVE WatchedInv'
  BY <1>11
  DEF Disconnect, WatchedInv, LockDiscipline, EnvironmentOK, LockFree, Finish,
      Out, environment
<1>12. ASSUME NEW c \in Conns, CapEnds(c) PROVE WatchedInv'
  BY <1>12
  DEF CapEnds, WatchedInv, LockDiscipline, EnvironmentOK, LockFree,
      ClosedState, EnterEnd
<1>13. ASSUME NEW c \in Conns, CapIsMoot(c) PROVE WatchedInv'
  BY <1>13
  DEF CapIsMoot, WatchedInv, LockDiscipline, EnvironmentOK, LockFree, InPhase,
      memVars, EndIsMoot
<1>14. ASSUME NEW c \in Conns, RelayFrame(c) PROVE WatchedInv'
  BY <1>14
  DEF RelayFrame, WatchedInv, LockDiscipline, EnvironmentOK, LockFree,
      InPhase, Finish, Out, environment, MayReceive, CountFrame, Buffer,
      Forward
<1>15. ASSUME NEW c \in Conns, CapFrame(c) PROVE WatchedInv'
  BY <1>15
  DEF CapFrame, WatchedInv, LockDiscipline, EnvironmentOK, LockFree, InPhase,
      memVars, environment, MayReceive
<1>16. ASSUME NEW c \in Conns, ClientDrop(c) PROVE WatchedInv'
  BY <1>16
  DEF ClientDrop, WatchedInv, LockDiscipline, EnvironmentOK, memVars,
      lockVars, environment
<1>17. ASSUME NEW q \in Requests, NEW op \in AllOps, NEW m \in Members,
                    ReadRow(q, op, m) PROVE WatchedInv'
  BY <1>17
  DEF ReadRow, WatchedInv, LockDiscipline, EnvironmentOK, memVars, lockVars,
      environment
<1>18. ASSUME NEW q \in Requests, CommitPropose(q) PROVE WatchedInv'
  BY <1>18
  DEF CommitPropose, WatchedInv, LockDiscipline, EnvironmentOK, memVars,
      lockVars, environment
<1>19. ASSUME NEW q \in Requests, CommitAccept(q) PROVE WatchedInv'
  BY <1>19
  DEF CommitAccept, WatchedInv, LockDiscipline, EnvironmentOK, memVars,
      lockVars, environment
<1>20. ASSUME NEW q \in Requests, CommitReject(q) PROVE WatchedInv'
  BY <1>20
  DEF CommitReject, WatchedInv, LockDiscipline, EnvironmentOK, memVars,
      lockVars, environment
<1>21. ASSUME NEW q \in Requests, CommitClose(q) PROVE WatchedInv'
  BY <1>21
  DEF CommitClose, WatchedInv, LockDiscipline, EnvironmentOK, memVars,
      lockVars, environment
<1>22. ASSUME NEW q \in Requests, AcceptSchedules(q) PROVE WatchedInv'
  BY <1>22
  DEF AcceptSchedules, WatchedInv, LockDiscipline, EnvironmentOK, StateOK,
      SessionState, TypeOK, lockVars, environment, ScheduleHandoffClose
<1>23. ASSUME NEW q \in Requests, AcceptFails(q) PROVE WatchedInv'
  BY <1>23
  DEF AcceptFails, WatchedInv, LockDiscipline, EnvironmentOK, memVars,
      lockVars, environment
<1>24. ASSUME NEW q \in Requests, RequestEnds(q) PROVE WatchedInv'
  BY <1>24
  DEF RequestEnds, WatchedInv, LockDiscipline, EnvironmentOK, LockFree,
      ClosedState, EnterEnd
<1>25. ASSUME NEW q \in Requests, EndRequestIsMoot(q) PROVE WatchedInv'
  BY <1>25
  DEF EndRequestIsMoot, WatchedInv, LockDiscipline, EnvironmentOK, LockFree,
      memVars, EndIsMoot
<1>26. ASSUME NEW q \in Requests, RequestEndsRow(q) PROVE WatchedInv'
  BY <1>26
  DEF RequestEndsRow, WatchedInv, LockDiscipline, EnvironmentOK, memVars,
      lockVars, environment
<1>27. ASSUME NEW m \in Members, DeleteAccount(m) PROVE WatchedInv'
  BY <1>27
  DEF DeleteAccount, WatchedInv, LockDiscipline, EnvironmentOK, memVars,
      lockVars
<1>28. CASE PersistClosed
  BY <1>28
  DEF PersistClosed, WatchedInv, LockDiscipline, EnvironmentOK, memVars,
      ClosesRow
<1>29. CASE NotifyEnded
  BY <1>29 DEF NotifyEnded, WatchedInv, LockDiscipline, EnvironmentOK
<1>30. CASE MonitorDecides
  BY <1>30
  DEF MonitorDecides, WatchedInv, LockDiscipline, EnvironmentOK, lockVars,
      environment
<1>31. CASE MonitorEnds
  BY <1>31
  DEF MonitorEnds, WatchedInv, LockDiscipline, EnvironmentOK, LockFree,
      ClosedState
<1>32. CASE HandoffFires
  BY <1>32
  DEF HandoffFires, WatchedInv, LockDiscipline, EnvironmentOK, LockFree,
      ClosedState
<1>33. ASSUME NEW t \in HandoffTasks, OrphanFires(t)
       PROVE  WatchedInv'
  BY <1>33
  DEF OrphanFires, WatchedInv, LockDiscipline, EnvironmentOK, LockFree,
      StateOK, SessionState, ClosedState, TypeOK, lockVars, environment,
      EnterEnd, EndIsMoot
<1>34. CASE RunMaintenance
  BY <1>34
  DEF RunMaintenance, WatchedInv, LockDiscipline, EnvironmentOK, memVars,
      lockVars, environment, Expired
<1>35. CASE Tick
  BY <1>35
  DEF Tick, WatchedInv, LockDiscipline, EnvironmentOK, CountUp, Earlier,
      lockVars, environment
<1>36. ASSUME NEW c \in Conns, FailActivation(c) PROVE WatchedInv'
  BY <1>36
  DEF FailActivation, WatchedInv, LockDiscipline, EnvironmentOK, Finish, Out,
      TypeOK
<1>37. ASSUME NEW c \in Conns, FailFrame(c) PROVE WatchedInv'
  BY <1>37
  DEF FailFrame, WatchedInv, LockDiscipline, EnvironmentOK, LockFree, Finish,
      Out, TypeOK, MayReceive, CountFrame
<1>38. CASE FailPersist
  BY <1>38
  DEF FailPersist, WatchedInv, LockDiscipline, EnvironmentOK, Finish, Out,
      TypeOK
<1>39. CASE ServerRestart
  BY <1>39
  DEF ServerRestart, WatchedInv, LockDiscipline, EnvironmentOK, NoState, Out
<1>40. CASE UNCHANGED vars
  BY <1>40
  DEF vars, WatchedInv, LockDiscipline, EnvironmentOK, memVars, lockVars,
      environment
<1> QED
  BY <1>1, <1>2, <1>3, <1>4, <1>5, <1>6, <1>7, <1>8, <1>9, <1>10, <1>11,
     <1>12, <1>13, <1>14, <1>15, <1>16, <1>17, <1>18, <1>19, <1>20, <1>21,
     <1>22, <1>23, <1>24, <1>25, <1>26, <1>27, <1>28, <1>29, <1>30, <1>31,
     <1>32, <1>33, <1>34, <1>35, <1>36, <1>37, <1>38, <1>39, <1>40
  DEF Next, HandlerStep, ClientStep, NewRequest, RequestStep, EndStep,
      TimerStep, Fault

\* As long as the database does not fail, a started session that is not closed
\* has its monitor and is counted (relay.py, the end of _join).
THEOREM WatchedCorrect == Spec => []RunningIsWatched
<1>1. Init => WatchedInv
  BY DEF Init, ServerIdle, WatchedInv, NoState
<1>2. WatchedInv => RunningIsWatched
  BY MembersAssumption DEF WatchedInv, RunningIsWatched, LockFree
<1> QED
  BY <1>1, <1>2, WatchedStep, TypeCorrect, LockCorrect, PTL DEF Spec
=============================================================================
