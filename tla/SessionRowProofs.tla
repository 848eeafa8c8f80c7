-------------------------- MODULE SessionRowProofs --------------------------
(***************************************************************************)
(* What holds of the sessions row and the message count through every      *)
(* interleaving of the relay, the REST handlers and the maintenance job,   *)
(* and through restarts.                                                   *)
(*                                                                         *)
(* The handlers read the row in one step and commit in another, so each    *)
(* strengthening carries what a handler has read over to its commit.       *)
(***************************************************************************)
EXTENDS SessionLockProofs

\* A handler about to commit the activation found a session not yet started.
StartInv ==
    /\ StartedOnce
    /\ Awaiting(row) => row.started = 0
    /\ \A c \in Conns : conn[c].phase = "committing" => row.started = 0

\* A propose, accept or reject in progress read a row that had been activated.
DeadlineInv ==
    /\ DeadlineFitsStatus
    /\ row.status = "match_confirmed" => row.expires_in <= ActiveWindow
    /\ \A q \in Requests :
          /\ req[q].phase = "read"
          /\ req[q].op \in {"propose", "accept", "reject"}
          => row.expires_in <= ActiveWindow

\* The proposer of the row has assented, and an accept in progress answers the
\* proposal of the counterparty.
ConsentInv ==
    /\ MutualConsent
    /\ row.proposer # None => row.proposer \in assent
    /\ ending.reason = "handoff_complete" => assent = Members
    /\ \A q \in Requests :
          req[q].op = "accept" =>
            /\ req[q].phase = "read" => Other(req[q].by) \in assent
            /\ req[q].phase = "emitting" => assent = Members
    /\ \A q \in Requests : req[q].phase = "emitting" => req[q].op = "accept"

\* What restarts and failed writes may have made the server forget.
Debt == (PersistEvery - 1) * restarts + PersistEvery * faults

\* Frames counted since the count was last due to be saved.
Unsaved == IF state.loaded THEN state.message_count % PersistEvery ELSE 0

\* Both counts, the one in memory and the one saved, account for every frame
\* but the forgotten ones.
CapInv ==
    /\ state.loaded => TotalSent <= state.message_count + Debt
    /\ TotalSent <= row.message_count + Unsaved + Debt

----------------------------------------------------------------------------
\* The start of the session, step by step.
LEMMA StartStep ==
    TypeOK /\ LockDiscipline /\ StartInv /\ [Next]_vars => StartInv'
<1> SUFFICES ASSUME TypeOK, LockDiscipline, StartInv, [Next]_vars
             PROVE  StartInv'
  OBVIOUS
<1> USE MembersAssumption, HoldersAssumption
<1>1. ASSUME NEW c \in Conns, NEW m \in Members, AuthenticateHello(c, m)
      PROVE  StartInv'
  BY <1>1
  DEF AuthenticateHello, StartInv, StartedOnce, LockDiscipline, Awaiting,
      Forgotten
<1>2. ASSUME NEW c \in Conns, Join(c) PROVE StartInv'
  BY <1>2
  DEF Join, StartInv, StartedOnce, LockDiscipline, Awaiting, JoinedState,
      FreshState
<1>3. ASSUME NEW c \in Conns, SkipActivation(c) PROVE StartInv'
  BY <1>3
  DEF SkipActivation, StartInv, StartedOnce, LockDiscipline, Awaiting,
      InPhase, StartMonitoring
<1>4. ASSUME NEW c \in Conns, ReadForActivation(c) PROVE StartInv'
  BY <1>4
  DEF ReadForActivation, StartInv, StartedOnce, LockDiscipline, Awaiting,
      InPhase
<1>5. ASSUME NEW c \in Conns, CommitActivation(c) PROVE StartInv'
  BY <1>5
  DEF CommitActivation, StartInv, StartedOnce, LockDiscipline, Awaiting,
      InPhase, TypeOK, ConnOK, StartMonitoring, ActivatedRow
<1>6. ASSUME NEW c \in Conns, SendReady(c) PROVE StartInv'
  BY <1>6 DEF SendReady, StartInv, StartedOnce, LockDiscipline, Awaiting
<1>7. ASSUME NEW c \in Conns, FailReady(c) \/ BadFrame(c) PROVE StartInv'
  <2>1. CASE FailReady(c)
    BY <2>1
    DEF FailReady, StartInv, StartedOnce, LockDiscipline, Awaiting, Finish, Out
  <2>2. CASE BadFrame(c)
    BY <2>2
    DEF BadFrame, StartInv, StartedOnce, LockDiscipline, Awaiting, Finish, Out
  <2> QED  BY <1>7, <2>1, <2>2
<1>8. ASSUME NEW c \in Conns, FlushNext(c) PROVE StartInv'
  BY <1>8
  DEF FlushNext, StartInv, StartedOnce, LockDiscipline, Awaiting, Finish, Out,
      TypeOK, ConnOK
<1>9. ASSUME NEW c \in Conns, FlushDone(c) PROVE StartInv'
  BY <1>9 DEF FlushDone, StartInv, StartedOnce, LockDiscipline, Awaiting
<1>10. ASSUME NEW c \in Conns, HearDisconnect(c) PROVE StartInv'
  BY <1>10
  DEF HearDisconnect, StartInv, StartedOnce, LockDiscipline, Awaiting, InPhase
<1>11. ASSUME NEW c \in Conns, Disconnect(c) PROVE StartInv'
  BY <1>11
  DEF Disconnect, StartInv, StartedOnce, LockDiscipline, Awaiting, Finish, Out
<1>12. ASSUME NEW c \in Conns, CapEnds(c) PROVE StartInv'
  BY <1>12
  DEF CapEnds, StartInv, StartedOnce, LockDiscipline, Awaiting, EnterEnd
<1>13. ASSUME NEW c \in Conns, CapIsMoot(c) PROVE StartInv'
  BY <1>13
  DEF CapIsMoot, StartInv, StartedOnce, LockDiscipline, Awaiting, InPhase,
      EndIsMoot
<1>14. ASSUME NEW c \in Conns, RelayFrame(c) PROVE StartInv'
  BY <1>14
  DEF RelayFrame, StartInv, StartedOnce, LockDiscipline, Awaiting, InPhase,
      Finish, Out, TypeOK, ConnOK, Connection, MayReceive, CountFrame, Buffer,
      Forward
<1>15. ASSUME NEW c \in Conns, CapFrame(c) PROVE StartInv'
  BY <1>15
  DEF CapFrame, StartInv, StartedOnce, LockDiscipline, Awaiting, InPhase,
      MayReceive
<1>16. ASSUME NEW c \in Conns, ClientDrop(c) PROVE StartInv'
  BY <1>16 DEF ClientDrop, StartInv, StartedOnce, LockDiscipline, Awaiting
<1>17. ASSUME NEW q \in Requests, NEW op \in AllOps, NEW m \in Members,
                    ReadRow(q, op, m) PROVE StartInv'
  BY <1>17 DEF ReadRow, StartInv, StartedOnce, LockDiscipline, Awaiting
<1>18. ASSUME NEW q \in Requests, CommitPropose(q) PROVE StartInv'
  BY <1>18 DEF CommitPropose, StartInv, StartedOnce, LockDiscipline, Awaiting
<1>19. ASSUME NEW q \in Requests, CommitAccept(q) PROVE StartInv'
  BY <1>19 DEF CommitAccept, StartInv, StartedOnce, LockDiscipline, Awaiting
<1>20. ASSUME NEW q \in Requests, CommitReject(q) PROVE StartInv'
  BY <1>20 DEF CommitReject, StartInv, StartedOnce, LockDiscipline, Awaiting
<1>21. ASSUME NEW q \in Requests, CommitClose(q) PROVE StartInv'
  BY <1>21
  DEF CommitClose, StartInv, StartedOnce, LockDiscipline, Awaiting, ClosedRow,
      CloseReason
<1>22. ASSUME NEW q \in Requests, AcceptSchedules(q) PROVE StartInv'
  BY <1>22
  DEF AcceptSchedules, StartInv, StartedOnce, LockDiscipline, Awaiting,
      ScheduleHandoffClose
<1>23. ASSUME NEW q \in Requests, AcceptFails(q) PROVE StartInv'
  BY <1>23 DEF AcceptFails, StartInv, StartedOnce, LockDiscipline, Awaiting
<1>24. ASSUME NEW q \in Requests, RequestEnds(q) PROVE StartInv'
  BY <1>24
  DEF RequestEnds, StartInv, StartedOnce, LockDiscipline, Awaiting,
      CloseReason, EnterEnd
<1>25. ASSUME NEW q \in Requests, EndRequestIsMoot(q) PROVE StartInv'
  BY <1>25
  DEF EndRequestIsMoot, StartInv, StartedOnce, LockDiscipline, Awaiting,
      EndIsMoot
<1>26. ASSUME NEW q \in Requests, RequestEndsRow(q) PROVE StartInv'
  BY <1>26
  DEF RequestEndsRow, StartInv, StartedOnce, LockDiscipline, Awaiting,
      ClosedRow
<1>27. ASSUME NEW m \in Members, DeleteAccount(m) PROVE StartInv'
  BY <1>27
  DEF DeleteAccount, StartInv, StartedOnce, LockDiscipline, Awaiting,
      ClosedRow
<1>28. CASE PersistClosed
  BY <1>28
  DEF PersistClosed, StartInv, StartedOnce, LockDiscipline, Awaiting,
      ClosedRow, ClosesRow
<1>29. CASE NotifyEnded
  BY <1>29
  DEF NotifyEnded, StartInv, StartedOnce, LockDiscipline, Awaiting, TypeOK,
      ConnOK, Connection
<1>30. CASE MonitorDecides
  BY <1>30 DEF MonitorDecides, StartInv, StartedOnce, LockDiscipline, Awaiting
<1>31. CASE MonitorEnds
  BY <1>31 DEF MonitorEnds, StartInv, StartedOnce, LockDiscipline, Awaiting
<1>32. CASE HandoffFires
  BY <1>32 DEF HandoffFires, StartInv, StartedOnce, LockDiscipline, Awaiting
<1>33. ASSUME NEW t \in HandoffTasks, OrphanFires(t)
       PROVE  StartInv'
  BY <1>33
  DEF OrphanFires, StartInv, StartedOnce, LockDiscipline, Awaiting, RowOK,
      SessionRow, ClosedRow, TypeOK, EnterEnd, EndIsMoot
<1>34. CASE RunMaintenance
  BY <1>34
  DEF RunMaintenance, StartInv, StartedOnce, LockDiscipline, Awaiting,
      ClosedRow, Expired
<1>35. CASE Tick
  BY <1>35 DEF Tick, StartInv, StartedOnce, LockDiscipline, Awaiting
<1>36. ASSUME NEW c \in Conns, FailActivation(c) PROVE StartInv'
  BY <1>36
  DEF FailActivation, StartInv, StartedOnce, LockDiscipline, Awaiting, Finish,
      Out
<1>37. ASSUME NEW c \in Conns, FailFrame(c) PROVE StartInv'
  BY <1>37
  DEF FailFrame, StartInv, StartedOnce, LockDiscipline, Awaiting, Finish, Out,
      MayReceive, CountFrame
<1>38. CASE FailPersist
  BY <1>38
  DEF FailPersist, StartInv, StartedOnce, LockDiscipline, Awaiting, Finish,
      Out
<1>39. CASE ServerRestart
  BY <1>39
  DEF ServerRestart, StartInv, StartedOnce, LockDiscipline, Awaiting, Out
<1>40. CASE UNCHANGED vars
  BY <1>40 DEF vars, StartInv, StartedOnce, LockDiscipline, Awaiting
<1> QED
  BY <1>1, <1>2, <1>3, <1>4, <1>5, <1>6, <1>7, <1>8, <1>9, <1>10, <1>11,
     <1>12, <1>13, <1>14, <1>15, <1>16, <1>17, <1>18, <1>19, <1>20, <1>21,
     <1>22, <1>23, <1>24, <1>25, <1>26, <1>27, <1>28, <1>29, <1>30, <1>31,
     <1>32, <1>33, <1>34, <1>35, <1>36, <1>37, <1>38, <1>39, <1>40
  DEF Next, HandlerStep, ClientStep, NewRequest, RequestStep, EndStep,
      TimerStep, Fault

\* A session starts once, however often its members reconnect and whatever
\* restarts in between (relay.py, _set_session_active).
THEOREM StartedCorrect == Spec => []StartedOnce
<1>1. Init => StartInv
  BY DEF Init, ServerIdle, StartInv, StartedOnce, NewRow, Out
<1>2. StartInv => StartedOnce
  BY DEF StartInv
<1> QED
  BY <1>1, <1>2, StartStep, TypeCorrect, LockCorrect, PTL DEF Spec

----------------------------------------------------------------------------
\* The deadline, step by step.
LEMMA DeadlineStep ==
    TypeOK /\ DeadlineInv /\ [Next]_vars => DeadlineInv'
<1> SUFFICES ASSUME TypeOK, DeadlineInv, [Next]_vars
             PROVE  DeadlineInv'
  OBVIOUS
<1> USE WindowsAssumption
<1>1. ASSUME NEW c \in Conns, NEW m \in Members, AuthenticateHello(c, m)
      PROVE  DeadlineInv'
  BY <1>1 DEF AuthenticateHello, DeadlineInv, DeadlineFitsStatus, Forgotten
<1>2. ASSUME NEW c \in Conns, Join(c) PROVE DeadlineInv'
  BY <1>2 DEF Join, DeadlineInv, DeadlineFitsStatus, JoinedState, FreshState
<1>3. ASSUME NEW c \in Conns, SkipActivation(c) PROVE DeadlineInv'
  BY <1>3 DEF SkipActivation, DeadlineInv, DeadlineFitsStatus, StartMonitoring
<1>4. ASSUME NEW c \in Conns, ReadForActivation(c) PROVE DeadlineInv'
  BY <1>4 DEF ReadForActivation, DeadlineInv, DeadlineFitsStatus
<1>5. ASSUME NEW c \in Conns, CommitActivation(c) PROVE DeadlineInv'
  BY <1>5
  DEF CommitActivation, DeadlineInv, DeadlineFitsStatus, StartMonitoring,
      ActivatedRow
<1>6. ASSUME NEW c \in Conns, SendReady(c) PROVE DeadlineInv'
  BY <1>6 DEF SendReady, DeadlineInv, DeadlineFitsStatus
<1>7. ASSUME NEW c \in Conns, FailReady(c) \/ BadFrame(c) PROVE DeadlineInv'
  BY <1>7 DEF FailReady, BadFrame, DeadlineInv, DeadlineFitsStatus
<1>8. ASSUME NEW c \in Conns, FlushNext(c) PROVE DeadlineInv'
  BY <1>8 DEF FlushNext, DeadlineInv, DeadlineFitsStatus
<1>9. ASSUME NEW c \in Conns, FlushDone(c) PROVE DeadlineInv'
  BY <1>9 DEF FlushDone, DeadlineInv, DeadlineFitsStatus
<1>10. ASSUME NEW c \in Conns, HearDisconnect(c) PROVE DeadlineInv'
  BY <1>10 DEF HearDisconnect, DeadlineInv, DeadlineFitsStatus
<1>11. ASSUME NEW c \in Conns, Disconnect(c) PROVE DeadlineInv'
  BY <1>11 DEF Disconnect, DeadlineInv, DeadlineFitsStatus
<1>12. ASSUME NEW c \in Conns, CapEnds(c) PROVE DeadlineInv'
  BY <1>12 DEF CapEnds, DeadlineInv, DeadlineFitsStatus, EnterEnd
<1>13. ASSUME NEW c \in Conns, CapIsMoot(c) PROVE DeadlineInv'
  BY <1>13 DEF CapIsMoot, DeadlineInv, DeadlineFitsStatus, EndIsMoot
<1>14. ASSUME NEW c \in Conns, RelayFrame(c) PROVE DeadlineInv'
  BY <1>14
  DEF RelayFrame, DeadlineInv, DeadlineFitsStatus, MayReceive, CountFrame,
      Buffer, Forward
<1>15. ASSUME NEW c \in Conns, CapFrame(c) PROVE DeadlineInv'
  BY <1>15 DEF CapFrame, DeadlineInv, DeadlineFitsStatus, MayReceive
<1>16. ASSUME NEW c \in Conns, ClientDrop(c) PROVE DeadlineInv'
  BY <1>16 DEF ClientDrop, DeadlineInv, DeadlineFitsStatus
<1>17. ASSUME NEW q \in Requests, NEW op \in AllOps, NEW m \in Members,
                    ReadRow(q, op, m) PROVE DeadlineInv'
  BY <1>17
  DEF ReadRow, DeadlineInv, DeadlineFitsStatus, MayAnswer, MayPropose, Admits,
      StillOpen
<1>18. ASSUME NEW q \in Requests, CommitPropose(q) PROVE DeadlineInv'
  BY <1>18 DEF CommitPropose, DeadlineInv, DeadlineFitsStatus, Answered, Idle,
      Ready
<1>19. ASSUME NEW q \in Requests, CommitAccept(q) PROVE DeadlineInv'
  BY <1>19 DEF CommitAccept, DeadlineInv, DeadlineFitsStatus, Continues, Ready
<1>20. ASSUME NEW q \in Requests, CommitReject(q) PROVE DeadlineInv'
  BY <1>20 DEF CommitReject, DeadlineInv, DeadlineFitsStatus, Answered, Idle,
      Ready
<1>21. ASSUME NEW q \in Requests, CommitClose(q) PROVE DeadlineInv'
  BY <1>21
  DEF CommitClose, DeadlineInv, DeadlineFitsStatus, Continues, ClosedRow, Ready
<1>22. ASSUME NEW q \in Requests, AcceptSchedules(q) PROVE DeadlineInv'
  BY <1>22
  DEF AcceptSchedules, DeadlineInv, DeadlineFitsStatus, Answered, Idle,
      ScheduleHandoffClose
<1>23. ASSUME NEW q \in Requests, AcceptFails(q) PROVE DeadlineInv'
  BY <1>23 DEF AcceptFails, DeadlineInv, DeadlineFitsStatus, Answered, Idle
<1>24. ASSUME NEW q \in Requests, RequestEnds(q) PROVE DeadlineInv'
  BY <1>24 DEF RequestEnds, DeadlineInv, DeadlineFitsStatus, EnterEnd
<1>25. ASSUME NEW q \in Requests, EndRequestIsMoot(q) PROVE DeadlineInv'
  BY <1>25
  DEF EndRequestIsMoot, DeadlineInv, DeadlineFitsStatus, Answered, Idle,
      EndIsMoot
<1>26. ASSUME NEW q \in Requests, RequestEndsRow(q) PROVE DeadlineInv'
  BY <1>26
  DEF RequestEndsRow, DeadlineInv, DeadlineFitsStatus, Answered, Idle, ClosedRow
<1>27. ASSUME NEW m \in Members, DeleteAccount(m) PROVE DeadlineInv'
  BY <1>27
  DEF DeleteAccount, DeadlineInv, DeadlineFitsStatus, ClosedRow, StillOpen
<1>28. CASE PersistClosed
  BY <1>28
  DEF PersistClosed, DeadlineInv, DeadlineFitsStatus, ClosedRow, ClosesRow
<1>29. CASE NotifyEnded
  BY <1>29
  DEF NotifyEnded, DeadlineInv, DeadlineFitsStatus, TypeOK, ReqOK, Request,
      Answered, Idle
<1>30. CASE MonitorDecides
  BY <1>30 DEF MonitorDecides, DeadlineInv, DeadlineFitsStatus
<1>31. CASE MonitorEnds
  BY <1>31 DEF MonitorEnds, DeadlineInv, DeadlineFitsStatus
<1>32. CASE HandoffFires
  BY <1>32 DEF HandoffFires, DeadlineInv, DeadlineFitsStatus
<1>33. ASSUME NEW t \in HandoffTasks, OrphanFires(t)
       PROVE  DeadlineInv'
  BY <1>33
  DEF OrphanFires, DeadlineInv, DeadlineFitsStatus, TypeOK, RowOK, SessionRow,
      ClosedRow, EnterEnd, EndIsMoot
<1>34. CASE RunMaintenance
  BY <1>34
  DEF RunMaintenance, DeadlineInv, DeadlineFitsStatus, ClosedRow, StillOpen,
      Expired
<1>35. CASE Tick
  BY <1>35
  DEF Tick, DeadlineInv, DeadlineFitsStatus, TypeOK, RowOK, SessionRow,
      CountDown
<1>36. ASSUME NEW c \in Conns, FailActivation(c) PROVE DeadlineInv'
  BY <1>36 DEF FailActivation, DeadlineInv, DeadlineFitsStatus
<1>37. ASSUME NEW c \in Conns, FailFrame(c) PROVE DeadlineInv'
  BY <1>37
  DEF FailFrame, DeadlineInv, DeadlineFitsStatus, MayReceive, CountFrame
<1>38. CASE FailPersist
  BY <1>38 DEF FailPersist, DeadlineInv, DeadlineFitsStatus, Answered, Idle
<1>39. CASE ServerRestart
  BY <1>39 DEF ServerRestart, DeadlineInv, DeadlineFitsStatus, Idle
<1>40. CASE UNCHANGED vars
  BY <1>40 DEF vars, DeadlineInv, DeadlineFitsStatus
<1> QED
  BY <1>1, <1>2, <1>3, <1>4, <1>5, <1>6, <1>7, <1>8, <1>9, <1>10, <1>11,
     <1>12, <1>13, <1>14, <1>15, <1>16, <1>17, <1>18, <1>19, <1>20, <1>21,
     <1>22, <1>23, <1>24, <1>25, <1>26, <1>27, <1>28, <1>29, <1>30, <1>31,
     <1>32, <1>33, <1>34, <1>35, <1>36, <1>37, <1>38, <1>39, <1>40
  DEF Next, HandlerStep, ClientStep, NewRequest, RequestStep, EndStep,
      TimerStep, Fault

\* No started session keeps the deadline it was created with, in whatever order
\* activation, requests and time interleave (relay.py, _set_session_active;
\* routes/matches.py, accept_match).
THEOREM DeadlineCorrect == Spec => []DeadlineFitsStatus
<1>1. Init => DeadlineInv
  BY DEF Init, ServerIdle, DeadlineInv, DeadlineFitsStatus, NewRow, Idle
<1>2. DeadlineInv => DeadlineFitsStatus
  BY DEF DeadlineInv
<1> QED
  BY <1>1, <1>2, DeadlineStep, TypeCorrect, PTL DEF Spec

----------------------------------------------------------------------------
\* Proposals and answers, step by step.
LEMMA ConsentStep ==
    TypeOK /\ ConsentInv /\ [Next]_vars => ConsentInv'
<1> SUFFICES ASSUME TypeOK, ConsentInv, [Next]_vars
             PROVE  ConsentInv'
  OBVIOUS
<1> USE MembersAssumption
<1>1. ASSUME NEW c \in Conns, NEW m \in Members, AuthenticateHello(c, m)
      PROVE  ConsentInv'
  BY <1>1
  DEF AuthenticateHello, ConsentInv, MutualConsent, TypeOK, RowOK, memVars,
      lockVars, history, Forgotten
<1>2. ASSUME NEW c \in Conns, Join(c) PROVE ConsentInv'
  BY <1>2
  DEF Join, ConsentInv, MutualConsent, TypeOK, NoState, history, JoinedState,
      FreshState
<1>3. ASSUME NEW c \in Conns, SkipActivation(c) PROVE ConsentInv'
  BY <1>3
  DEF SkipActivation, ConsentInv, MutualConsent, history, StartMonitoring
<1>4. ASSUME NEW c \in Conns, ReadForActivation(c) PROVE ConsentInv'
  BY <1>4
  DEF ReadForActivation, ConsentInv, MutualConsent, TypeOK, RowOK, memVars,
      lockVars, history
<1>5. ASSUME NEW c \in Conns, CommitActivation(c) PROVE ConsentInv'
  BY <1>5
  DEF CommitActivation, ConsentInv, MutualConsent, history, StartMonitoring,
      ActivatedRow
<1>6. ASSUME NEW c \in Conns, SendReady(c) PROVE ConsentInv'
  BY <1>6
  DEF SendReady, ConsentInv, MutualConsent, TypeOK, RowOK, memVars, lockVars,
      history
<1>7. ASSUME NEW c \in Conns, FailReady(c) \/ BadFrame(c) PROVE ConsentInv'
  BY <1>7
  DEF FailReady, BadFrame, ConsentInv, MutualConsent, TypeOK, RowOK, memVars,
      lockVars,
      history
<1>8. ASSUME NEW c \in Conns, FlushNext(c) PROVE ConsentInv'
  BY <1>8 DEF FlushNext, ConsentInv, MutualConsent, lockVars
<1>9. ASSUME NEW c \in Conns, FlushDone(c) PROVE ConsentInv'
  BY <1>9
  DEF FlushDone, ConsentInv, MutualConsent, TypeOK, RowOK, memVars, lockVars,
      history
<1>10. ASSUME NEW c \in Conns, HearDisconnect(c) PROVE ConsentInv'
  BY <1>10
  DEF HearDisconnect, ConsentInv, MutualConsent, TypeOK, RowOK, memVars,
      lockVars, history
<1>11. ASSUME NEW c \in Conns, Disconnect(c) PROVE ConsentInv'
  BY <1>11
  DEF Disconnect, ConsentInv, MutualConsent, TypeOK, lockVars, history
<1>12. ASSUME NEW c \in Conns, CapEnds(c) PROVE ConsentInv'
  BY <1>12
  DEF CapEnds, ConsentInv, MutualConsent, ClosedState, history, EnterEnd
<1>13. ASSUME NEW c \in Conns, CapIsMoot(c) PROVE ConsentInv'
  BY <1>13
  DEF CapIsMoot, ConsentInv, MutualConsent, TypeOK, RowOK, memVars, lockVars,
      history, EndIsMoot
<1>14. ASSUME NEW c \in Conns, RelayFrame(c) PROVE ConsentInv'
  BY <1>14
  DEF RelayFrame, ConsentInv, MutualConsent, lockVars, MayReceive, CountFrame,
      Buffer, Forward
<1>15. ASSUME NEW c \in Conns, CapFrame(c) PROVE ConsentInv'
  BY <1>15
  DEF CapFrame, ConsentInv, MutualConsent, TypeOK, RowOK, memVars, lockVars,
      history, MayReceive
<1>16. ASSUME NEW c \in Conns, ClientDrop(c) PROVE ConsentInv'
  BY <1>16
  DEF ClientDrop, ConsentInv, MutualConsent, TypeOK, RowOK, memVars, lockVars,
      history
<1>17. ASSUME NEW q \in Requests, NEW op \in AllOps, NEW m \in Members,
                    ReadRow(q, op, m) PROVE ConsentInv'
  BY <1>17
  DEF ReadRow, ConsentInv, MutualConsent, TypeOK, RowOK, SessionRow,
      MayAnswer, Admits, StillOpen, Members, Other, memVars, lockVars, history
<1>18. ASSUME NEW q \in Requests, CommitPropose(q) PROVE ConsentInv'
  BY <1>18
  DEF CommitPropose, ConsentInv, MutualConsent, TypeOK, ReqOK, Answered, Idle,
      Ready, memVars, lockVars
<1>19. ASSUME NEW q \in Requests, CommitAccept(q) PROVE ConsentInv'
  BY <1>19
  DEF CommitAccept, ConsentInv, MutualConsent, TypeOK, ReqOK, HistoryOK,
      Continues, Ready, Members, Other
<1>20. ASSUME NEW q \in Requests, CommitReject(q) PROVE ConsentInv'
  BY <1>20
  DEF CommitReject, ConsentInv, MutualConsent, TypeOK, RowOK, Answered, Idle,
  Ready,
      memVars, lockVars, history
<1>21. ASSUME NEW q \in Requests, CommitClose(q) PROVE ConsentInv'
  BY <1>21
  DEF CommitClose, ConsentInv, MutualConsent, TypeOK, RowOK, Continues,
      ClosedRow, Ready, CloseReason, memVars, lockVars, history
<1>22. ASSUME NEW q \in Requests, AcceptSchedules(q) PROVE ConsentInv'
  BY <1>22
  DEF AcceptSchedules, ConsentInv, MutualConsent, TypeOK, Answered, Idle,
  history,
      ScheduleHandoffClose
<1>23. ASSUME NEW q \in Requests, AcceptFails(q) PROVE ConsentInv'
  BY <1>23
  DEF AcceptFails, ConsentInv, MutualConsent, TypeOK, RowOK, Answered, Idle,
  history
<1>24. ASSUME NEW q \in Requests, RequestEnds(q) PROVE ConsentInv'
  BY <1>24
  DEF RequestEnds, ConsentInv, MutualConsent, CloseReason, ClosedState,
      history, EnterEnd
<1>25. ASSUME NEW q \in Requests, EndRequestIsMoot(q) PROVE ConsentInv'
  BY <1>25
  DEF EndRequestIsMoot, ConsentInv, MutualConsent, TypeOK, RowOK, Answered,
  Idle,
      memVars, lockVars, history, EndIsMoot
<1>26. ASSUME NEW q \in Requests, RequestEndsRow(q) PROVE ConsentInv'
  BY <1>26
  DEF RequestEndsRow, ConsentInv, MutualConsent, TypeOK, RowOK, Answered, Idle,
      ClosedRow, memVars, lockVars, history
<1>27. ASSUME NEW m \in Members, DeleteAccount(m) PROVE ConsentInv'
  BY <1>27
  DEF DeleteAccount, ConsentInv, MutualConsent, TypeOK, ClosedRow, StillOpen,
      memVars, lockVars, history
<1>28. CASE PersistClosed
  BY <1>28
  DEF PersistClosed, ConsentInv, MutualConsent, TypeOK, ClosedRow, memVars,
      history, ClosesRow
<1>29. CASE NotifyEnded
  <2>1. ASSUME NEW q \in Requests
        PROVE  req'[q] = req[q] \/ req'[q] = Idle
    BY <1>29 DEF NotifyEnded, Answered, TypeOK, ReqOK
  <2>2. /\ UNCHANGED <<row, assent>> /\ ending'.reason = None
        /\ state'.handoff # Unset => state.handoff # Unset
        /\ \A t \in HandoffTasks : orphan'[t] # Unset => orphan[t] # Unset
    BY <1>29 DEF NotifyEnded, NoEnding, history
  <2>3. MutualConsent' /\ (row'.proposer # None => row'.proposer \in assent')
    BY <2>2 DEF ConsentInv, MutualConsent
  <2>4. ending'.reason # "handoff_complete"
    BY <2>2, NoneAssumption DEF Reasons
  <2>5. \A q \in Requests :
          /\ req'[q].op = "accept" =>
               /\ req'[q].phase = "read" => Other(req'[q].by) \in assent'
               /\ req'[q].phase = "emitting" => assent' = Members
          /\ req'[q].phase = "emitting" => req'[q].op = "accept"
    BY <2>1, <2>2 DEF ConsentInv, Idle
  <2> QED
    BY <2>3, <2>4, <2>5 DEF ConsentInv
<1>30. CASE MonitorDecides
  BY <1>30
  DEF MonitorDecides, ConsentInv, MutualConsent, TypeOK, lockVars, history
<1>31. CASE MonitorEnds
  BY <1>31
  DEF MonitorEnds, ConsentInv, MutualConsent, TypeOK, ClosedState, lockVars,
      history
<1>32. CASE HandoffFires
  BY <1>32
  DEF HandoffFires, ConsentInv, MutualConsent, TypeOK, ClosedState, Unset,
      history
<1>33. ASSUME NEW t \in HandoffTasks, OrphanFires(t)
       PROVE  ConsentInv'
  <2>1. CASE ~state.loaded /\ row' = ClosedRow(row, "handoff_complete")
               /\ UNCHANGED <<state, lockVars>>
    BY <1>33, <2>1
    DEF OrphanFires, ConsentInv, MutualConsent, ClosedRow, history, Unset
  <2>2. CASE EnterEnd("handoff", "handoff_complete") /\ UNCHANGED row
    BY <1>33, <2>2
    DEF OrphanFires, EnterEnd, ConsentInv, MutualConsent, ClosedState,
        history, Unset
  <2>3. CASE UNCHANGED <<row, state, lockVars>>
    BY <1>33, <2>3
    DEF OrphanFires, ConsentInv, MutualConsent, lockVars, history
  <2> QED
    BY <1>33, <2>1, <2>2, <2>3 DEF OrphanFires
<1>34. CASE RunMaintenance
  <2>1. DeadlineReason(row.status) = "handoff_complete"
        => row.status = "match_confirmed"
    BY <1>34
    DEF RunMaintenance, Expired, StillOpen, DeadlineReason, TypeOK, RowOK,
        SessionRow, Statuses
  <2>2. /\ row'.status = "closed" /\ row'.proposer = row.proposer
        /\ row'.close_reason = DeadlineReason(row.status)
    BY <1>34 DEF RunMaintenance, ClosedRow
  <2> QED
    BY <1>34, <2>1, <2>2
    DEF RunMaintenance, ConsentInv, MutualConsent, memVars, lockVars, history
<1>35. CASE Tick
  BY <1>35
  DEF Tick, ConsentInv, MutualConsent, TypeOK, Unset, CountDown, lockVars,
      history
<1>36. ASSUME NEW c \in Conns, FailActivation(c) PROVE ConsentInv'
  BY <1>36 DEF FailActivation, ConsentInv, MutualConsent, memVars, history
<1>37. ASSUME NEW c \in Conns, FailFrame(c) PROVE ConsentInv'
  BY <1>37
  DEF FailFrame, ConsentInv, MutualConsent, lockVars, MayReceive, CountFrame
<1>38. CASE FailPersist
  <2>1. ASSUME NEW q \in Requests
        PROVE  req'[q] = req[q] \/ req'[q] = Idle
    BY <1>38 DEF FailPersist, Answered, TypeOK, ReqOK
  <2>2. /\ UNCHANGED <<row, assent>> /\ ending'.reason = None
        /\ state'.handoff # Unset => state.handoff # Unset
        /\ \A t \in HandoffTasks : orphan'[t] # Unset => orphan[t] # Unset
    BY <1>38 DEF FailPersist, NoEnding, memVars, history
  <2>3. MutualConsent' /\ (row'.proposer # None => row'.proposer \in assent')
    BY <2>2 DEF ConsentInv, MutualConsent
  <2>4. ending'.reason # "handoff_complete"
    BY <2>2, NoneAssumption DEF Reasons
  <2>5. \A q \in Requests :
          /\ req'[q].op = "accept" =>
               /\ req'[q].phase = "read" => Other(req'[q].by) \in assent'
               /\ req'[q].phase = "emitting" => assent' = Members
          /\ req'[q].phase = "emitting" => req'[q].op = "accept"
    BY <2>1, <2>2 DEF ConsentInv, Idle
  <2> QED
    BY <2>3, <2>4, <2>5 DEF ConsentInv
<1>39. CASE ServerRestart
  <2>1. ASSUME NEW q \in Requests
        PROVE  req'[q] = req[q] \/ req'[q] = Idle
    BY <1>39 DEF ServerRestart
  <2>2. /\ UNCHANGED <<row, assent>> /\ ending'.reason = None
        /\ state'.handoff # Unset => state.handoff # Unset
        /\ \A t \in HandoffTasks : orphan'[t] # Unset => orphan[t] # Unset
    BY <1>39 DEF ServerRestart, NoEnding, NoState, history
  <2>3. MutualConsent' /\ (row'.proposer # None => row'.proposer \in assent')
    BY <2>2 DEF ConsentInv, MutualConsent
  <2>4. ending'.reason # "handoff_complete"
    BY <2>2, NoneAssumption DEF Reasons
  <2>5. \A q \in Requests :
          /\ req'[q].op = "accept" =>
               /\ req'[q].phase = "read" => Other(req'[q].by) \in assent'
               /\ req'[q].phase = "emitting" => assent' = Members
          /\ req'[q].phase = "emitting" => req'[q].op = "accept"
    BY <2>1, <2>2 DEF ConsentInv, Idle
  <2> QED
    BY <2>3, <2>4, <2>5 DEF ConsentInv
<1>40. CASE UNCHANGED vars
  BY <1>40
  DEF vars, ConsentInv, MutualConsent, TypeOK, RowOK, memVars, lockVars,
      history
<1> QED
  BY <1>1, <1>2, <1>3, <1>4, <1>5, <1>6, <1>7, <1>8, <1>9, <1>10, <1>11,
     <1>12, <1>13, <1>14, <1>15, <1>16, <1>17, <1>18, <1>19, <1>20, <1>21,
     <1>22, <1>23, <1>24, <1>25, <1>26, <1>27, <1>28, <1>29, <1>30, <1>31,
     <1>32, <1>33, <1>34, <1>35, <1>36, <1>37, <1>38, <1>39, <1>40
  DEF Next, HandlerStep, ClientStep, NewRequest, RequestStep, EndStep,
      TimerStep, Fault

\* A confirmed match took one member to propose and the other to accept,
\* although neither commit checks the row again (routes/matches.py).
THEOREM ConsentCorrect == Spec => []MutualConsent
<1>1. Init => ConsentInv
  BY NoneAssumption
  DEF Init, ServerIdle, ConsentInv, MutualConsent, NewRow, NoState, NoEnding,
      Idle,
      Reasons
<1>2. ConsentInv => MutualConsent
  BY DEF ConsentInv
<1> QED
  BY <1>1, <1>2, ConsentStep, TypeCorrect, PTL DEF Spec

----------------------------------------------------------------------------
(* Division, for "message_count % 10".                                     *)

\* Quotient and remainder.
LEMMA Division ==
    ASSUME NEW n \in Int, NEW k \in Int, k > 0
    PROVE  /\ n = k * (n \div k) + (n % k)
           /\ n \div k \in Int
           /\ n % k \in 0..(k - 1)
  BY Z3

\* Different multiples of k are at least k apart.
LEMMA Multiples ==
    ASSUME NEW a \in Int, NEW b \in Int, NEW k \in Int, k > 0, a < b
    PROVE  k * a + k <= k * b
<1>1. k * (b - a - 1) >= 0
  BY Z3
<1> QED
  BY <1>1, Z3

\* The remainder grows by one until it would be 0.
LEMMA ModSucc ==
    ASSUME NEW n \in Nat, NEW k \in Nat \ {0}, ((n + 1) % k) # 0
    PROVE  ((n + 1) % k) = (n % k) + 1
<1> DEFINE a == n \div k
           b == (n+1) \div k
           x == n % k
           y == (n+1) % k
<1>1. /\ n = k*a + x /\ n + 1 = k*b + y
      /\ a \in Int /\ b \in Int
      /\ x \in 0..(k-1) /\ y \in 0..(k-1)
  BY Division
<1> HIDE DEF a, b, x, y
<1>2. a = b \/ a < b \/ b < a BY <1>1
<1>3. CASE a < b
    <2>1. k*a + k <= k*b BY <1>1, <1>3, Multiples
    <2>2. ~(y # 0)
       <3> DEFINE ka == k*a
               kb == k*b
       <3>1. ka \in Int /\ kb \in Int BY <1>1
       <3> HIDE DEF ka, kb
       <3>2. n = ka + x /\ n + 1 = kb+y /\ ka + k <= kb BY <1>1, <2>1 DEF ka, kb
       <3> QED BY <1>1, <3>1, <3>2
    <2> QED BY <2>2 DEF y
<1>4. CASE b < a
    <2>1. k*b + k <= k*a BY <1>1, <1>4, Multiples
    <2>2. FALSE
       <3> DEFINE ka == k*a
               kb == k*b
       <3>1. ka \in Int /\ kb \in Int BY <1>1
       <3> HIDE DEF ka, kb
       <3>2. n = ka + x /\ n + 1 = kb+y /\ kb + k <= ka BY <1>1, <2>1 DEF ka, kb
       <3> QED BY <1>1, <3>1, <3>2
    <2> QED BY <2>2
<1>5. CASE a = b
   <2>1. k*a \in Int BY <1>1
   <2>2. y = x + 1 BY <1>1, <1>5, <2>1
   <2> QED BY <2>2 DEF x, y
<1> QED BY <1>2, <1>3, <1>4, <1>5

----------------------------------------------------------------------------
(* The message count.                                                      *)

\* Every quantity of CapInv is a number.
LEMMA Numbers ==
    ASSUME TypeOK
    PROVE  /\ row.message_count \in Nat /\ row.message_count <= MessageCap
           /\ state.message_count \in Nat /\ state.message_count <= MessageCap
           /\ TotalSent \in Nat
           /\ Debt \in Nat
           /\ Unsaved \in 0..(PersistEvery - 1)
<1>1. PersistEvery * faults \in Nat /\ (PersistEvery - 1) * restarts \in Nat
  BY LimitsAssumption DEF TypeOK, EnvironmentOK
<1>2. Unsaved \in 0..(PersistEvery - 1)
  BY LimitsAssumption, Division DEF Unsaved, TypeOK, StateOK, SessionState
<1> QED
  BY <1>1, <1>2
  DEF TypeOK, RowOK, SessionRow, StateOK, SessionState, TotalSent, HistoryOK,
      Members, Debt

\* A restart forgets PersistEvery - 1 frames at most, a failed write one more.
LEMMA DebtGrows ==
    ASSUME TypeOK, restarts' \in {restarts, restarts + 1},
           faults' \in {faults, faults + 1}
    PROVE  /\ Debt' \in Nat /\ Debt' >= Debt
           /\ restarts' # restarts => Debt' >= Debt + (PersistEvery - 1)
           /\ faults' # faults => Debt' >= Debt + PersistEvery
<1> DEFINE k == PersistEvery - 1
           a == k * restarts
           b == PersistEvery * faults
           a2 == k * restarts'
           b2 == PersistEvery * faults'
<1>1. restarts \in Nat /\ faults \in Nat /\ k \in Nat /\ PersistEvery \in Nat
      \ {0}
  BY LimitsAssumption DEF TypeOK, EnvironmentOK
<1>2. k * (restarts + 1) = a + k /\ PersistEvery * (faults + 1) = b +
      PersistEvery
  BY <1>1
<1>3. a \in Nat /\ b \in Nat
  BY <1>1
<1>4. Debt = a + b /\ Debt' = a2 + b2
  BY DEF Debt
<1>5. /\ a2 = IF restarts' = restarts THEN a ELSE a + k
      /\ b2 = IF faults' = faults THEN b ELSE b + PersistEvery
  BY <1>2
<1> HIDE DEF a, b, a2, b2
<1> QED
  BY <1>1, <1>3, <1>4, <1>5 DEF k

\* Steps that change neither count keep the bound.
LEMMA CapKept ==
    ASSUME TypeOK, CapInv, UNCHANGED <<sent, restarts>>,
           faults' \in {faults, faults + 1},
           state'.loaded = state.loaded,
           state'.message_count = state.message_count,
           row'.message_count = row.message_count
    PROVE  CapInv'
<1>1. UNCHANGED <<TotalSent, Unsaved>>
  BY DEF TotalSent, Unsaved
<1>2. Debt' \in Nat /\ Debt' >= Debt
  BY DebtGrows
<1> QED
  BY <1>1, <1>2, Numbers DEF CapInv

\* A frame is counted once, in memory and in the history.
LEMMA FrameCounted ==
    ASSUME TypeOK, LoadedInv, NEW c \in Conns, MayReceive(c),
           CountFrame(conn[c].agent)
    PROVE  /\ state.loaded /\ state'.loaded
           /\ state'.message_count = state.message_count + 1
           /\ TotalSent' = TotalSent + 1
<1>1. state.loaded /\ state'.loaded
      /\ state'.message_count = state.message_count + 1
  BY DEF LoadedInv, MayReceive, CountFrame
<1>2. conn[c].agent \in Members /\ sent \in [Members -> Nat]
  BY DEF MayReceive, TypeOK, ConnOK, HistoryOK
<1>3. TotalSent' = TotalSent + 1
  BY <1>2, MembersAssumption DEF CountFrame, TotalSent, Members
<1> QED
  BY <1>1, <1>3

\* The message count, step by step.
LEMMA CapStep ==
    TypeOK /\ LockDiscipline /\ LoadedInv /\ CapInv /\ [Next]_vars => CapInv'
<1> SUFFICES ASSUME TypeOK, LockDiscipline, LoadedInv, CapInv, [Next]_vars
             PROVE  CapInv'
  OBVIOUS
<1>1. ASSUME NEW c \in Conns, NEW m \in Members, AuthenticateHello(c, m)
      PROVE  CapInv'
  BY <1>1, CapKept
  DEF AuthenticateHello, memVars, history, environment, Forgotten
<1>2. ASSUME NEW c \in Conns, Join(c) PROVE CapInv'
  <2>1. UNCHANGED <<row, TotalSent, Debt>>
    BY <1>2 DEF Join, history, environment, TotalSent, Debt
  <2>2. CASE state.loaded
    <3>1. state'.loaded /\ state'.message_count = state.message_count
      BY <1>2, <2>2 DEF Join, JoinedState
    <3> QED
      BY <2>1, <2>2, <3>1 DEF CapInv, Unsaved
  <2>3. CASE ~state.loaded
    <3>1. state'.loaded /\ state'.message_count = row.message_count
      BY <1>2, <2>3 DEF Join, JoinedState, FreshState
    <3>2. Unsaved = 0 /\ Unsaved' \in Nat
      BY <2>1, <2>3, <3>1, Numbers, Division, LimitsAssumption DEF Unsaved
    <3> QED
      BY <2>1, <3>1, <3>2, Numbers DEF CapInv
  <2> QED
    BY <2>2, <2>3
<1>3. ASSUME NEW c \in Conns, SkipActivation(c) PROVE CapInv'
  BY <1>3, CapKept DEF SkipActivation, history, environment, StartMonitoring
<1>4. ASSUME NEW c \in Conns, ReadForActivation(c) PROVE CapInv'
  BY <1>4, CapKept DEF ReadForActivation, memVars, history, environment
<1>5. ASSUME NEW c \in Conns, CommitActivation(c) PROVE CapInv'
  BY <1>5, CapKept
  DEF CommitActivation, history, environment, StartMonitoring, ActivatedRow
<1>6. ASSUME NEW c \in Conns, SendReady(c) PROVE CapInv'
  BY <1>6, CapKept DEF SendReady, memVars, history, environment
<1>7. ASSUME NEW c \in Conns, FailReady(c) \/ BadFrame(c) PROVE CapInv'
  BY <1>7, CapKept DEF FailReady, BadFrame, memVars, history, environment
<1>8. ASSUME NEW c \in Conns, FlushNext(c) PROVE CapInv'
  BY <1>8, CapKept DEF FlushNext, environment
<1>9. ASSUME NEW c \in Conns, FlushDone(c) PROVE CapInv'
  BY <1>9, CapKept DEF FlushDone, memVars, history, environment
<1>10. ASSUME NEW c \in Conns, HearDisconnect(c) PROVE CapInv'
  BY <1>10, CapKept DEF HearDisconnect, memVars, history, environment
<1>11. ASSUME NEW c \in Conns, Disconnect(c) PROVE CapInv'
  BY <1>11, CapKept DEF Disconnect, history, environment
<1>12. ASSUME NEW c \in Conns, CapEnds(c) PROVE CapInv'
  BY <1>12, CapKept
  DEF CapEnds, TypeOK, StateOK, SessionState, history, environment, EnterEnd,
      ClosedState
<1>13. ASSUME NEW c \in Conns, CapIsMoot(c) PROVE CapInv'
  BY <1>13, CapKept DEF CapIsMoot, memVars, history, environment, EndIsMoot
<1>14. ASSUME NEW c \in Conns, RelayFrame(c) PROVE CapInv'
  <2>1. /\ state.loaded /\ state'.loaded
        /\ state'.message_count = state.message_count + 1
        /\ TotalSent' = TotalSent + 1
        /\ Debt' = Debt
    BY <1>14, FrameCounted DEF RelayFrame, environment, Debt
  <2>2. CASE PersistDue(state)
    <3>1. row'.message_count = state.message_count + 1
      BY <1>14, <2>2 DEF RelayFrame
    <3>2. Unsaved' = 0
      BY <2>1, <2>2 DEF Unsaved, PersistDue
    <3> QED
      BY <2>1, <3>1, <3>2, Numbers DEF CapInv
  <2>3. CASE ~PersistDue(state)
    <3>1. row'.message_count = row.message_count
      BY <1>14, <2>3 DEF RelayFrame
    <3>2. Unsaved' = Unsaved + 1
      BY <2>1, <2>3, Numbers, ModSucc, LimitsAssumption
      DEF Unsaved, PersistDue
    <3> QED
      BY <2>1, <3>1, <3>2, Numbers DEF CapInv
  <2> QED
    BY <2>2, <2>3
<1>15. ASSUME NEW c \in Conns, CapFrame(c) PROVE CapInv'
  BY <1>15, CapKept DEF CapFrame, memVars, history, environment, MayReceive
<1>16. ASSUME NEW c \in Conns, ClientDrop(c) PROVE CapInv'
  BY <1>16, CapKept DEF ClientDrop, memVars, history, environment
<1>17. ASSUME NEW q \in Requests, NEW op \in AllOps, NEW m \in Members,
                    ReadRow(q, op, m) PROVE CapInv'
  BY <1>17, CapKept DEF ReadRow, memVars, history, environment
<1>18. ASSUME NEW q \in Requests, CommitPropose(q) PROVE CapInv'
  BY <1>18, CapKept DEF CommitPropose, memVars, environment
<1>19. ASSUME NEW q \in Requests, CommitAccept(q) PROVE CapInv'
  BY <1>19, CapKept DEF CommitAccept, memVars, environment
<1>20. ASSUME NEW q \in Requests, CommitReject(q) PROVE CapInv'
  BY <1>20, CapKept DEF CommitReject, memVars, history, environment
<1>21. ASSUME NEW q \in Requests, CommitClose(q) PROVE CapInv'
  BY <1>21, CapKept DEF CommitClose, memVars, history, environment, ClosedRow
<1>22. ASSUME NEW q \in Requests, AcceptSchedules(q) PROVE CapInv'
  BY <1>22, CapKept
  DEF AcceptSchedules, TypeOK, StateOK, SessionState, history, environment,
      ScheduleHandoffClose
<1>23. ASSUME NEW q \in Requests, AcceptFails(q) PROVE CapInv'
  BY <1>23, CapKept DEF AcceptFails, memVars, history, environment
<1>24. ASSUME NEW q \in Requests, RequestEnds(q) PROVE CapInv'
  BY <1>24, CapKept
  DEF RequestEnds, TypeOK, StateOK, SessionState, history, environment,
      EnterEnd, ClosedState
<1>25. ASSUME NEW q \in Requests, EndRequestIsMoot(q) PROVE CapInv'
  BY <1>25, CapKept
  DEF EndRequestIsMoot, memVars, history, environment, EndIsMoot
<1>26. ASSUME NEW q \in Requests, RequestEndsRow(q) PROVE CapInv'
  BY <1>26, CapKept
  DEF RequestEndsRow, memVars, history, environment, ClosedRow
<1>27. ASSUME NEW m \in Members, DeleteAccount(m) PROVE CapInv'
  BY <1>27, CapKept DEF DeleteAccount, memVars, history, ClosedRow
<1>28. CASE PersistClosed
  <2>1. row'.message_count = state.message_count /\ state.loaded
    BY <1>28 DEF PersistClosed, ClosesRow, ClosedRow, LockDiscipline
  <2>2. UNCHANGED <<state, TotalSent, Debt, Unsaved>>
    BY <1>28
    DEF PersistClosed, memVars, history, environment, TotalSent, Debt, Unsaved
  <2> QED
    BY <2>1, <2>2, Numbers, LimitsAssumption DEF CapInv
<1>29. CASE NotifyEnded
  BY <1>29, CapKept DEF NotifyEnded, history, environment
<1>30. CASE MonitorDecides
  BY <1>30, CapKept DEF MonitorDecides, history, environment
<1>31. CASE MonitorEnds
  BY <1>31, CapKept DEF MonitorEnds, history, environment, ClosedState
<1>32. CASE HandoffFires
  BY <1>32, CapKept DEF HandoffFires, history, environment, ClosedState
<1>33. ASSUME NEW t \in HandoffTasks, OrphanFires(t)
       PROVE  CapInv'
  BY <1>33, CapKept
  DEF OrphanFires, TypeOK, RowOK, SessionRow, StateOK, SessionState, history,
      environment, EnterEnd, EndIsMoot, ClosedState, ClosedRow
<1>34. CASE RunMaintenance
  BY <1>34, CapKept
  DEF RunMaintenance, memVars, history, environment, Expired, ClosedRow
<1>35. CASE Tick
  BY <1>35, CapKept DEF Tick, history, environment
<1>36. ASSUME NEW c \in Conns, FailActivation(c) PROVE CapInv'
  BY <1>36, CapKept DEF FailActivation, memVars, history
<1>37. ASSUME NEW c \in Conns, FailFrame(c) PROVE CapInv'
  <2>1. /\ state.loaded /\ state'.loaded
        /\ state'.message_count = state.message_count + 1
        /\ TotalSent' = TotalSent + 1
    BY <1>37, FrameCounted DEF FailFrame
  <2>2. Debt' \in Nat /\ Debt' >= Debt + PersistEvery
    BY <1>37, DebtGrows DEF FailFrame, EnvironmentOK
  <2>3. Unsaved' = 0
    BY <1>37, <2>1 DEF FailFrame, Unsaved, PersistDue
  <2> QED
    BY <1>37, <2>1, <2>2, <2>3, Numbers, LimitsAssumption
    DEF FailFrame, CapInv
<1>38. CASE FailPersist
  BY <1>38, CapKept DEF FailPersist, memVars, history
<1>39. CASE ServerRestart
  <2>1. Debt' \in Nat /\ Debt' >= Debt + (PersistEvery - 1)
    BY <1>39, DebtGrows DEF ServerRestart, TypeOK, EnvironmentOK
  <2>2. UNCHANGED <<row, TotalSent>> /\ ~state'.loaded /\ Unsaved' = 0
    BY <1>39 DEF ServerRestart, history, TotalSent, NoState, Unsaved
  <2> QED
    BY <2>1, <2>2, Numbers, LimitsAssumption DEF CapInv
<1>40. CASE UNCHANGED vars
  BY <1>40, CapKept DEF vars, memVars, history, environment
<1> QED
  BY <1>1, <1>2, <1>3, <1>4, <1>5, <1>6, <1>7, <1>8, <1>9, <1>10, <1>11,
     <1>12, <1>13, <1>14, <1>15, <1>16, <1>17, <1>18, <1>19, <1>20, <1>21,
     <1>22, <1>23, <1>24, <1>25, <1>26, <1>27, <1>28, <1>29, <1>30, <1>31,
     <1>32, <1>33, <1>34, <1>35, <1>36, <1>37, <1>38, <1>39, <1>40
  DEF Next, HandlerStep, ClientStep, NewRequest, RequestStep, EndStep,
      TimerStep, Fault

\* The frames accepted in all exceed MESSAGE_CAP only by what restarts and
\* failed writes made the server forget (relay.py, message_count).
THEOREM CapCorrect == Spec => []CapAcrossRestarts
<1>1. Init => CapInv
  <2> SUFFICES ASSUME Init PROVE CapInv
    OBVIOUS
  <2>1. TotalSent = 0 /\ ~state.loaded /\ row.message_count = 0 /\ Unsaved = 0
    BY DEF Init, ServerIdle, TotalSent, Members, NoState, NewRow, Unsaved
  <2>2. Debt = 0
    BY LimitsAssumption DEF Init, ServerIdle, Debt
  <2> QED
    BY <2>1, <2>2 DEF CapInv
<1>2. TypeOK /\ CapInv => CapAcrossRestarts
  <2> SUFFICES ASSUME TypeOK, CapInv
               PROVE  CapAcrossRestarts
    OBVIOUS
  <2> DEFINE a == (PersistEvery - 1) * restarts
             b == PersistEvery * faults
  <2>1. a \in Nat /\ b \in Nat /\ MessageCap \in Nat
    BY LimitsAssumption DEF TypeOK, EnvironmentOK
  <2>2. Debt = a + b
    BY DEF Debt
  <2>3. CapAcrossRestarts <=> TotalSent <= MessageCap + a + b
    BY DEF CapAcrossRestarts
  <2> HIDE DEF a, b
  <2>4. CASE state.loaded
    BY <2>1, <2>2, <2>3, <2>4, Numbers DEF CapInv
  <2>5. CASE ~state.loaded
    BY <2>1, <2>2, <2>3, <2>5, Numbers DEF CapInv, Unsaved
  <2> QED
    BY <2>4, <2>5
<1> QED
  BY <1>1, <1>2, CapStep, TypeCorrect, LockCorrect, LoadedCorrect, PTL
  DEF Spec

----------------------------------------------------------------------------
(* The message count in the row.                                           *)

\* While the session is in memory, the row has no messages that memory lacks.
SavedInv == state.loaded => row.message_count <= state.message_count

SavedKept == row'.message_count >= row.message_count

\* The row and the count, step by step.
LEMMA SavedStep ==
    TypeOK /\ LockDiscipline /\ LoadedInv /\ SavedInv /\ [Next]_vars
    => SavedInv' /\ SavedKept
<1> SUFFICES ASSUME TypeOK, LockDiscipline, LoadedInv, SavedInv, [Next]_vars
             PROVE  SavedInv' /\ SavedKept
  OBVIOUS
<1>0. /\ row.message_count \in Nat
      /\ state.message_count \in Nat
  BY DEF TypeOK, RowOK, SessionRow, StateOK, SessionState
<1>1. ASSUME NEW c \in Conns, NEW m \in Members, AuthenticateHello(c, m)
      PROVE  SavedInv' /\ SavedKept
  BY <1>1, <1>0 DEF AuthenticateHello, SavedInv, SavedKept, memVars
<1>2. ASSUME NEW c \in Conns, Join(c) PROVE SavedInv' /\ SavedKept
  BY <1>2, <1>0 DEF Join, SavedInv, SavedKept, JoinedState, FreshState
<1>3. ASSUME NEW c \in Conns, SkipActivation(c) PROVE SavedInv' /\ SavedKept
  BY <1>3, <1>0 DEF SkipActivation, SavedInv, SavedKept, StartMonitoring
<1>4. ASSUME NEW c \in Conns, ReadForActivation(c) PROVE SavedInv' /\ SavedKept
  BY <1>4, <1>0 DEF ReadForActivation, SavedInv, SavedKept, memVars
<1>5. ASSUME NEW c \in Conns, CommitActivation(c) PROVE SavedInv' /\ SavedKept
  BY <1>5, <1>0
  DEF CommitActivation, SavedInv, SavedKept, StartMonitoring, ActivatedRow
<1>6. ASSUME NEW c \in Conns, SendReady(c) PROVE SavedInv' /\ SavedKept
  BY <1>6, <1>0 DEF SendReady, SavedInv, SavedKept, memVars
<1>7. ASSUME NEW c \in Conns, FailReady(c) \/ BadFrame(c)
      PROVE  SavedInv' /\ SavedKept
  BY <1>7, <1>0 DEF FailReady, BadFrame, SavedInv, SavedKept, memVars
<1>8. ASSUME NEW c \in Conns, FlushNext(c) PROVE SavedInv' /\ SavedKept
  BY <1>8, <1>0 DEF FlushNext, SavedInv, SavedKept
<1>9. ASSUME NEW c \in Conns, FlushDone(c) PROVE SavedInv' /\ SavedKept
  BY <1>9, <1>0 DEF FlushDone, SavedInv, SavedKept, memVars
<1>10. ASSUME NEW c \in Conns, HearDisconnect(c) PROVE SavedInv' /\ SavedKept
  BY <1>10, <1>0 DEF HearDisconnect, SavedInv, SavedKept, memVars
<1>11. ASSUME NEW c \in Conns, Disconnect(c) PROVE SavedInv' /\ SavedKept
  BY <1>11, <1>0 DEF Disconnect, SavedInv, SavedKept
<1>12. ASSUME NEW c \in Conns, CapEnds(c) PROVE SavedInv' /\ SavedKept
  BY <1>12, <1>0 DEF CapEnds, SavedInv, SavedKept, ClosedState, EnterEnd
<1>13. ASSUME NEW c \in Conns, CapIsMoot(c) PROVE SavedInv' /\ SavedKept
  BY <1>13, <1>0 DEF CapIsMoot, SavedInv, SavedKept, memVars
<1>14. ASSUME NEW c \in Conns, RelayFrame(c) PROVE SavedInv' /\ SavedKept
  BY <1>14, <1>0
  DEF RelayFrame, SavedInv, SavedKept, MayReceive, CountFrame, LoadedInv
<1>15. ASSUME NEW c \in Conns, CapFrame(c) PROVE SavedInv' /\ SavedKept
  BY <1>15, <1>0 DEF CapFrame, SavedInv, SavedKept, memVars
<1>16. ASSUME NEW c \in Conns, ClientDrop(c) PROVE SavedInv' /\ SavedKept
  BY <1>16, <1>0 DEF ClientDrop, SavedInv, SavedKept, memVars
<1>17. ASSUME NEW q \in Requests, NEW op \in AllOps, NEW m \in Members,
             ReadRow(q, op, m)
      PROVE  SavedInv' /\ SavedKept
  BY <1>17, <1>0 DEF ReadRow, SavedInv, SavedKept, memVars
<1>18. ASSUME NEW q \in Requests, CommitPropose(q) PROVE SavedInv' /\ SavedKept
  BY <1>18, <1>0 DEF CommitPropose, SavedInv, SavedKept, memVars
<1>19. ASSUME NEW q \in Requests, CommitAccept(q) PROVE SavedInv' /\ SavedKept
  BY <1>19, <1>0 DEF CommitAccept, SavedInv, SavedKept, memVars
<1>20. ASSUME NEW q \in Requests, CommitReject(q) PROVE SavedInv' /\ SavedKept
  BY <1>20, <1>0 DEF CommitReject, SavedInv, SavedKept, memVars
<1>21. ASSUME NEW q \in Requests, CommitClose(q) PROVE SavedInv' /\ SavedKept
  BY <1>21, <1>0 DEF CommitClose, SavedInv, SavedKept, memVars, ClosedRow
<1>22. ASSUME NEW q \in Requests, AcceptSchedules(q)
      PROVE  SavedInv' /\ SavedKept
  BY <1>22, <1>0
  DEF AcceptSchedules, SavedInv, SavedKept, ScheduleHandoffClose, TypeOK,
      StateOK, SessionState
<1>23. ASSUME NEW q \in Requests, AcceptFails(q) PROVE SavedInv' /\ SavedKept
  BY <1>23, <1>0 DEF AcceptFails, SavedInv, SavedKept, memVars
<1>24. ASSUME NEW q \in Requests, RequestEnds(q) PROVE SavedInv' /\ SavedKept
  BY <1>24, <1>0 DEF RequestEnds, SavedInv, SavedKept, ClosedState, EnterEnd
<1>25. ASSUME NEW q \in Requests, EndRequestIsMoot(q)
      PROVE  SavedInv' /\ SavedKept
  BY <1>25, <1>0 DEF EndRequestIsMoot, SavedInv, SavedKept, memVars
<1>26. ASSUME NEW q \in Requests, RequestEndsRow(q)
      PROVE  SavedInv' /\ SavedKept
  BY <1>26, <1>0 DEF RequestEndsRow, SavedInv, SavedKept, memVars, ClosedRow
<1>27. ASSUME NEW m \in Members, DeleteAccount(m) PROVE SavedInv' /\ SavedKept
  BY <1>27, <1>0 DEF DeleteAccount, SavedInv, SavedKept, memVars, ClosedRow
<1>28. CASE PersistClosed
  BY <1>28, <1>0
  DEF PersistClosed, SavedInv, SavedKept, memVars, ClosesRow, LockDiscipline
<1>29. CASE NotifyEnded
  <2>1. UNCHANGED <<row, state>>
    BY <1>29 DEF NotifyEnded
  <2> QED
    BY <2>1, <1>0 DEF SavedInv, SavedKept
<1>30. CASE MonitorDecides
  BY <1>30, <1>0 DEF MonitorDecides, SavedInv, SavedKept
<1>31. CASE MonitorEnds
  BY <1>31, <1>0 DEF MonitorEnds, SavedInv, SavedKept, ClosedState
<1>32. CASE HandoffFires
  BY <1>32, <1>0 DEF HandoffFires, SavedInv, SavedKept, ClosedState
<1>33. ASSUME NEW t \in HandoffTasks, OrphanFires(t)
       PROVE  SavedInv' /\ SavedKept
  <2>1. row'.message_count = row.message_count
    BY <1>33, <1>0 DEF OrphanFires, ClosedRow, TypeOK, RowOK, SessionRow
  <2>2. state' = state \/ state' = ClosedState
    BY <1>33 DEF OrphanFires, EnterEnd
  <2>3. /\ state'.loaded = state.loaded
        /\ state'.message_count = state.message_count
    BY <2>2 DEF ClosedState, TypeOK, StateOK, SessionState
  <2> QED
    BY <2>1, <2>3, <1>0 DEF SavedInv, SavedKept
<1>34. CASE RunMaintenance
  BY <1>34, <1>0 DEF RunMaintenance, SavedInv, SavedKept, memVars, ClosedRow
<1>35. CASE Tick
  BY <1>35, <1>0 DEF Tick, SavedInv, SavedKept
<1>36. ASSUME NEW c \in Conns, FailActivation(c) PROVE SavedInv' /\ SavedKept
  BY <1>36, <1>0 DEF FailActivation, SavedInv, SavedKept, memVars
<1>37. ASSUME NEW c \in Conns, FailFrame(c) PROVE SavedInv' /\ SavedKept
  BY <1>37, <1>0 DEF FailFrame, SavedInv, SavedKept, CountFrame
<1>38. CASE FailPersist
  BY <1>38, <1>0 DEF FailPersist, SavedInv, SavedKept, memVars
<1>39. CASE ServerRestart
  BY <1>39, <1>0 DEF ServerRestart, SavedInv, SavedKept, NoState
<1>40. CASE UNCHANGED vars
  BY <1>40, <1>0 DEF SavedInv, SavedKept, memVars, vars
<1> QED
  BY <1>1, <1>2, <1>3, <1>4, <1>5, <1>6, <1>7, <1>8, <1>9, <1>10, <1>11, <1>12,
     <1>13, <1>14, <1>15, <1>16, <1>17, <1>18, <1>19, <1>20, <1>21, <1>22,
     <1>23, <1>24, <1>25, <1>26, <1>27, <1>28, <1>29, <1>30, <1>31, <1>32,
     <1>33, <1>34, <1>35, <1>36, <1>37, <1>38, <1>39, <1>40
  DEF Next, HandlerStep, ClientStep, NewRequest, RequestStep, EndStep,
      TimerStep, Fault

\* The count in the row is never set back: the relay counts on from the row when
\* it loads a session, and nobody who writes the row has an older count
\* (relay.py, _join, _persist_message_count and _persist_closed).
THEOREM SavedCorrect == Spec => SavedCountGrows
<1>1. Init => SavedInv
  BY DEF Init, ServerIdle, SavedInv, NoState
<1>2. TypeOK /\ LockDiscipline /\ LoadedInv /\ SavedInv /\ [Next]_vars
      => [SavedKept]_vars
  BY SavedStep
<1> QED
  BY <1>1, <1>2, SavedStep, TypeCorrect, LockCorrect, LoadedCorrect, PTL
  DEF Spec, SavedCountGrows, SavedKept

----------------------------------------------------------------------------
(* The implementation of SessionLife.                                      *)

\* Each step is a step of SessionLife: a reading that decides, a commit that
\* carries out, a closing, or tasks that give up.
LEMMA LifeStep ==
    TypeOK /\ LockDiscipline /\ [Next]_vars => [Life!Next]_(Life!vars)
<1> SUFFICES ASSUME TypeOK, LockDiscipline, [Next]_vars
             PROVE  Life!Next \/ UNCHANGED <<Stage, Starting, Matching>>
  BY DEF Life!vars
<1> DEFINE Stutters == UNCHANGED <<Stage, Starting, Matching>>
<1> USE MembersAssumption, HoldersAssumption
<1>1. ASSUME NEW c \in Conns, NEW m \in Members, AuthenticateHello(c, m)
      PROVE  Stutters
  BY <1>1 DEF AuthenticateHello, Starting, Matching, Stage, Forgotten
<1>2. ASSUME NEW c \in Conns, Join(c) PROVE Stutters
  BY <1>2 DEF Join, Starting, Matching, Stage
<1>3. ASSUME NEW c \in Conns, SkipActivation(c) PROVE Stutters
  BY <1>3
  DEF SkipActivation, Starting, Matching, Stage, InPhase, StartMonitoring
<1>4. ASSUME NEW c \in Conns, ReadForActivation(c) PROVE Life!Next
  BY <1>4
  DEF ReadForActivation, Starting, Matching, Stage, TypeOK, ConnOK, InPhase,
      Life!Next, Life!DecideStart, Awaiting, LockDiscipline
<1>5. ASSUME NEW c \in Conns, CommitActivation(c) PROVE Life!Next
  BY <1>5
  DEF CommitActivation, Starting, Matching, Stage, TypeOK, ConnOK, InPhase,
      StartMonitoring, ActivatedRow, Life!Next, Life!Start
<1>6. ASSUME NEW c \in Conns, SendReady(c) PROVE Stutters
  BY <1>6 DEF SendReady, Starting, Matching, Stage
<1>7. ASSUME NEW c \in Conns, FailReady(c) \/ BadFrame(c) PROVE Stutters
  <2>1. CASE FailReady(c)
    BY <2>1 DEF FailReady, Starting, Matching, Stage, Finish, Out
  <2>2. CASE BadFrame(c)
    BY <2>2 DEF BadFrame, Starting, Matching, Stage, Finish, Out
  <2> QED  BY <1>7, <2>1, <2>2
<1>8. ASSUME NEW c \in Conns, FlushNext(c) PROVE Stutters
  BY <1>8 DEF FlushNext, Starting, Matching, Stage, TypeOK, ConnOK, Finish, Out
<1>9. ASSUME NEW c \in Conns, FlushDone(c) PROVE Stutters
  BY <1>9 DEF FlushDone, Starting, Matching, Stage
<1>10. ASSUME NEW c \in Conns, HearDisconnect(c) PROVE Stutters
  BY <1>10 DEF HearDisconnect, Starting, Matching, Stage, InPhase
<1>11. ASSUME NEW c \in Conns, Disconnect(c) PROVE Stutters
  BY <1>11 DEF Disconnect, Starting, Matching, Stage, Finish, Out
<1>12. ASSUME NEW c \in Conns, CapEnds(c) PROVE Stutters
  BY <1>12 DEF CapEnds, Starting, Matching, Stage
<1>13. ASSUME NEW c \in Conns, CapIsMoot(c) PROVE Stutters
  BY <1>13 DEF CapIsMoot, Starting, Matching, Stage, InPhase
<1>14. ASSUME NEW c \in Conns, RelayFrame(c) PROVE Stutters
  BY <1>14
  DEF RelayFrame, Starting, Matching, Stage, TypeOK, ConnOK, Connection,
      InPhase, Finish, Out, MayReceive, Buffer, Forward
<1>15. ASSUME NEW c \in Conns, CapFrame(c) PROVE Stutters
  BY <1>15 DEF CapFrame, Starting, Matching, Stage, InPhase, MayReceive
<1>16. ASSUME NEW c \in Conns, ClientDrop(c) PROVE Stutters
  BY <1>16 DEF ClientDrop, Starting, Matching, Stage
<1>17. ASSUME NEW q \in Requests, NEW op \in AllOps, NEW m \in Members,
             ReadRow(q, op, m)
      PROVE  Life!Next \/ Stutters
  BY <1>17
  DEF ReadRow, Starting, Matching, Stage, Life!Next, Life!DecideMatch, Admits,
      MayPropose, MayAnswer
<1>18. ASSUME NEW q \in Requests, CommitPropose(q) PROVE Life!Next
  BY <1>18
  DEF CommitPropose, Starting, Matching, Stage, TypeOK, ReqOK, Ready, Answered,
  Idle,
      Life!Next, Life!Match
<1>19. ASSUME NEW q \in Requests, CommitAccept(q) PROVE Life!Next
  BY <1>19
  DEF CommitAccept, Starting, Matching, Stage, TypeOK, ReqOK, Ready, Continues,
      Life!Next, Life!Match
<1>20. ASSUME NEW q \in Requests, CommitReject(q) PROVE Life!Next
  BY <1>20
  DEF CommitReject, Starting, Matching, Stage, TypeOK, ReqOK, Ready, Answered,
  Idle,
      Life!Next, Life!Match
<1>21. ASSUME NEW q \in Requests, CommitClose(q) PROVE Life!Next
  BY <1>21
  DEF CommitClose, Starting, Matching, Stage, Ready, Continues, ClosedRow,
      Life!Next, Life!Close
<1>22. ASSUME NEW q \in Requests, AcceptSchedules(q) PROVE Stutters
  BY <1>22 DEF AcceptSchedules, Starting, Matching, Stage, Answered, Idle
<1>23. ASSUME NEW q \in Requests, AcceptFails(q) PROVE Stutters
  BY <1>23 DEF AcceptFails, Starting, Matching, Stage, Answered, Idle
<1>24. ASSUME NEW q \in Requests, RequestEnds(q) PROVE Stutters
  BY <1>24 DEF RequestEnds, Starting, Matching, Stage
<1>25. ASSUME NEW q \in Requests, EndRequestIsMoot(q) PROVE Stutters
  BY <1>25 DEF EndRequestIsMoot, Starting, Matching, Stage, Answered, Idle
<1>26. ASSUME NEW q \in Requests, RequestEndsRow(q) PROVE Life!Next \/ Stutters
  BY <1>26
  DEF RequestEndsRow, Starting, Matching, Stage, Answered, Idle, ClosedRow,
      Life!Next, Life!Close
<1>27. ASSUME NEW m \in Members, DeleteAccount(m) PROVE Life!Next
  BY <1>27
  DEF DeleteAccount, Starting, Matching, Stage, ClosedRow, StillOpen,
      Life!Next, Life!Close
<1>28. CASE PersistClosed
  BY <1>28
  DEF PersistClosed, Starting, Matching, Stage, ClosesRow, ClosedRow,
      Life!Next, Life!Close
<1>29. CASE NotifyEnded
  <2>1. UNCHANGED Stage
    BY <1>29 DEF NotifyEnded, Stage
  <2>2. \A c \in Conns : conn'[c].phase \in {conn[c].phase, "loop"}
    BY <1>29 DEF NotifyEnded, TypeOK, ConnOK, Connection
  <2>3. \A q \in Requests : req'[q] = req[q] \/ req'[q].phase = "idle"
    BY <1>29 DEF NotifyEnded, Answered, Idle, TypeOK, ReqOK, Request
  <2>4. Starting' \subseteq Starting /\ Matching' \subseteq Matching
    BY <2>2, <2>3 DEF Starting, Matching
  <2> QED
    BY <2>1, <2>4 DEF Life!Next, Life!Abandon
<1>30. CASE MonitorDecides
  BY <1>30 DEF MonitorDecides, Starting, Matching, Stage
<1>31. CASE MonitorEnds
  BY <1>31 DEF MonitorEnds, Starting, Matching, Stage
<1>32. CASE HandoffFires
  BY <1>32 DEF HandoffFires, Starting, Matching, Stage
<1>33. ASSUME NEW t \in HandoffTasks, OrphanFires(t)
       PROVE  Life!Next \/ Stutters
  <2>1. UNCHANGED <<Starting, Matching>>
    BY <1>33 DEF OrphanFires, Starting, Matching
  <2>2. row' = row \/ row' = ClosedRow(row, "handoff_complete")
    BY <1>33 DEF OrphanFires
  <2>3. CASE row' = row
    BY <2>1, <2>3 DEF Stage
  <2>4. CASE row' = ClosedRow(row, "handoff_complete")
    <3>1. Stage' = "closed"
      BY <2>4 DEF ClosedRow, Stage
    <3> QED
      BY <2>1, <3>1 DEF Life!Next, Life!Close
  <2> QED
    BY <2>2, <2>3, <2>4
<1>34. CASE RunMaintenance
  BY <1>34
  DEF RunMaintenance, Starting, Matching, Stage, ClosedRow, Life!Next,
      Life!Close
<1>35. CASE Tick
  BY <1>35 DEF Tick, Starting, Matching, Stage
<1>36. ASSUME NEW c \in Conns, FailActivation(c) PROVE Life!Next
  BY <1>36
  DEF FailActivation, Starting, Matching, Stage, Finish, Out, Life!Next,
      Life!Abandon
<1>37. ASSUME NEW c \in Conns, FailFrame(c) PROVE Stutters
  BY <1>37 DEF FailFrame, Starting, Matching, Stage, Finish, Out, MayReceive
<1>38. CASE FailPersist
  BY <1>38
  DEF FailPersist, Starting, Matching, Stage, Finish, Out, Answered, Idle,
      Life!Next, Life!Abandon
<1>39. CASE ServerRestart
  BY <1>39
  DEF ServerRestart, Starting, Matching, Stage, Out, Idle, Life!Next,
      Life!Abandon
<1>40. CASE UNCHANGED vars
  BY <1>40 DEF Starting, Matching, Stage, vars
<1> QED
  BY <1>1, <1>2, <1>3, <1>4, <1>5, <1>6, <1>7, <1>8, <1>9, <1>10, <1>11, <1>12,
     <1>13, <1>14, <1>15, <1>16, <1>17, <1>18, <1>19, <1>20, <1>21, <1>22,
     <1>23, <1>24, <1>25, <1>26, <1>27, <1>28, <1>29, <1>30, <1>31, <1>32,
     <1>33, <1>34, <1>35, <1>36, <1>37, <1>38, <1>39, <1>40
  DEF Next, HandlerStep, ClientStep, NewRequest, RequestStep, EndStep,
      TimerStep, Fault

\* The row of a session lives as SessionLife promises, whatever reads and commits
\* of the relay, the routes and the maintenance job come between each other
\* (relay.py, _set_session_active; routes/matches.py; jobs.py).
THEOREM ImplementsLife == Spec => LifeSpec
<1>1. Init => Life!Init
  BY DEF Init, ServerIdle, Life!Init, NewRow, Out, Idle, Stage, Starting,
      Matching
<1> QED
  BY <1>1, LifeStep, TypeCorrect, LockCorrect, PTL DEF Spec, LifeSpec, Life!Spec

\* Once no task that had decided on it is in progress, a closed row is closed for
\* good (relay.py, _set_session_active; routes/matches.py, get_member_session).
THEOREM ClosedForGood == Spec => Life!FinalOnceQuiet
<1>1. [Life!Next]_(Life!vars)
      => [Stage = "closed" /\ Starting = {} /\ Matching = {}
          => Stage' = "closed" /\ Starting' = {} /\ Matching' = {}]_(Life!vars)
  BY
  DEF Life!Next, Life!DecideStart, Life!Start, Life!DecideMatch, Life!Match,
      Life!Close, Life!Abandon
<1> QED
  BY <1>1, ImplementsLife, PTL DEF LifeSpec, Life!Spec, Life!FinalOnceQuiet
=============================================================================
