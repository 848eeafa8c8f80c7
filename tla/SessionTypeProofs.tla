------------------------ MODULE SessionTypeProofs -------------------------
(***************************************************************************)
(* Type correctness of SessionSystem, for any number of connections and    *)
(* requests and any limits.  TypeOK is inductive as it stands; it bounds   *)
(* message_count by MESSAGE_CAP and the buffers by BUFFER_LIMIT, so the    *)
(* bulk of the proof is the steps that count and buffer frames.            *)
(***************************************************************************)
EXTENDS SessionSystem, TLAPS

\* The two members of the session are each other's counterparty.
LEMMA OtherIsMember ==
    ASSUME NEW m \in Members
    PROVE  Other(m) \in Members /\ Other(m) # m /\ Other(Other(m)) = m
  BY MembersAssumption DEF Members, Other

\* A connection that ends is well typed.
LEMMA FinishTyped ==
    ASSUME ConnOK, NEW c \in Conns, conn' = Finish(c)
    PROVE  ConnOK'
  BY DEF ConnOK, Connection, Phases, Finish, Out

\* So is one that moves to another phase.
LEMMA InPhaseTyped ==
    ASSUME ConnOK, NEW c \in Conns, conn[c].phase # "out",
           NEW phase \in Phases, conn' = InPhase(c, phase)
    PROVE  ConnOK'
  BY DEF ConnOK, Connection, InPhase

\* So is any update of one connection that names a member.
LEMMA ConnUpdateTyped ==
    ASSUME ConnOK, NEW c \in Conns, NEW r \in Connection,
           r.phase # "out" => r.agent \in Members,
           conn' = [conn EXCEPT ![c] = r]
    PROVE  ConnOK'
  BY DEF ConnOK

\* Counting a frame keeps the message count within the cap.
LEMMA CountFrameTyped ==
    ASSUME StateOK, HistoryOK, NEW m \in Members, BelowCap(state), CountFrame(m)
    PROVE  StateOK' /\ sent' \in [Members -> Nat] /\ sent[m] + 1 \in Nat
<1>1. StateOK'
  <2> DEFINE n == state.message_count + 1
  <2>1. state \in SessionState /\ n \in Nat /\ n <= MessageCap
    BY LimitsAssumption DEF StateOK, SessionState, BelowCap
  <2>2. state' = [state EXCEPT !.message_count = n, !.idle_for = 0]
    BY DEF CountFrame
  <2> HIDE DEF n
  <2>3. state' \in SessionState /\ state'.message_count = n
    BY <2>1, <2>2 DEF SessionState
  <2> QED
    BY <2>1, <2>3 DEF StateOK
<1>2. sent' \in [Members -> Nat] /\ sent[m] + 1 \in Nat
  BY DEF CountFrame, HistoryOK
<1> QED
  BY <1>1, <1>2

\* The state of a closed session is well typed.
LEMMA ClosedStateTyped ==
    ASSUME StateOK, state' = ClosedState
    PROVE  StateOK'
  BY DEF StateOK, SessionState, ClosedState, Unset

\* So is what the members have received, whether a frame arrives or not.
LEMMA ArrivesTyped ==
    ASSUME HistoryOK, NEW c \in Conns \cup {None}, NEW m \in Members,
           NEW k \in Nat,
           Arrives(c, m, k)
    PROVE  rcvd' \in [Members -> Seq(Nat)]
  BY DEF HistoryOK, Arrives

\* So is the row that the activation writes.
LEMMA ActivatedRowTyped ==
    ASSUME RowOK, row' = ActivatedRow(row)
    PROVE  RowOK'
<1>1. row.started + 1 \in Nat /\ ActiveWindow \in Nat
  BY WindowsAssumption DEF RowOK, SessionRow
<1>2. "active" \in Statuses
  BY DEF Statuses
<1> QED
  BY <1>1, <1>2 DEF RowOK, SessionRow, ActivatedRow

\* Every step keeps every variable in its type.
LEMMA TypeStep ==
    TypeOK /\ [Next]_vars => TypeOK'
<1> SUFFICES ASSUME TypeOK, [Next]_vars PROVE TypeOK'
  OBVIOUS
<1> USE MembersAssumption, HoldersAssumption, LimitsAssumption, WindowsAssumption
<1>1. ASSUME NEW c \in Conns, NEW m \in Members, AuthenticateHello(c, m)
      PROVE  TypeOK'
  <2>1. ConnOK'
    BY <1>1 DEF AuthenticateHello, TypeOK, ConnOK, Connection, Phases, Members
  <2>2. HolderOK'
    BY <1>1
    DEF AuthenticateHello, TypeOK, HolderOK, lockVars, ConnOK, Connection,
        Forgotten
  <2>3. RowOK' /\ StateOK' /\ SocketsOK' /\ BuffersOK' /\ OrphanOK' /\ LockOK'
        /\ ReqOK' /\ HistoryOK' /\ EnvironmentOK'
    BY <1>1
    DEF AuthenticateHello, TypeOK, RowOK, StateOK, SocketsOK, BuffersOK,
        OrphanOK, LockOK, ReqOK, HistoryOK, EnvironmentOK, memVars, lockVars,
        history, environment
  <2> QED
    BY <2>1, <2>2, <2>3 DEF TypeOK
<1>2. ASSUME NEW c \in Conns, Join(c) PROVE TypeOK'
  <2>1. SocketsOK'
    BY <1>2 DEF Join, TypeOK, SocketsOK, Members
  <2>2. StateOK'
    BY <1>2
    DEF Join, TypeOK, StateOK, SessionState, NoState, Unset, TimerReasons,
        JoinedState, FreshState, RowOK, SessionRow
  <2>3. LockOK'
    BY <1>2 DEF Join, TypeOK, LockOK, Holders, Reasons, TimerReasons
  <2>4. ConnOK'
    <3> DEFINE m == conn[c].agent
               p == IF Completes(m, JoinedState) THEN "activating" ELSE "joined"
    <3>1. conn' = [d \in Conns |->
                     IF d = c THEN [conn[d] EXCEPT !.phase = p]
                     ELSE IF d = sockets[m] THEN [conn[d] EXCEPT !.live = FALSE]
                     ELSE conn[d]]
      BY <1>2 DEF Join
    <3>2. p \in Phases /\ conn[c].phase # "out"
      BY <1>2 DEF Join, Phases
    <3> HIDE DEF p
    <3>3. ASSUME NEW d \in Conns
          PROVE  /\ conn'[d] \in Connection
                 /\ conn'[d].agent = conn[d].agent
                 /\ conn[d].phase = "out" => conn'[d].phase = "out"
      BY <1>2, <3>1, <3>2 DEF TypeOK, ConnOK, Connection
    <3> QED
      BY <3>1, <3>3 DEF TypeOK, ConnOK
  <2>5. HolderOK'
    BY <1>2 DEF Join, TypeOK, HolderOK, ConnOK, Connection, LockFree
  <2>6. RowOK' /\ BuffersOK' /\ OrphanOK' /\ ReqOK' /\ HistoryOK'
        /\ EnvironmentOK'
    BY <1>2
    DEF Join, TypeOK, RowOK, BuffersOK, OrphanOK, ReqOK, HistoryOK,
        EnvironmentOK, history, environment
  <2> QED
    BY <2>1, <2>2, <2>3, <2>4, <2>5, <2>6 DEF TypeOK
<1>3. ASSUME NEW c \in Conns, SkipActivation(c) PROVE TypeOK'
  <2>1. StateOK'
    BY <1>3
    DEF SkipActivation, TypeOK, StateOK, SessionState, Unset, TimerReasons,
        StartMonitoring
  <2>2. LockOK'
    BY <1>3
    DEF SkipActivation, TypeOK, LockOK, Holders, Reasons, TimerReasons,
        StartMonitoring
  <2>3. ConnOK'
    BY <1>3
    DEF SkipActivation, TypeOK, ConnOK, Connection, Phases, InPhase, Members,
        StartMonitoring
  <2>4. HolderOK'
    BY <1>3
    DEF SkipActivation, TypeOK, HolderOK, ConnOK, Connection, InPhase,
        StartMonitoring
  <2>5. RowOK' /\ SocketsOK' /\ BuffersOK' /\ OrphanOK' /\ ReqOK'
        /\ HistoryOK' /\ EnvironmentOK'
    BY <1>3
    DEF SkipActivation, TypeOK, RowOK, SocketsOK, BuffersOK, OrphanOK, ReqOK,
        HistoryOK, EnvironmentOK, history, environment, StartMonitoring
  <2> QED
    BY <2>1, <2>2, <2>3, <2>4, <2>5 DEF TypeOK
<1>4. ASSUME NEW c \in Conns, ReadForActivation(c) PROVE TypeOK'
  <2>1. ConnOK'
    BY <1>4
    DEF ReadForActivation, TypeOK, ConnOK, Connection, Phases, InPhase,
        Members
  <2>2. HolderOK'
    BY <1>4
    DEF ReadForActivation, TypeOK, HolderOK, lockVars, ConnOK, Connection,
        InPhase
  <2>3. RowOK' /\ StateOK' /\ SocketsOK' /\ BuffersOK' /\ OrphanOK' /\ LockOK'
        /\ ReqOK' /\ HistoryOK' /\ EnvironmentOK'
    BY <1>4
    DEF ReadForActivation, TypeOK, RowOK, StateOK, SocketsOK, BuffersOK,
        OrphanOK, LockOK, ReqOK, HistoryOK, EnvironmentOK, memVars, lockVars,
        history, environment
  <2> QED
    BY <2>1, <2>2, <2>3 DEF TypeOK
<1>5. ASSUME NEW c \in Conns, CommitActivation(c) PROVE TypeOK'
  <2>1. RowOK'
    BY <1>5, ActivatedRowTyped DEF CommitActivation, TypeOK
  <2>2. StateOK'
    BY <1>5
    DEF CommitActivation, TypeOK, StateOK, SessionState, Unset, TimerReasons,
        StartMonitoring
  <2>3. LockOK'
    BY <1>5
    DEF CommitActivation, TypeOK, LockOK, Holders, Reasons, TimerReasons,
        StartMonitoring
  <2>4. ConnOK'
    BY <1>5
    DEF CommitActivation, TypeOK, ConnOK, Connection, Phases, InPhase,
        Members, StartMonitoring
  <2>5. HolderOK'
    BY <1>5
    DEF CommitActivation, TypeOK, HolderOK, ConnOK, Connection, InPhase,
        StartMonitoring
  <2>6. SocketsOK' /\ BuffersOK' /\ OrphanOK' /\ ReqOK' /\ HistoryOK'
        /\ EnvironmentOK'
    BY <1>5
    DEF CommitActivation, TypeOK, SocketsOK, BuffersOK, OrphanOK, ReqOK,
        HistoryOK, EnvironmentOK, history, environment, StartMonitoring
  <2> QED
    BY <2>1, <2>2, <2>3, <2>4, <2>5, <2>6 DEF TypeOK
<1>6. ASSUME NEW c \in Conns, SendReady(c) PROVE TypeOK'
  <2>1. ConnOK'
    <3> DEFINE t == sockets[conn[c].agent]
               r == [conn[c] EXCEPT
                       !.phase = IF t = None THEN "loop" ELSE "flushing",
                       !.target = t]
    <3>1. conn[c] \in Connection /\ conn[c].agent \in Members
      BY <1>6 DEF SendReady, TypeOK, ConnOK
    <3>2. t \in Conns \cup {None}
      BY <3>1 DEF TypeOK, SocketsOK
    <3>3. r \in Connection /\ r.agent \in Members
      BY <3>1, <3>2 DEF Connection, Phases
    <3>4. conn' = [conn EXCEPT ![c] = r]
      BY <1>6 DEF SendReady
    <3> QED
      BY <3>3, <3>4, ConnUpdateTyped DEF TypeOK
  <2>2. HolderOK'
    BY <1>6 DEF SendReady, TypeOK, HolderOK, lockVars, ConnOK, Connection
  <2>3. RowOK' /\ StateOK' /\ SocketsOK' /\ BuffersOK' /\ OrphanOK' /\ LockOK'
        /\ ReqOK' /\ HistoryOK' /\ EnvironmentOK'
    BY <1>6
    DEF SendReady, TypeOK, RowOK, StateOK, SocketsOK, BuffersOK, OrphanOK,
        LockOK, ReqOK, HistoryOK, EnvironmentOK, memVars, lockVars, history,
        environment
  <2> QED
    BY <2>1, <2>2, <2>3 DEF TypeOK
<1>7. ASSUME NEW c \in Conns, FailReady(c) \/ BadFrame(c) PROVE TypeOK'
  <2>0. conn' = Finish(c)
    BY <1>7 DEF FailReady, BadFrame
  <2>1. ConnOK'
    BY <2>0 DEF TypeOK, ConnOK, Connection, Phases, Finish, Out, Members
  <2>2. HolderOK'
    BY <1>7
    DEF FailReady, BadFrame, TypeOK, HolderOK, lockVars, ConnOK, Connection,
        Finish, Out
  <2>3. RowOK' /\ StateOK' /\ SocketsOK' /\ BuffersOK' /\ OrphanOK' /\ LockOK'
        /\ ReqOK' /\ HistoryOK' /\ EnvironmentOK'
    BY <1>7
    DEF FailReady, BadFrame, TypeOK, RowOK, StateOK, SocketsOK, BuffersOK,
        OrphanOK, LockOK, ReqOK, HistoryOK, EnvironmentOK, memVars, lockVars, history,
        environment
  <2> QED
    BY <2>1, <2>2, <2>3 DEF TypeOK
<1>8. ASSUME NEW c \in Conns, FlushNext(c) PROVE TypeOK'
  <2>1. BuffersOK'
    BY <1>8 DEF FlushNext, TypeOK, BuffersOK, Members, Other, Remaining
  <2>2. HistoryOK'
    <3> DEFINE m == conn[c].agent
               b == buffers[Other(m)]
    <3>1. m \in Members /\ conn[c].target \in Conns \cup {None}
      BY <1>8 DEF FlushNext, TypeOK, ConnOK, Connection
    <3>2. b \in Seq(Nat) /\ b # <<>>
      BY <1>8, <3>1, OtherIsMember DEF FlushNext, TypeOK, BuffersOK
    <3>3. Head(b) \in Nat
      BY <3>2
    <3>4. rcvd' \in [Members -> Seq(Nat)]
      BY <1>8, <3>1, <3>3, ArrivesTyped DEF FlushNext, TypeOK
    <3> QED
      BY <1>8, <3>4 DEF FlushNext, TypeOK, HistoryOK
  <2>3. ConnOK'
    BY <1>8, FinishTyped DEF FlushNext, TypeOK, ConnOK
  <2>4. HolderOK'
    BY <1>8
    DEF FlushNext, TypeOK, HolderOK, lockVars, ConnOK, Connection, Finish, Out
  <2>5. RowOK' /\ StateOK' /\ SocketsOK' /\ OrphanOK' /\ LockOK' /\ ReqOK'
        /\ EnvironmentOK'
    BY <1>8
    DEF FlushNext, TypeOK, RowOK, StateOK, SocketsOK, OrphanOK, LockOK, ReqOK,
        EnvironmentOK, lockVars, environment, Arrives
  <2> QED
    BY <2>1, <2>2, <2>3, <2>4, <2>5 DEF TypeOK
<1>9. ASSUME NEW c \in Conns, FlushDone(c) PROVE TypeOK'
  <2>1. ConnOK'
    <3> DEFINE r == [conn[c] EXCEPT !.phase = "loop", !.target = None]
    <3>1. r \in Connection /\ r.agent \in Members
      BY <1>9 DEF FlushDone, TypeOK, ConnOK, Connection, Phases
    <3>2. conn' = [conn EXCEPT ![c] = r]
      BY <1>9 DEF FlushDone
    <3> QED
      BY <3>1, <3>2, ConnUpdateTyped DEF TypeOK
  <2>2. HolderOK'
    BY <1>9 DEF FlushDone, TypeOK, HolderOK, lockVars, ConnOK, Connection
  <2>3. RowOK' /\ StateOK' /\ SocketsOK' /\ BuffersOK' /\ OrphanOK' /\ LockOK'
        /\ ReqOK' /\ HistoryOK' /\ EnvironmentOK'
    BY <1>9
    DEF FlushDone, TypeOK, RowOK, StateOK, SocketsOK, BuffersOK, OrphanOK,
        LockOK, ReqOK, HistoryOK, EnvironmentOK, memVars, lockVars, history,
        environment
  <2> QED
    BY <2>1, <2>2, <2>3 DEF TypeOK
<1>10. ASSUME NEW c \in Conns, HearDisconnect(c) PROVE TypeOK'
  <2>1. ConnOK'
    BY <1>10
    DEF HearDisconnect, TypeOK, ConnOK, Connection, Phases, InPhase, Members
  <2>2. HolderOK'
    BY <1>10
    DEF HearDisconnect, TypeOK, HolderOK, lockVars, ConnOK, Connection,
        InPhase
  <2>3. RowOK' /\ StateOK' /\ SocketsOK' /\ BuffersOK' /\ OrphanOK' /\ LockOK'
        /\ ReqOK' /\ HistoryOK' /\ EnvironmentOK'
    BY <1>10
    DEF HearDisconnect, TypeOK, RowOK, StateOK, SocketsOK, BuffersOK,
        OrphanOK, LockOK, ReqOK, HistoryOK, EnvironmentOK, memVars, lockVars,
        history, environment
  <2> QED
    BY <2>1, <2>2, <2>3 DEF TypeOK
<1>11. ASSUME NEW c \in Conns, Disconnect(c) PROVE TypeOK'
  <2>1. SocketsOK'
    BY <1>11 DEF Disconnect, TypeOK, SocketsOK, Members
  <2>2. ConnOK'
    BY <1>11
    DEF Disconnect, TypeOK, ConnOK, Connection, Phases, Finish, Out, Members
  <2>3. HolderOK'
    BY <1>11
    DEF Disconnect, TypeOK, HolderOK, lockVars, ConnOK, Connection, LockFree,
        Finish, Out
  <2>4. RowOK' /\ StateOK' /\ BuffersOK' /\ OrphanOK' /\ LockOK' /\ ReqOK'
        /\ HistoryOK' /\ EnvironmentOK'
    BY <1>11
    DEF Disconnect, TypeOK, RowOK, StateOK, BuffersOK, OrphanOK, LockOK,
        ReqOK, HistoryOK, EnvironmentOK, lockVars, history, environment
  <2> QED
    BY <2>1, <2>2, <2>3, <2>4 DEF TypeOK
<1>12. ASSUME NEW c \in Conns, CapEnds(c) PROVE TypeOK'
  <2>1. StateOK'
    BY <1>12
    DEF CapEnds, TypeOK, StateOK, SessionState, Unset, TimerReasons,
        ClosedState, EnterEnd
  <2>2. LockOK'
    BY <1>12
    DEF CapEnds, TypeOK, LockOK, Holders, Reasons, TimerReasons, EnterEnd
  <2>3. HolderOK'
    BY <1>12
    DEF CapEnds, TypeOK, HolderOK, ConnOK, Connection, LockFree, EnterEnd
  <2>4. RowOK' /\ SocketsOK' /\ BuffersOK' /\ OrphanOK' /\ ConnOK' /\ ReqOK'
        /\ HistoryOK' /\ EnvironmentOK'
    BY <1>12
    DEF CapEnds, TypeOK, RowOK, SocketsOK, BuffersOK, OrphanOK, ConnOK, ReqOK,
        HistoryOK, EnvironmentOK, history, environment
  <2> QED
    BY <2>1, <2>2, <2>3, <2>4 DEF TypeOK
<1>13. ASSUME NEW c \in Conns, CapIsMoot(c) PROVE TypeOK'
  <2>1. ConnOK'
    BY <1>13
    DEF CapIsMoot, TypeOK, ConnOK, Connection, Phases, InPhase, Members
  <2>2. HolderOK'
    BY <1>13
    DEF CapIsMoot, TypeOK, HolderOK, lockVars, ConnOK, Connection, LockFree,
        InPhase, EndIsMoot
  <2>3. RowOK' /\ StateOK' /\ SocketsOK' /\ BuffersOK' /\ OrphanOK' /\ LockOK'
        /\ ReqOK' /\ HistoryOK' /\ EnvironmentOK'
    BY <1>13
    DEF CapIsMoot, TypeOK, RowOK, StateOK, SocketsOK, BuffersOK, OrphanOK,
        LockOK, ReqOK, HistoryOK, EnvironmentOK, memVars, lockVars, history,
        environment
  <2> QED
    BY <2>1, <2>2, <2>3 DEF TypeOK
<1>14. ASSUME NEW c \in Conns, RelayFrame(c) PROVE TypeOK'
  <2>1. RowOK'
    BY <1>14
    DEF RelayFrame, TypeOK, RowOK, SessionRow, Statuses, Reasons,
        TimerReasons, Members, StateOK, SessionState, BelowCap
  <2>2. StateOK'
    BY <1>14, CountFrameTyped DEF RelayFrame, MayReceive, TypeOK, ConnOK
  <2>3. HistoryOK'
    <3> DEFINE m == conn[c].agent
    <3>1. m \in Members
      BY <1>14 DEF RelayFrame, MayReceive, TypeOK, ConnOK
    <3>2. sent' \in [Members -> Nat] /\ sent[m] + 1 \in Nat
      BY <1>14, <3>1, CountFrameTyped DEF RelayFrame, TypeOK
    <3>3. CASE Buffer(m, sent[m] + 1)
      BY <1>14, <3>2, <3>3 DEF RelayFrame, Buffer, TypeOK, HistoryOK
    <3>4. CASE Forward(c, m, sent[m] + 1)
      <4>1. Other(m) \in Members /\ sockets[Other(m)] \in Conns \cup {None}
        BY <3>1, OtherIsMember DEF TypeOK, SocketsOK
      <4>2. rcvd' \in [Members -> Seq(Nat)]
        BY <3>2, <3>4, <4>1, ArrivesTyped DEF Forward, TypeOK
      <4> QED
        BY <1>14, <3>2, <4>2 DEF RelayFrame, TypeOK, HistoryOK
    <3> QED
      BY <1>14, <3>3, <3>4 DEF RelayFrame
  <2>4. BuffersOK'
    <3> DEFINE m == conn[c].agent
               k == sent[m] + 1
    <3>1. m \in Members
      BY <1>14 DEF RelayFrame, MayReceive, TypeOK, ConnOK
    <3>2. k \in Nat
      BY <1>14, <3>1, CountFrameTyped DEF RelayFrame, TypeOK
    <3> HIDE DEF k
    <3>3. CASE Buffer(m, k)
      <4>1. CASE RoomInBuffer(buffers[m])
        <5>1. buffers' = [buffers EXCEPT ![m] = Append(buffers[m], k)]
          BY <3>3, <4>1 DEF Buffer
        <5>2. Append(buffers[m], k) \in Seq(Nat)
          BY <3>1, <3>2 DEF TypeOK, BuffersOK
        <5>3. Len(Append(buffers[m], k)) <= BufferLimit
          BY <3>1, <3>2, <4>1 DEF RoomInBuffer, TypeOK, BuffersOK
        <5> QED
          BY <3>1, <5>1, <5>2, <5>3 DEF TypeOK, BuffersOK
      <4>2. CASE ~RoomInBuffer(buffers[m])
        BY <3>3, <4>2 DEF Buffer, TypeOK, BuffersOK
      <4> QED
        BY <4>1, <4>2
    <3>4. CASE Forward(c, m, k)
      BY <3>4 DEF Forward, TypeOK, BuffersOK
    <3> QED
      BY <1>14, <3>3, <3>4 DEF RelayFrame, k
  <2>5. ConnOK'
    <3>1. \/ UNCHANGED conn
          \/ conn' = InPhase(c, "leaving")
          \/ conn' = Finish(c)
      BY <1>14 DEF RelayFrame, Buffer, Forward
    <3>2. conn[c].phase # "out" /\ "leaving" \in Phases
      BY <1>14 DEF RelayFrame, MayReceive, Phases
    <3> QED
      BY <3>1, <3>2, FinishTyped, InPhaseTyped DEF TypeOK, ConnOK
  <2>6. HolderOK'
    BY <1>14
    DEF RelayFrame, TypeOK, HolderOK, lockVars, ConnOK, Connection, LockFree,
        InPhase, Finish, Out, MayReceive, Buffer, Forward
  <2>7. SocketsOK' /\ OrphanOK' /\ LockOK' /\ ReqOK' /\ EnvironmentOK'
    BY <1>14
    DEF RelayFrame, TypeOK, SocketsOK, OrphanOK, LockOK, ReqOK, EnvironmentOK,
        lockVars, environment, CountFrame
  <2> QED
    BY <2>1, <2>2, <2>3, <2>4, <2>5, <2>6, <2>7 DEF TypeOK
<1>15. ASSUME NEW c \in Conns, CapFrame(c) PROVE TypeOK'
  <2>1. ConnOK'
    BY <1>15
    DEF CapFrame, TypeOK, ConnOK, Connection, Phases, InPhase, Members,
        MayReceive
  <2>2. HolderOK'
    BY <1>15
    DEF CapFrame, TypeOK, HolderOK, lockVars, ConnOK, Connection, LockFree,
        InPhase, MayReceive
  <2>3. RowOK' /\ StateOK' /\ SocketsOK' /\ BuffersOK' /\ OrphanOK' /\ LockOK'
        /\ ReqOK' /\ HistoryOK' /\ EnvironmentOK'
    BY <1>15
    DEF CapFrame, TypeOK, RowOK, StateOK, SocketsOK, BuffersOK, OrphanOK,
        LockOK, ReqOK, HistoryOK, EnvironmentOK, memVars, lockVars, history,
        environment
  <2> QED
    BY <2>1, <2>2, <2>3 DEF TypeOK
<1>16. ASSUME NEW c \in Conns, ClientDrop(c) PROVE TypeOK'
  <2>1. ConnOK'
    BY <1>16 DEF ClientDrop, TypeOK, ConnOK, Connection, Phases, Members
  <2>2. HolderOK'
    BY <1>16 DEF ClientDrop, TypeOK, HolderOK, lockVars, ConnOK, Connection
  <2>3. RowOK' /\ StateOK' /\ SocketsOK' /\ BuffersOK' /\ OrphanOK' /\ LockOK'
        /\ ReqOK' /\ HistoryOK' /\ EnvironmentOK'
    BY <1>16
    DEF ClientDrop, TypeOK, RowOK, StateOK, SocketsOK, BuffersOK, OrphanOK,
        LockOK, ReqOK, HistoryOK, EnvironmentOK, memVars, lockVars, history,
        environment
  <2> QED
    BY <2>1, <2>2, <2>3 DEF TypeOK
<1>17. ASSUME NEW q \in Requests, NEW op \in AllOps, NEW m \in Members,
                    ReadRow(q, op, m) PROVE TypeOK'
  <2>1. ReqOK'
    BY <1>17
    DEF ReadRow, TypeOK, ReqOK, Request, RequestPhases, AllOps, Members
  <2>2. RowOK' /\ StateOK' /\ SocketsOK' /\ BuffersOK' /\ OrphanOK' /\ LockOK'
        /\ ConnOK' /\ HolderOK' /\ HistoryOK' /\ EnvironmentOK'
    BY <1>17
    DEF ReadRow, TypeOK, RowOK, StateOK, SocketsOK, BuffersOK, OrphanOK,
        LockOK, ConnOK, HolderOK, HistoryOK, EnvironmentOK, memVars, lockVars,
        history, environment
  <2> QED
    BY <2>1, <2>2 DEF TypeOK
<1>18. ASSUME NEW q \in Requests, CommitPropose(q) PROVE TypeOK'
  <2>1. RowOK'
    BY <1>18
    DEF CommitPropose, TypeOK, RowOK, SessionRow, Statuses, Reasons,
        TimerReasons, Members, ReqOK, Ready
  <2>2. HistoryOK'
    BY <1>18 DEF CommitPropose, TypeOK, HistoryOK, Members, ReqOK, Ready
  <2>3. ReqOK'
    BY <1>18
    DEF CommitPropose, TypeOK, ReqOK, Request, RequestPhases, AllOps,
        Answered, Idle, Members
  <2>4. StateOK' /\ SocketsOK' /\ BuffersOK' /\ OrphanOK' /\ LockOK'
        /\ ConnOK' /\ HolderOK' /\ EnvironmentOK'
    BY <1>18
    DEF CommitPropose, TypeOK, StateOK, SocketsOK, BuffersOK, OrphanOK,
        LockOK, ConnOK, HolderOK, EnvironmentOK, memVars, lockVars,
        environment
  <2> QED
    BY <2>1, <2>2, <2>3, <2>4 DEF TypeOK
<1>19. ASSUME NEW q \in Requests, CommitAccept(q) PROVE TypeOK'
  <2>1. RowOK'
    BY <1>19
    DEF CommitAccept, TypeOK, RowOK, SessionRow, Statuses, Reasons,
        TimerReasons, Members
  <2>2. HistoryOK'
    BY <1>19 DEF CommitAccept, TypeOK, HistoryOK, Members, ReqOK, Ready
  <2>3. ReqOK'
    BY <1>19
    DEF CommitAccept, TypeOK, ReqOK, Request, RequestPhases, AllOps, Continues,
        Members
  <2>4. StateOK' /\ SocketsOK' /\ BuffersOK' /\ OrphanOK' /\ LockOK'
        /\ ConnOK' /\ HolderOK' /\ EnvironmentOK'
    BY <1>19
    DEF CommitAccept, TypeOK, StateOK, SocketsOK, BuffersOK, OrphanOK, LockOK,
        ConnOK, HolderOK, EnvironmentOK, memVars, lockVars, environment
  <2> QED
    BY <2>1, <2>2, <2>3, <2>4 DEF TypeOK
<1>20. ASSUME NEW q \in Requests, CommitReject(q) PROVE TypeOK'
  <2>1. RowOK'
    BY <1>20
    DEF CommitReject, TypeOK, RowOK, SessionRow, Statuses, Reasons,
        TimerReasons, Members
  <2>2. ReqOK'
    BY <1>20
    DEF CommitReject, TypeOK, ReqOK, Request, RequestPhases, AllOps, Answered,
    Idle,
        Members
  <2>3. StateOK' /\ SocketsOK' /\ BuffersOK' /\ OrphanOK' /\ LockOK'
        /\ ConnOK' /\ HolderOK' /\ HistoryOK' /\ EnvironmentOK'
    BY <1>20
    DEF CommitReject, TypeOK, StateOK, SocketsOK, BuffersOK, OrphanOK, LockOK,
        ConnOK, HolderOK, HistoryOK, EnvironmentOK, memVars, lockVars,
        history, environment
  <2> QED
    BY <2>1, <2>2, <2>3 DEF TypeOK
<1>21. ASSUME NEW q \in Requests, CommitClose(q) PROVE TypeOK'
  <2>1. RowOK'
    BY <1>21
    DEF CommitClose, TypeOK, RowOK, SessionRow, Statuses, Reasons,
        TimerReasons, Members, ClosedRow, CloseReason
  <2>2. ReqOK'
    BY <1>21
    DEF CommitClose, TypeOK, ReqOK, Request, RequestPhases, AllOps, Continues,
        Members
  <2>3. StateOK' /\ SocketsOK' /\ BuffersOK' /\ OrphanOK' /\ LockOK'
        /\ ConnOK' /\ HolderOK' /\ HistoryOK' /\ EnvironmentOK'
    BY <1>21
    DEF CommitClose, TypeOK, StateOK, SocketsOK, BuffersOK, OrphanOK, LockOK,
        ConnOK, HolderOK, HistoryOK, EnvironmentOK, memVars, lockVars,
        history, environment
  <2> QED
    BY <2>1, <2>2, <2>3 DEF TypeOK
<1>22. ASSUME NEW q \in Requests, AcceptSchedules(q) PROVE TypeOK'
  <2>1. StateOK'
    BY <1>22
    DEF AcceptSchedules, TypeOK, StateOK, SessionState, Unset, TimerReasons,
        ScheduleHandoffClose
  <2>2. OrphanOK'
    BY <1>22
    DEF AcceptSchedules, TypeOK, OrphanOK, Unset, ScheduleHandoffClose
  <2>3. ReqOK'
    BY <1>22
    DEF AcceptSchedules, TypeOK, ReqOK, Request, RequestPhases, AllOps,
        Answered, Idle, Members
  <2>4. RowOK' /\ SocketsOK' /\ BuffersOK' /\ LockOK' /\ ConnOK' /\ HolderOK'
        /\ HistoryOK' /\ EnvironmentOK'
    BY <1>22
    DEF AcceptSchedules, TypeOK, RowOK, SocketsOK, BuffersOK, LockOK, ConnOK,
        HolderOK, HistoryOK, EnvironmentOK, lockVars, history, environment,
        ScheduleHandoffClose
  <2> QED
    BY <2>1, <2>2, <2>3, <2>4 DEF TypeOK
<1>23. ASSUME NEW q \in Requests, AcceptFails(q) PROVE TypeOK'
  <2>1. ReqOK'
    BY <1>23
    DEF AcceptFails, TypeOK, ReqOK, Request, RequestPhases, AllOps, Answered,
    Idle,
        Members
  <2>2. RowOK' /\ StateOK' /\ SocketsOK' /\ BuffersOK' /\ OrphanOK' /\ LockOK'
        /\ ConnOK' /\ HolderOK' /\ HistoryOK' /\ EnvironmentOK'
    BY <1>23
    DEF AcceptFails, TypeOK, RowOK, StateOK, SocketsOK, BuffersOK, OrphanOK,
        LockOK, ConnOK, HolderOK, HistoryOK, EnvironmentOK, memVars, lockVars,
        history, environment
  <2> QED
    BY <2>1, <2>2 DEF TypeOK
<1>24. ASSUME NEW q \in Requests, RequestEnds(q) PROVE TypeOK'
  <2>1. StateOK'
    BY <1>24
    DEF RequestEnds, TypeOK, StateOK, SessionState, Unset, TimerReasons,
        ClosedState, EnterEnd
  <2>2. LockOK'
    BY <1>24
    DEF RequestEnds, TypeOK, LockOK, Holders, Reasons, TimerReasons, EnterEnd,
        CloseReason
  <2>3. HolderOK'
    BY <1>24
    DEF RequestEnds, TypeOK, HolderOK, ConnOK, Connection, LockFree, EnterEnd
  <2>4. RowOK' /\ SocketsOK' /\ BuffersOK' /\ OrphanOK' /\ ConnOK' /\ ReqOK'
        /\ HistoryOK' /\ EnvironmentOK'
    BY <1>24
    DEF RequestEnds, TypeOK, RowOK, SocketsOK, BuffersOK, OrphanOK, ConnOK,
        ReqOK, HistoryOK, EnvironmentOK, history, environment
  <2> QED
    BY <2>1, <2>2, <2>3, <2>4 DEF TypeOK
<1>25. ASSUME NEW q \in Requests, EndRequestIsMoot(q) PROVE TypeOK'
  <2>1. ReqOK'
    BY <1>25
    DEF EndRequestIsMoot, TypeOK, ReqOK, Request, RequestPhases, AllOps,
        Answered, Idle, Members
  <2>2. RowOK' /\ StateOK' /\ SocketsOK' /\ BuffersOK' /\ OrphanOK' /\ LockOK'
        /\ ConnOK' /\ HolderOK' /\ HistoryOK' /\ EnvironmentOK'
    BY <1>25
    DEF EndRequestIsMoot, TypeOK, RowOK, StateOK, SocketsOK, BuffersOK,
        OrphanOK, LockOK, ConnOK, HolderOK, HistoryOK, EnvironmentOK, memVars,
        lockVars, history, environment
  <2> QED
    BY <2>1, <2>2 DEF TypeOK
<1>26. ASSUME NEW q \in Requests, RequestEndsRow(q) PROVE TypeOK'
  <2>1. RowOK'
    BY <1>26
    DEF RequestEndsRow, TypeOK, RowOK, SessionRow, Statuses, Reasons,
        TimerReasons, Members, ClosedRow
  <2>2. ReqOK'
    BY <1>26
    DEF RequestEndsRow, TypeOK, ReqOK, Request, RequestPhases, AllOps,
        Answered, Idle, Members
  <2>3. StateOK' /\ SocketsOK' /\ BuffersOK' /\ OrphanOK' /\ LockOK'
        /\ ConnOK' /\ HolderOK' /\ HistoryOK' /\ EnvironmentOK'
    BY <1>26
    DEF RequestEndsRow, TypeOK, StateOK, SocketsOK, BuffersOK, OrphanOK,
        LockOK, ConnOK, HolderOK, HistoryOK, EnvironmentOK, memVars, lockVars,
        history, environment
  <2> QED
    BY <2>1, <2>2, <2>3 DEF TypeOK
<1>27. ASSUME NEW m \in Members, DeleteAccount(m) PROVE TypeOK'
  <2>1. RowOK'
    BY <1>27
    DEF DeleteAccount, TypeOK, RowOK, SessionRow, Statuses, Reasons,
        TimerReasons, Members, ClosedRow, StillOpen
  <2>2. EnvironmentOK'
    BY <1>27 DEF DeleteAccount, TypeOK, EnvironmentOK, Members
  <2>3. StateOK' /\ SocketsOK' /\ BuffersOK' /\ OrphanOK' /\ LockOK'
        /\ ConnOK' /\ HolderOK' /\ ReqOK' /\ HistoryOK'
    BY <1>27
    DEF DeleteAccount, TypeOK, StateOK, SocketsOK, BuffersOK, OrphanOK,
        LockOK, ConnOK, HolderOK, ReqOK, HistoryOK, memVars, lockVars, history
  <2> QED
    BY <2>1, <2>2, <2>3 DEF TypeOK
<1>28. CASE PersistClosed
  <2>1. RowOK'
    BY <1>28
    DEF PersistClosed, TypeOK, RowOK, SessionRow, Statuses, Reasons,
        TimerReasons, Members, ClosedRow, ClosesRow, LockOK, StateOK,
        SessionState
  <2>2. LockOK'
    BY <1>28 DEF PersistClosed, TypeOK, LockOK, Holders, Reasons, TimerReasons
  <2>3. HolderOK'
    BY <1>28 DEF PersistClosed, TypeOK, HolderOK, ConnOK, Connection
  <2>4. StateOK' /\ SocketsOK' /\ BuffersOK' /\ OrphanOK' /\ ConnOK' /\ ReqOK'
        /\ HistoryOK' /\ EnvironmentOK'
    BY <1>28
    DEF PersistClosed, TypeOK, StateOK, SocketsOK, BuffersOK, OrphanOK,
        ConnOK, ReqOK, HistoryOK, EnvironmentOK, memVars, history, environment
  <2> QED
    BY <2>1, <2>2, <2>3, <2>4 DEF TypeOK
<1>29. CASE NotifyEnded
  <2>1. SocketsOK'
    BY <1>29 DEF NotifyEnded, TypeOK, SocketsOK, Members
  <2>2. ConnOK'
    <3>1. ASSUME NEW c \in Conns
          PROVE  /\ conn'[c] \in Connection
                 /\ conn'[c].agent = conn[c].agent
                 /\ c # lock => conn'[c].phase = conn[c].phase
      BY <1>29 DEF NotifyEnded, TypeOK, ConnOK, Connection, Phases
    <3>2. lock \in Conns => conn[lock].agent \in Members
      BY DEF TypeOK, ConnOK, HolderOK
    <3> QED
      BY <1>29, <3>1, <3>2 DEF NotifyEnded, TypeOK, ConnOK
  <2>3. ReqOK'
    BY <1>29 DEF NotifyEnded, TypeOK, ReqOK, Answered, Idle, Request,
        RequestPhases
  <2>4. LockOK'
    BY <1>29
    DEF NotifyEnded, TypeOK, LockOK, Holders, Reasons, TimerReasons, NoEnding
  <2>5. HolderOK'
    BY <1>29
    DEF NotifyEnded, TypeOK, HolderOK, ConnOK, Connection, LockOK, Holders
  <2>6. RowOK' /\ StateOK' /\ BuffersOK' /\ OrphanOK' /\ HistoryOK'
        /\ EnvironmentOK'
    BY <1>29
    DEF NotifyEnded, TypeOK, RowOK, StateOK, BuffersOK, OrphanOK, HistoryOK,
        EnvironmentOK, history, environment
  <2> QED
    BY <2>1, <2>2, <2>3, <2>4, <2>5, <2>6 DEF TypeOK
<1>30. CASE MonitorDecides
  <2>1. StateOK'
    BY <1>30
    DEF MonitorDecides, TypeOK, StateOK, SessionState, Unset, TimerReasons
  <2>2. RowOK' /\ SocketsOK' /\ BuffersOK' /\ OrphanOK' /\ LockOK' /\ ConnOK'
        /\ HolderOK' /\ ReqOK' /\ HistoryOK' /\ EnvironmentOK'
    BY <1>30
    DEF MonitorDecides, TypeOK, RowOK, SocketsOK, BuffersOK, OrphanOK, LockOK,
        ConnOK, HolderOK, ReqOK, HistoryOK, EnvironmentOK, lockVars, history,
        environment
  <2> QED
    BY <2>1, <2>2 DEF TypeOK
<1>31. CASE MonitorEnds
  <2>1. StateOK'
    BY <1>31
    DEF MonitorEnds, TypeOK, StateOK, SessionState, Unset, TimerReasons,
        ClosedState
  <2>2. RowOK' /\ SocketsOK' /\ BuffersOK' /\ OrphanOK' /\ LockOK' /\ ConnOK'
        /\ HolderOK' /\ ReqOK' /\ HistoryOK' /\ EnvironmentOK'
    BY <1>31
    DEF MonitorEnds, TypeOK, RowOK, SocketsOK, BuffersOK, OrphanOK, LockOK,
        ConnOK, HolderOK, ReqOK, HistoryOK, EnvironmentOK, lockVars, history,
        environment
  <2> QED
    BY <2>1, <2>2 DEF TypeOK
<1>32. CASE HandoffFires
  <2>1. StateOK'
    BY <1>32
    DEF HandoffFires, TypeOK, StateOK, SessionState, Unset, TimerReasons,
        ClosedState
  <2>2. RowOK' /\ SocketsOK' /\ BuffersOK' /\ OrphanOK' /\ LockOK' /\ ConnOK'
        /\ HolderOK' /\ ReqOK' /\ HistoryOK' /\ EnvironmentOK'
    BY <1>32
    DEF HandoffFires, TypeOK, RowOK, SocketsOK, BuffersOK, OrphanOK, LockOK,
        ConnOK, HolderOK, ReqOK, HistoryOK, EnvironmentOK, lockVars, history,
        environment
  <2> QED
    BY <2>1, <2>2 DEF TypeOK
<1>33. ASSUME NEW t \in HandoffTasks, OrphanFires(t)
       PROVE  TypeOK'
  <2>1. OrphanOK'
    BY <1>33 DEF OrphanFires, TypeOK, OrphanOK, Unset
  <2>2. RowOK'
    BY <1>33
    DEF OrphanFires, TypeOK, RowOK, SessionRow, Statuses, Reasons,
        TimerReasons, Members, ClosedRow
  <2>3. StateOK'
    BY <1>33, ClosedStateTyped DEF OrphanFires, EnterEnd, TypeOK, StateOK
  <2>4. LockOK'
    <3>1. \/ UNCHANGED lockVars
          \/ /\ lock' = "handoff"
             /\ ending' = [phase |-> "persist", reason |-> "handoff_complete"]
      BY <1>33 DEF OrphanFires, EnterEnd
    <3> QED
      BY <3>1 DEF TypeOK, LockOK, lockVars, Holders, Reasons
  <2>5. HolderOK'
    BY <1>33
    DEF OrphanFires, TypeOK, HolderOK, lockVars, ConnOK, Connection, LockFree,
        EnterEnd, EndIsMoot
  <2>6. SocketsOK' /\ BuffersOK' /\ ConnOK' /\ ReqOK' /\ HistoryOK'
        /\ EnvironmentOK'
    BY <1>33
    DEF OrphanFires, TypeOK, SocketsOK, BuffersOK, ConnOK, ReqOK, HistoryOK,
        EnvironmentOK, lockVars, history, environment
  <2> QED
    BY <2>1, <2>2, <2>3, <2>4, <2>5, <2>6 DEF TypeOK
<1>34. CASE RunMaintenance
  <2>1. RowOK'
    BY <1>34
    DEF RunMaintenance, TypeOK, RowOK, SessionRow, Statuses, Reasons,
        TimerReasons, Members, ClosedRow, StillOpen, Expired, DeadlineReason
  <2>2. StateOK' /\ SocketsOK' /\ BuffersOK' /\ OrphanOK' /\ LockOK'
        /\ ConnOK' /\ HolderOK' /\ ReqOK' /\ HistoryOK' /\ EnvironmentOK'
    BY <1>34
    DEF RunMaintenance, TypeOK, StateOK, SocketsOK, BuffersOK, OrphanOK,
        LockOK, ConnOK, HolderOK, ReqOK, HistoryOK, EnvironmentOK, memVars,
        lockVars, history, environment
  <2> QED
    BY <2>1, <2>2 DEF TypeOK
<1>35. CASE Tick
  <2>1. RowOK'
    BY <1>35
    DEF Tick, TypeOK, RowOK, SessionRow, Statuses, Reasons, TimerReasons,
        Members, CountDown
  <2>2. StateOK'
    <3> DEFINE a == IF state.active_for = Unset THEN Unset
                    ELSE CountUp(state.active_for, ActiveWindow)
               i == IF state.active_for = Unset THEN state.idle_for
                    ELSE CountUp(state.idle_for, InactivityWindow)
               h == CountDown(state.handoff)
    <3>1. state \in SessionState /\ state.message_count <= MessageCap
      BY DEF TypeOK, StateOK
    <3>2. a \in Nat \cup {Unset} /\ i \in Nat /\ h \in Nat \cup {Unset}
      BY <3>1, WindowsAssumption
      DEF SessionState, CountUp, CountDown, Earlier, Unset
    <3>3. state' = [state EXCEPT !.active_for = a, !.idle_for = i, !.handoff = h]
      BY <1>35 DEF Tick
    <3> HIDE DEF a, i, h
    <3>4. state' \in SessionState /\ state'.message_count = state.message_count
      BY <3>1, <3>2, <3>3 DEF SessionState
    <3> QED
      BY <3>1, <3>4 DEF StateOK
  <2>3. OrphanOK'
    BY <1>35 DEF Tick, TypeOK, OrphanOK, Unset, CountDown
  <2>4. SocketsOK' /\ BuffersOK' /\ LockOK' /\ ConnOK' /\ HolderOK' /\ ReqOK'
        /\ HistoryOK' /\ EnvironmentOK'
    BY <1>35
    DEF Tick, TypeOK, SocketsOK, BuffersOK, LockOK, ConnOK, HolderOK, ReqOK,
        HistoryOK, EnvironmentOK, lockVars, history, environment
  <2> QED
    BY <2>1, <2>2, <2>3, <2>4 DEF TypeOK
<1>36. ASSUME NEW c \in Conns, FailActivation(c) PROVE TypeOK'
  <2>1. LockOK'
    BY <1>36
    DEF FailActivation, TypeOK, LockOK, Holders, Reasons, TimerReasons
  <2>2. ConnOK'
    BY <1>36
    DEF FailActivation, TypeOK, ConnOK, Connection, Phases, Finish, Out,
        Members
  <2>3. EnvironmentOK'
    BY <1>36 DEF FailActivation, TypeOK, EnvironmentOK, Members
  <2>4. HolderOK'
    BY <1>36
    DEF FailActivation, TypeOK, HolderOK, ConnOK, Connection, Finish, Out,
        LockOK, Holders
  <2>5. RowOK' /\ StateOK' /\ SocketsOK' /\ BuffersOK' /\ OrphanOK' /\ ReqOK'
        /\ HistoryOK'
    BY <1>36
    DEF FailActivation, TypeOK, RowOK, StateOK, SocketsOK, BuffersOK,
        OrphanOK, ReqOK, HistoryOK, memVars, history
  <2> QED
    BY <2>1, <2>2, <2>3, <2>4, <2>5 DEF TypeOK
<1>37. ASSUME NEW c \in Conns, FailFrame(c) PROVE TypeOK'
  <2>1. StateOK'
    BY <1>37, CountFrameTyped DEF FailFrame, MayReceive, TypeOK, ConnOK
  <2>2. HistoryOK'
    BY <1>37
    DEF FailFrame, TypeOK, HistoryOK, Members, CountFrame, MayReceive, ConnOK
  <2>3. ConnOK'
    BY <1>37
    DEF FailFrame, TypeOK, ConnOK, Connection, Phases, Finish, Out, Members
  <2>4. EnvironmentOK'
    BY <1>37 DEF FailFrame, TypeOK, EnvironmentOK, Members
  <2>5. HolderOK'
    BY <1>37
    DEF FailFrame, TypeOK, HolderOK, lockVars, ConnOK, Connection, LockFree,
        Finish, Out, MayReceive
  <2>6. RowOK' /\ SocketsOK' /\ BuffersOK' /\ OrphanOK' /\ LockOK' /\ ReqOK'
    BY <1>37
    DEF FailFrame, TypeOK, RowOK, SocketsOK, BuffersOK, OrphanOK, LockOK,
        ReqOK, lockVars, CountFrame
  <2> QED
    BY <2>1, <2>2, <2>3, <2>4, <2>5, <2>6 DEF TypeOK
<1>38. CASE FailPersist
  <2>1. LockOK'
    BY <1>38
    DEF FailPersist, TypeOK, LockOK, Holders, Reasons, TimerReasons, NoEnding
  <2>2. ConnOK'
    BY <1>38
    DEF FailPersist, TypeOK, ConnOK, Connection, Phases, Finish, Out, Members,
        LockOK
  <2>3. ReqOK'
    BY <1>38
    DEF FailPersist, TypeOK, ReqOK, Request, RequestPhases, AllOps, Answered,
    Idle,
        Members
  <2>4. EnvironmentOK'
    BY <1>38 DEF FailPersist, TypeOK, EnvironmentOK, Members
  <2>5. HolderOK'
    BY <1>38
    DEF FailPersist, TypeOK, HolderOK, ConnOK, Connection, Finish, Out,
        LockOK, Holders
  <2>6. RowOK' /\ StateOK' /\ SocketsOK' /\ BuffersOK' /\ OrphanOK'
        /\ HistoryOK'
    BY <1>38
    DEF FailPersist, TypeOK, RowOK, StateOK, SocketsOK, BuffersOK, OrphanOK,
        HistoryOK, memVars, history
  <2> QED
    BY <2>1, <2>2, <2>3, <2>4, <2>5, <2>6 DEF TypeOK
<1>39. CASE ServerRestart
  <2>1. StateOK'
    BY <1>39
    DEF ServerRestart, TypeOK, StateOK, SessionState, NoState, Unset,
        TimerReasons
  <2>2. SocketsOK'
    BY <1>39 DEF ServerRestart, TypeOK, SocketsOK, Members
  <2>3. BuffersOK'
    BY <1>39 DEF ServerRestart, TypeOK, BuffersOK, Members
  <2>4. OrphanOK'
    BY <1>39 DEF ServerRestart, TypeOK, OrphanOK, Unset
  <2>5. LockOK'
    BY <1>39
    DEF ServerRestart, TypeOK, LockOK, Holders, Reasons, TimerReasons,
        NoEnding
  <2>6. ConnOK'
    BY <1>39
    DEF ServerRestart, TypeOK, ConnOK, Connection, Phases, Out, Members
  <2>7. HolderOK'
    BY <1>39 DEF ServerRestart, TypeOK, HolderOK, ConnOK, Connection, Out
  <2>8. ReqOK'
    BY <1>39
    DEF ServerRestart, TypeOK, ReqOK, Request, RequestPhases, AllOps, Idle,
        Members
  <2>9. EnvironmentOK'
    BY <1>39 DEF ServerRestart, TypeOK, EnvironmentOK, Members
  <2>10. HolderOK'
    BY <1>39 DEF ServerRestart, TypeOK, HolderOK, ConnOK, Connection, Out
  <2>11. RowOK' /\ HistoryOK'
    BY <1>39 DEF ServerRestart, TypeOK, RowOK, HistoryOK, history
  <2> QED
    BY <2>1, <2>2, <2>3, <2>4, <2>5, <2>6, <2>7, <2>8, <2>9, <2>10, <2>11
    DEF TypeOK
<1>40. CASE UNCHANGED vars
  BY <1>40
  DEF vars, memVars, lockVars, history, environment, TypeOK, RowOK, StateOK,
      SocketsOK, BuffersOK, OrphanOK, LockOK, ConnOK, HolderOK, ReqOK,
      HistoryOK, EnvironmentOK
<1> QED
  BY <1>1, <1>2, <1>3, <1>4, <1>5, <1>6, <1>7, <1>8, <1>9, <1>10, <1>11,
     <1>12, <1>13, <1>14, <1>15, <1>16, <1>17, <1>18, <1>19, <1>20, <1>21,
     <1>22, <1>23, <1>24, <1>25, <1>26, <1>27, <1>28, <1>29, <1>30, <1>31,
     <1>32, <1>33, <1>34, <1>35, <1>36, <1>37, <1>38, <1>39, <1>40
  DEF Next, HandlerStep, ClientStep, NewRequest, RequestStep, EndStep,
      TimerStep, Fault

\* Every reachable state is well typed, and within the limits of relay.py.
THEOREM TypeCorrect == Spec => []TypeOK
<1>1. Init => TypeOK
  BY MembersAssumption, LimitsAssumption, WindowsAssumption
  DEF Init, ServerIdle, TypeOK, RowOK, StateOK, SocketsOK, BuffersOK, OrphanOK,
      LockOK,
      ConnOK, HolderOK, ReqOK, HistoryOK, EnvironmentOK, NewRow, SessionRow,
      Statuses, NoState, SessionState, Unset, NoEnding, Out, Connection,
      Phases, Idle, Request, RequestPhases
<1> QED
  BY <1>1, TypeStep, PTL DEF Spec
=============================================================================
