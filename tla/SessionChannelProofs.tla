------------------------- MODULE SessionChannelProofs -------------------------
(***************************************************************************)
(* The relay implements the channel of Channel.tla, and so what            *)
(* ChannelProofs shows of the channel holds of the relay.                  *)
(*                                                                         *)
(* Four actions touch what the channel speaks of: a relayed frame is       *)
(* accepted; a frame whose count cannot be saved is accepted and lost; a   *)
(* round of the flush drains one frame; a restart forgets what waited.     *)
(***************************************************************************)
EXTENDS SessionTypeProofs

ChanP == INSTANCE ChannelProofs WITH pending <- buffers, delivered <- rcvd

\* The channel's operators are the relay's.
LEMMA SameMembers ==
    /\ Chan!Members = Members
    /\ \A m : Chan!Other(m) = Other(m)
  BY DEF Chan!Members, Members, Chan!Other, Other

\* A frame that is counted and forwarded or buffered is accepted.
LEMMA RelayFrameAccepts ==
    ASSUME TypeOK, NEW c \in Conns, RelayFrame(c)
    PROVE  Chan!Next
<1> DEFINE m == conn[c].agent
           k == sent[m] + 1
<1>1. m \in Members /\ Other(m) \in Members
  BY OtherIsMember DEF RelayFrame, MayReceive, TypeOK, ConnOK
<1>2. sent' = [sent EXCEPT ![m] = k]
  BY DEF RelayFrame, CountFrame
<1>3. CASE Buffer(m, k)
  BY <1>1, <1>2, <1>3, SameMembers DEF Buffer, Chan!Next, Chan!Accept
<1>4. CASE Forward(c, m, k)
  BY <1>1, <1>2, <1>4, SameMembers
  DEF Forward, Arrives, Chan!Next, Chan!Accept, Chan!DeliverTo
<1> QED
  BY <1>3, <1>4 DEF RelayFrame

\* A frame whose recipient's socket raises is accepted and lost.
LEMMA FailFrameAccepts ==
    ASSUME TypeOK, NEW c \in Conns, FailFrame(c)
    PROVE  Chan!Next
  BY SameMembers
  DEF FailFrame, MayReceive, CountFrame, TypeOK, ConnOK, Chan!Next,
      Chan!Accept

\* Each frame the flush sends is drained, whether it arrives or not.
LEMMA FlushNextDrains ==
    ASSUME TypeOK, NEW c \in Conns, FlushNext(c)
    PROVE  Chan!Next
<1> DEFINE m == conn[c].agent
           from == Other(m)
<1>1. m \in Members /\ from \in Members /\ Other(from) = m
  BY OtherIsMember DEF FlushNext, TypeOK, ConnOK
<1>2. Chan!Drain(from)
  BY <1>1, SameMembers
  DEF FlushNext, Arrives, Remaining, Chan!Drain, Chan!DeliverTo
<1> QED
  BY <1>1, <1>2, SameMembers DEF Chan!Next

\* A restart empties the buffers.
LEMMA ServerRestartForgets ==
    ASSUME ServerRestart
    PROVE  Chan!Next
  BY SameMembers DEF ServerRestart, history, Chan!Next, Chan!Forget

\* Every step of the session is a step of the channel or none.
LEMMA ChannelStep ==
    TypeOK /\ [Next]_vars => [Chan!Next]_(Chan!vars)
<1> SUFFICES ASSUME TypeOK, [Next]_vars
             PROVE  Chan!Next \/ UNCHANGED <<sent, buffers, rcvd>>
  BY DEF Chan!vars
<1>1. ASSUME NEW c \in Conns, NEW m \in Members, AuthenticateHello(c, m)
      PROVE  UNCHANGED <<sent, buffers, rcvd>>
  BY <1>1 DEF AuthenticateHello, memVars, history, Forgotten
<1>2. ASSUME NEW c \in Conns, Join(c)
      PROVE  UNCHANGED <<sent, buffers, rcvd>>
  BY <1>2 DEF Join, memVars, history, JoinedState, FreshState
<1>3. ASSUME NEW c \in Conns, SkipActivation(c)
      PROVE  UNCHANGED <<sent, buffers, rcvd>>
  BY <1>3 DEF SkipActivation, memVars, history, StartMonitoring
<1>4. ASSUME NEW c \in Conns, ReadForActivation(c)
      PROVE  UNCHANGED <<sent, buffers, rcvd>>
  BY <1>4 DEF ReadForActivation, memVars, history
<1>5. ASSUME NEW c \in Conns, CommitActivation(c)
      PROVE  UNCHANGED <<sent, buffers, rcvd>>
  BY <1>5
  DEF CommitActivation, memVars, history, StartMonitoring, ActivatedRow
<1>6. ASSUME NEW c \in Conns, SendReady(c)
      PROVE  UNCHANGED <<sent, buffers, rcvd>>
  BY <1>6 DEF SendReady, memVars, history
<1>7. ASSUME NEW c \in Conns, FailReady(c) \/ BadFrame(c)
      PROVE  UNCHANGED <<sent, buffers, rcvd>>
  BY <1>7 DEF FailReady, BadFrame, memVars, history
<1>8. ASSUME NEW c \in Conns, FlushNext(c) PROVE Chan!Next
  BY <1>8, FlushNextDrains
<1>9. ASSUME NEW c \in Conns, FlushDone(c)
      PROVE  UNCHANGED <<sent, buffers, rcvd>>
  BY <1>9 DEF FlushDone, memVars, history
<1>10. ASSUME NEW c \in Conns, HearDisconnect(c)
      PROVE  UNCHANGED <<sent, buffers, rcvd>>
  BY <1>10 DEF HearDisconnect, memVars, history
<1>11. ASSUME NEW c \in Conns, Disconnect(c)
      PROVE  UNCHANGED <<sent, buffers, rcvd>>
  BY <1>11 DEF Disconnect, memVars, history
<1>12. ASSUME NEW c \in Conns, CapEnds(c)
      PROVE  UNCHANGED <<sent, buffers, rcvd>>
  BY <1>12 DEF CapEnds, memVars, history, EnterEnd
<1>13. ASSUME NEW c \in Conns, CapIsMoot(c)
      PROVE  UNCHANGED <<sent, buffers, rcvd>>
  BY <1>13 DEF CapIsMoot, memVars, history, EndIsMoot
<1>14. ASSUME NEW c \in Conns, RelayFrame(c) PROVE Chan!Next
  BY <1>14, RelayFrameAccepts
<1>15. ASSUME NEW c \in Conns, CapFrame(c)
      PROVE  UNCHANGED <<sent, buffers, rcvd>>
  BY <1>15 DEF CapFrame, memVars, history, MayReceive
<1>16. ASSUME NEW c \in Conns, ClientDrop(c)
      PROVE  UNCHANGED <<sent, buffers, rcvd>>
  BY <1>16 DEF ClientDrop, memVars, history
<1>17. ASSUME NEW q \in Requests, NEW op \in AllOps, NEW m \in Members,
                    ReadRow(q, op, m)
      PROVE  UNCHANGED <<sent, buffers, rcvd>>
  BY <1>17 DEF ReadRow, memVars, history
<1>18. ASSUME NEW q \in Requests, CommitPropose(q)
      PROVE  UNCHANGED <<sent, buffers, rcvd>>
  BY <1>18 DEF CommitPropose, memVars, history
<1>19. ASSUME NEW q \in Requests, CommitAccept(q)
      PROVE  UNCHANGED <<sent, buffers, rcvd>>
  BY <1>19 DEF CommitAccept, memVars, history
<1>20. ASSUME NEW q \in Requests, CommitReject(q)
      PROVE  UNCHANGED <<sent, buffers, rcvd>>
  BY <1>20 DEF CommitReject, memVars, history
<1>21. ASSUME NEW q \in Requests, CommitClose(q)
      PROVE  UNCHANGED <<sent, buffers, rcvd>>
  BY <1>21 DEF CommitClose, memVars, history
<1>22. ASSUME NEW q \in Requests, AcceptSchedules(q)
      PROVE  UNCHANGED <<sent, buffers, rcvd>>
  BY <1>22 DEF AcceptSchedules, memVars, history, ScheduleHandoffClose
<1>23. ASSUME NEW q \in Requests, AcceptFails(q)
      PROVE  UNCHANGED <<sent, buffers, rcvd>>
  BY <1>23 DEF AcceptFails, memVars, history
<1>24. ASSUME NEW q \in Requests, RequestEnds(q)
      PROVE  UNCHANGED <<sent, buffers, rcvd>>
  BY <1>24 DEF RequestEnds, memVars, history, EnterEnd
<1>25. ASSUME NEW q \in Requests, EndRequestIsMoot(q)
      PROVE  UNCHANGED <<sent, buffers, rcvd>>
  BY <1>25 DEF EndRequestIsMoot, memVars, history, EndIsMoot
<1>26. ASSUME NEW q \in Requests, RequestEndsRow(q)
      PROVE  UNCHANGED <<sent, buffers, rcvd>>
  BY <1>26 DEF RequestEndsRow, memVars, history
<1>27. ASSUME NEW m \in Members, DeleteAccount(m)
      PROVE  UNCHANGED <<sent, buffers, rcvd>>
  BY <1>27 DEF DeleteAccount, memVars, history
<1>28. CASE PersistClosed
  BY <1>28 DEF PersistClosed, memVars, history, ClosesRow
<1>29. CASE NotifyEnded
  BY <1>29 DEF NotifyEnded, memVars, history
<1>30. CASE MonitorDecides
  BY <1>30 DEF MonitorDecides, memVars, history
<1>31. CASE MonitorEnds
  BY <1>31 DEF MonitorEnds, memVars, history
<1>32. CASE HandoffFires
  BY <1>32 DEF HandoffFires, memVars, history
<1>33. ASSUME NEW t \in HandoffTasks, OrphanFires(t)
       PROVE  UNCHANGED <<sent, buffers, rcvd>>
  BY <1>33 DEF OrphanFires, memVars, history, EnterEnd, EndIsMoot
<1>34. CASE RunMaintenance
  BY <1>34 DEF RunMaintenance, memVars, history, Expired
<1>35. CASE Tick
  BY <1>35 DEF Tick, memVars, history
<1>36. ASSUME NEW c \in Conns, FailActivation(c)
      PROVE  UNCHANGED <<sent, buffers, rcvd>>
  BY <1>36 DEF FailActivation, memVars, history
<1>37. ASSUME NEW c \in Conns, FailFrame(c) PROVE Chan!Next
  BY <1>37, FailFrameAccepts
<1>38. CASE FailPersist
  BY <1>38 DEF FailPersist, memVars, history
<1>39. CASE ServerRestart
  BY <1>39, ServerRestartForgets
<1>40. CASE UNCHANGED vars
  BY <1>40 DEF vars, memVars, history
<1> QED
  BY <1>1, <1>2, <1>3, <1>4, <1>5, <1>6, <1>7, <1>8, <1>9, <1>10, <1>11,
     <1>12, <1>13, <1>14, <1>15, <1>16, <1>17, <1>18, <1>19, <1>20, <1>21,
     <1>22, <1>23, <1>24, <1>25, <1>26, <1>27, <1>28, <1>29, <1>30, <1>31,
     <1>32, <1>33, <1>34, <1>35, <1>36, <1>37, <1>38, <1>39, <1>40
  DEF Next, HandlerStep, ClientStep, NewRequest, RequestStep, EndStep,
      TimerStep, Fault

\* The relay implements the at-most-once channel: whatever connections,
\* reconnections, timers, requests, database errors and restarts do, a frame
\* waits in the order it was accepted, is delivered or is lost (relay.py,
\* _handle_frame and _flush_for_joined_agent).
THEOREM ImplementsChannel == Spec => ChannelSpec
<1>1. Init => Chan!Init
  BY SameMembers DEF Init, ServerIdle, Chan!Init
<1> QED
  BY <1>1, ChannelStep, TypeCorrect, PTL DEF Spec, ChannelSpec, Chan!Spec

\* No agent receives a frame twice, nor one its counterparty did not send.
THEOREM RelayedAtMostOnce == Spec => []FramesOnce
<1>1. Chan!Init => ChanP!Init
  BY DEF Chan!Init, ChanP!Init, Chan!Members, ChanP!Members
<1>2. [Chan!Next]_(Chan!vars) => [ChanP!Next]_(ChanP!vars)
  BY
  DEF Chan!Next, ChanP!Next, Chan!Accept, ChanP!Accept, Chan!Drain,
      ChanP!Drain, Chan!Forget, ChanP!Forget, Chan!DeliverTo, ChanP!DeliverTo,
      Chan!Members, ChanP!Members, Chan!Other, ChanP!Other, Chan!vars,
      ChanP!vars
<1>3. ChanP!AtMostOnce => Chan!AtMostOnce
  BY
  DEF Chan!AtMostOnce, ChanP!AtMostOnce, Chan!IsInjective, ChanP!IsInjective,
      Chan!Members, ChanP!Members, Chan!Other, ChanP!Other
<1> QED
  BY <1>1, <1>2, <1>3, ImplementsChannel, ChanP!DeliveredAtMostOnce, PTL
  DEF ChannelSpec, Chan!Spec, ChanP!Spec, FramesOnce
=============================================================================
