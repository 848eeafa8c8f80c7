------------------------------ MODULE Channel ------------------------------
(***************************************************************************)
(* What the relay of relay.py promises about frames, and no more: a frame  *)
(* it accepted is delivered to the counterparty of its sender at most      *)
(* once, now or after waiting in a queue that keeps the order of the       *)
(* frames in it; it may be lost at any point, and a live frame may         *)
(* overtake the queue.                                                     *)
(***************************************************************************)
EXTENDS Integers, Sequences

CONSTANTS AgentA, AgentB

Members == {AgentA, AgentB}

Other(m) == IF m = AgentA THEN AgentB ELSE AgentA

VARIABLES
    sent,       \* frames accepted from each member; the k-th one is k
    pending,    \* by sender: accepted and waiting
    delivered   \* by recipient: in the order of arrival

vars == <<sent, pending, delivered>>

Init ==
    /\ sent = [m \in Members |-> 0]
    /\ pending = [m \in Members |-> <<>>]
    /\ delivered = [m \in Members |-> <<>>]

DeliverTo(m, k) == delivered' = [delivered EXCEPT ![m] = Append(@, k)]

Accept(m) ==
    LET k == sent[m] + 1
    IN  /\ sent' = [sent EXCEPT ![m] = k]
        /\ \/ /\ pending' = [pending EXCEPT ![m] = Append(@, k)]
              /\ UNCHANGED delivered
           \/ /\ DeliverTo(Other(m), k)
              /\ UNCHANGED pending
           \/ UNCHANGED <<pending, delivered>>

Drain(m) ==
    /\ pending[m] # <<>>
    /\ pending' = [pending EXCEPT ![m] = Tail(@)]
    /\ \/ DeliverTo(Other(m), Head(pending[m]))
       \/ UNCHANGED delivered
    /\ UNCHANGED sent

\* A crash forgets what was waiting.
Forget ==
    /\ pending' = [m \in Members |-> <<>>]
    /\ UNCHANGED <<sent, delivered>>

Next ==
    \/ \E m \in Members : Accept(m) \/ Drain(m)
    \/ Forget

Spec == Init /\ [][Next]_vars

----------------------------------------------------------------------------
IsInjective(s) == \A i, j \in DOMAIN s : s[i] = s[j] => i = j

\* Nobody receives a frame twice, nor one that was not accepted from the
\* counterparty (relay.py, _handle_frame and _flush_for_joined_agent).
AtMostOnce ==
    \A m \in Members :
        /\ IsInjective(delivered[m])
        /\ \A i \in DOMAIN delivered[m] : delivered[m][i] \in 1..sent[Other(m)]
=============================================================================
