------------------------------ MODULE Standing ------------------------------
(***************************************************************************)
(* What moderation and the account routes promise of an agent's standing,  *)
(* and no more.  A call that takes the agent for active may decide to ban  *)
(* it for a while, and writes that whatever the agent has become: so a     *)
(* deleted or banned account can come back.  But only an active agent is   *)
(* taken for active, and so nobody else brings one back.                   *)
(***************************************************************************)
CONSTANT Calls

VARIABLES
    standing,   \* "active", "soft_banned", "hard_banned" or "deleted"
    trusting    \* calls that took the agent for active and may still ban it

vars == <<standing, trusting>>

Init ==
    /\ standing = "active"
    /\ trusting = {}

Trust(k) ==
    /\ standing = "active"
    /\ trusting' = trusting \cup {k}
    /\ UNCHANGED standing

Acquit(k) ==
    /\ trusting' = trusting \ {k}
    /\ UNCHANGED standing

SoftBan(k) ==
    /\ k \in trusting
    /\ standing' = "soft_banned"
    /\ trusting' = trusting \ {k}

Lift ==
    /\ standing = "soft_banned"
    /\ standing' = "active"
    /\ UNCHANGED trusting

HardBan ==
    /\ standing # "deleted"
    /\ standing' = "hard_banned"
    /\ UNCHANGED trusting

Delete ==
    /\ standing' = "deleted"
    /\ UNCHANGED trusting

Next ==
    \/ \E k \in Calls : Trust(k) \/ Acquit(k) \/ SoftBan(k)
    \/ Lift
    \/ HardBan
    \/ Delete

Spec == Init /\ [][Next]_vars

----------------------------------------------------------------------------
Gone == standing \in {"hard_banned", "deleted"}

\* Once no call that took it for active is in progress, an agent that was
\* banned by the operator or deleted is gone for good (PROTOCOL.md 8.3, 11;
\* moderation.py, routes/agents.py).
GoneOnceQuiet ==
    [][Gone /\ trusting = {} => Gone' /\ trusting' = {}]_vars
=============================================================================
