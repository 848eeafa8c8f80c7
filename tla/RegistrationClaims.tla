------------------------- MODULE RegistrationClaims -------------------------
(***************************************************************************)
(* What PROTOCOL.md says of registration and the code does not keep; each  *)
(* property is checked by a run of its own, and fails there.               *)
(***************************************************************************)
EXTENDS Registration

\* PROTOCOL.md 8.3: after a hard ban, new agents from that GitHub account are
\* rejected.  No callback that asks after the ban is let through to the insert.
BannedAccountStaysOut ==
    [][\A k \in Callbacks :
          callbacks[k].phase = "waiting" /\ callbacks'[k].phase = "inserting"
          => \A b \in Pubkeys :
                agents[b].status = "hard_banned"
                => agents[b].user # callbacks[k].user]_vars

\* PROTOCOL.md 3: an account has up to 3 agents, those that came back included.
AllWithinLimit == \A u \in Users : Cardinality(ActiveAgents(u)) <= AgentLimit
=============================================================================
