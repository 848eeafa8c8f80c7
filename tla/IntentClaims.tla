---------------------------- MODULE IntentClaims ----------------------------
(***************************************************************************)
(* What PROTOCOL.md says of intents, bans and deleted accounts and the     *)
(* code does not keep; each property is checked by a run of its own, and   *)
(* fails there.                                                            *)
(***************************************************************************)
EXTENDS Intents

\* PROTOCOL.md 8.2: the intents of a soft-banned agent become dormant; none of
\* them wakes while the ban lasts.
BannedStayDormant ==
    [][agent.status = "soft_banned" /\ agent'.status = "soft_banned" =>
          \A i \in Intents : i \in WithStatus("dormant") => i \notin Found']_vars

\* PROTOCOL.md 5.4: at most 10 active intents per agent.
ActiveWithinLimit == Cardinality(Found) <= ActiveLimit

\* PROTOCOL.md 8.3 and 11: a hard ban is permanent, and a deleted account leaves
\* a tombstone.
GoneForGood ==
    [][agent.status \in {"hard_banned", "deleted"} =>
          agent'.status \in {"hard_banned", "deleted"}]_vars
=============================================================================
