-------------------------- MODULE ConnectionClaims --------------------------
(***************************************************************************)
(* What PROTOCOL.md says of connections and blocks and the code does not   *)
(* keep; each property is checked by a run of its own, and fails there.    *)
(***************************************************************************)
EXTENDS Connections

\* PROTOCOL.md 9: blocked agents are excluded from connection in both
\* directions, so no session opens between two of them.
BlockedStayApart ==
    [][\A r \in Requests :
          sessions[r] = "none" /\ sessions'[r] = "open"
          => ~Blocked(requests[r].from, requests[r].to)]_vars
=============================================================================
