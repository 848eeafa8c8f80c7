--------------------------- MODULE SessionClaims ---------------------------
(***************************************************************************)
(* What the documents and comments of the repository say of a session and  *)
(* the code does not keep.  Each property is checked by a run of its own,  *)
(* with just the actors it needs, and fails there; README.md tells the     *)
(* counterexamples.                                                        *)
(***************************************************************************)
EXTENDS SessionSystem

\* PROTOCOL.md 7.4: when the wall clock or the inactivity limit is reached, the
\* server emits session_ended.  Where only the timers end sessions: no socket
\* is left once the state is closed and its lock is free.
EndReachesSockets == state.closed /\ LockFree => Registered = {}

\* PROTOCOL.md 7.4: after match_confirmed the handoff window is granted
\* regardless of the 30-minute cap.  The monitor never decides that the time
\* limit is reached while the confirmed row is within that window.
HandoffWindowHonoured ==
    [][/\ row.status = "match_confirmed"
       /\ row.expires_in > 0
       /\ state.monitor = "polling"
       => state'.monitor # "time_limit_reached"]_vars

\* PROTOCOL.md 7.2: nothing follows CLOSED.
ClosedIsFinal == [][row.status = "closed" => row'.status = "closed"]_vars
=============================================================================
