---------------------------- MODULE SessionLife ----------------------------
(***************************************************************************)
(* What the server promises of the status of a sessions row, and no more.  *)
(*                                                                         *)
(* A task decides on a status it read and writes its own later, whatever   *)
(* the row has become; so a closed session can run again.  But one task at *)
(* a time decides to start a session, none does once it started, and a     *)
(* closed session is decided upon by nobody: it runs again only because of *)
(* tasks that had decided before.                                          *)
(***************************************************************************)
CONSTANT Tasks

VARIABLES
    stage,      \* "waiting" for its members, "running" or "closed"
    starting,   \* tasks that have decided to start it
    matching    \* tasks that have decided to move its match

vars == <<stage, starting, matching>>

Init ==
    /\ stage = "waiting"
    /\ starting = {}
    /\ matching = {}

DecideStart(t) ==
    /\ stage = "waiting"
    /\ starting = {}
    /\ starting' = {t}
    /\ UNCHANGED <<stage, matching>>

Start(t) ==
    /\ t \in starting
    /\ stage' = "running"
    /\ starting' = starting \ {t}
    /\ UNCHANGED matching

DecideMatch(t) ==
    /\ stage = "running"
    /\ matching' = matching \cup {t}
    /\ UNCHANGED <<stage, starting>>

Match(t) ==
    /\ t \in matching
    /\ stage' = "running"
    /\ matching' = matching \ {t}
    /\ UNCHANGED starting

Close ==
    /\ stage' = "closed"
    /\ UNCHANGED <<starting, matching>>

\* Tasks that fail, or all of them at a restart.
Abandon ==
    /\ starting' \subseteq starting
    /\ matching' \subseteq matching
    /\ UNCHANGED stage

Next ==
    \/ Abandon
    \/ Close
    \/ \E t \in Tasks :
          DecideStart(t) \/ Start(t) \/ DecideMatch(t) \/ Match(t)

Spec == Init /\ [][Next]_vars

----------------------------------------------------------------------------
\* A closed session that no task in progress has decided upon is closed for
\* good (PROTOCOL.md 7.2; relay.py, routes/matches.py).
FinalOnceQuiet ==
    [][stage = "closed" /\ starting = {} /\ matching = {}
       => stage' = "closed" /\ starting' = {} /\ matching' = {}]_vars
=============================================================================
