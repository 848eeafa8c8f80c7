---------------------------- MODULE Introduction ----------------------------
(***************************************************************************)
(* What the connection routes promise, and no more: a session opens for a  *)
(* request that one agent made to another, because the other is willing,   *)
(* and for each request once.  A willing agent may change its mind, and    *)
(* its willingness is known for a while before the session opens.          *)
(***************************************************************************)
CONSTANTS Agents, Requests, None

VARIABLES
    asker,      \* by request: who made it, None before it is made
    asked,      \* by request: to whom
    willing,    \* requests that the asked is about to accept
    session     \* by request: "none", "open" or "closed"

vars == <<asker, asked, willing, session>>

Init ==
    /\ asker = [r \in Requests |-> None]
    /\ asked = [r \in Requests |-> None]
    /\ willing = {}
    /\ session = [r \in Requests |-> "none"]

Ask(r, a, b) ==
    /\ asker[r] = None
    /\ a # b
    /\ asker' = [asker EXCEPT ![r] = a]
    /\ asked' = [asked EXCEPT ![r] = b]
    /\ UNCHANGED <<willing, session>>

Agree(r) ==
    /\ asker[r] # None
    /\ session[r] = "none"
    /\ willing' = willing \cup {r}
    /\ UNCHANGED <<asker, asked, session>>

Open(r) ==
    /\ r \in willing
    /\ session[r] = "none"
    /\ session' = [session EXCEPT ![r] = "open"]
    /\ willing' \in {willing, willing \ {r}}
    /\ UNCHANGED <<asker, asked>>

ChangeMind(r) ==
    /\ willing' = willing \ {r}
    /\ UNCHANGED <<asker, asked, session>>

\* Sessions close together, and the races on a closed one may open it again.
Close(rs) ==
    /\ \A r \in rs : session[r] # "none"
    /\ session' = [r \in Requests |-> IF r \in rs THEN "closed" ELSE session[r]]
    /\ UNCHANGED <<asker, asked, willing>>

Reopen(r) ==
    /\ session[r] = "closed"
    /\ session' = [session EXCEPT ![r] = "open"]
    /\ UNCHANGED <<asker, asked, willing>>

Next ==
    \/ \E rs \in SUBSET Requests : Close(rs)
    \/ \E r \in Requests :
          \/ \E a, b \in Agents : Ask(r, a, b)
          \/ Reopen(r)
          \/ Agree(r)
          \/ Open(r)
          \/ ChangeMind(r)

Spec == Init /\ [][Next]_vars
=============================================================================
