------------------------------ MODULE Session ------------------------------
(***************************************************************************)
(* The state of ONE BabelTower session between two agents.                 *)
(*                                                                         *)
(* The server keeps a session twice.  The durable copy is the sessions row *)
(* of Postgres (models.py), here "row"; REST handlers and the maintenance  *)
(* job change it directly.  The volatile copy is the SessionState of the   *)
(* relay (relay.py), here "state", "sockets" and "buffers"; it appears     *)
(* when a first agent joins, is guarded by an asyncio.Lock, owns the timer *)
(* tasks, and is lost at a restart.  Nothing keeps the two in step except  *)
(* the handlers modelled in Relay and SessionRoutes.                       *)
(*                                                                         *)
(* This module declares the state and what every component shares; Relay   *)
(* has the websocket handlers and timers, SessionRoutes the REST handlers  *)
(* and the maintenance job, SessionSystem the composition.                 *)
(***************************************************************************)
EXTENDS Integers, Sequences, FiniteSets

CONSTANTS
    AgentA, AgentB,     \* the members, agent_a_id and agent_b_id of the row
    Conns,              \* websocket connections; an id is reused once forgotten
    Requests,           \* REST requests the server works on at a time
    HandoffTasks,       \* handoff tasks without a state: bounds their number
    None,               \* "no connection", "no agent", "nobody"
    MessageCap,         \* MESSAGE_CAP (50)
    BufferLimit,        \* BUFFER_LIMIT (10)
    PersistEvery,       \* the 10 of "message_count % 10 == 0"
    JoinWindow,         \* 72h, expires_at of a row that awaits its members
    ActiveWindow,       \* ACTIVE_WINDOW (30 min)
    InactivityWindow,   \* INACTIVITY_WINDOW (5 min)
    HandoffWindow,      \* HANDOFF_WINDOW (10 min)
    Ops,                \* REST operations the environment uses
    MaxFrames,          \* bound: frames the two agents send in all
    MaxRestarts,        \* bound: restarts of the server process
    MaxFaults           \* bound: database errors

Members == {AgentA, AgentB}

Other(m) == IF m = AgentA THEN AgentB ELSE AgentA

AllOps == {"propose", "accept", "reject", "end", "block", "delete"}

ASSUME MembersAssumption ==
    /\ AgentA # AgentB
    /\ None \notin Members \cup Conns \cup Requests

\* "handoff" names the task of _handoff_tasks when it holds the lock.
ASSUME HoldersAssumption ==
    /\ Conns \cap Requests = {}
    /\ "handoff" \notin Conns \cup Requests \cup {None}

ASSUME LimitsAssumption ==
    /\ MessageCap \in Nat
    /\ BufferLimit \in Nat
    /\ PersistEvery \in Nat \ {0}
    /\ Ops \subseteq AllOps
    /\ MaxFrames \in Nat
    /\ MaxRestarts \in Nat
    /\ MaxFaults \in Nat

\* A window of 0 means that its deadline has passed as soon as it is set, so
\* that the timer may fire at any moment.  The handoff is the shorter window.
ASSUME WindowsAssumption ==
    /\ JoinWindow \in Nat
    /\ ActiveWindow \in Nat
    /\ InactivityWindow \in Nat
    /\ HandoffWindow \in Nat
    /\ HandoffWindow <= ActiveWindow

VARIABLES
    row,        \* the sessions row, Postgres
    state,      \* SessionState without its sockets and buffers
    sockets,    \* SessionState.sockets, None for an absent key
    buffers,    \* SessionState.buffers, by sender
    lock,       \* who holds the session's asyncio.Lock
    ending,     \* the end_session call in progress under the lock
    orphan,     \* the handoff tasks without a state: time left, or Unset
    conn,       \* websocket connections and their handlers
    req,        \* REST requests in progress
    gone,       \* agents whose account is deleted
    sent,       \* history: how many frames of each agent were accepted
    rcvd,       \* history: what each agent's sockets received, in order
    assent,     \* history: who committed a propose or an accept
    restarts,   \* history: restarts so far
    faults      \* history: database errors so far

memVars == <<state, sockets, buffers, orphan>>
lockVars == <<lock, ending>>
history == <<sent, rcvd, assent>>
environment == <<gone, restarts, faults>>
vars == <<row, memVars, lockVars, conn, req, history, environment>>

----------------------------------------------------------------------------
Unset == -1

Statuses ==
    {"awaiting_join", "active", "match_proposed", "match_confirmed", "closed"}

TimerReasons == {"time_limit_reached", "inactivity"}

Reasons ==
    TimerReasons \cup {"awaiting_join_expired", "handoff_complete",
                       "message_cap_reached", "ended_by_agent", "blocked",
                       "account_deleted"}

\* A close_reason that is not set is none of the reasons.
ASSUME NoneAssumption == None \notin Reasons

\* expires_in is expires_at minus now, never below 0; started counts the
\* increments of sessions_started_total this session caused.
SessionRow ==
    [status : Statuses, close_reason : Reasons \cup {None},
     expires_in : Nat, message_count : Nat,
     proposer : Members \cup {None}, started : Nat]

\* The row accept_connection inserts.
NewRow ==
    [status |-> "awaiting_join", close_reason |-> None,
     expires_in |-> JoinWindow, message_count |-> 0,
     proposer |-> None, started |-> 0]

\* active_for and idle_for are now minus active_at and last_message_at, never
\* above the window they are compared with; monitor is the _monitor_limits
\* task: absent, polling, or calling end_session with a reason; handoff is
\* what handoff_task has left to sleep; counted is active_metric_counted.
SessionState ==
    [loaded : BOOLEAN, closed : BOOLEAN, counted : BOOLEAN,
     active_for : Nat \cup {Unset}, idle_for : Nat, message_count : Nat,
     monitor : {"none", "polling"} \cup TimerReasons,
     handoff : Nat \cup {Unset}]

NoState ==
    [loaded |-> FALSE, closed |-> FALSE, counted |-> FALSE,
     active_for |-> Unset, idle_for |-> 0, message_count |-> 0,
     monitor |-> "none", handoff |-> Unset]

\* Mutant of FreshState: the count starts again at 0.
ForgetfulState == [NoState EXCEPT !.loaded = TRUE]

\* The SessionState _join builds: only the count comes back from the row.
FreshState ==
    [NoState EXCEPT !.loaded = TRUE, !.message_count = row.message_count]

\* Where the handler of a connection is: "out" before the hello and after
\* the handler returned; "authed" waits for the lock in _join; "activating"
\* and "committing" are _set_session_active under the lock; "joined" sends
\* ready; "flushing" is _flush_for_joined_agent; "loop" receives frames;
\* "capping" calls end_session; "leaving" calls _disconnect.
Phases == {"out", "authed", "activating", "committing", "joined", "flushing",
           "loop", "capping", "leaving"}

\* live: the websocket can still carry a frame; target: the socket flushed to.
Connection ==
    [phase : Phases, agent : Members \cup {None},
     target : Conns \cup {None}, live : BOOLEAN]

Out == [phase |-> "out", agent |-> None, target |-> None, live |-> FALSE]

\* A request read the row and passed its checks ("read"), is sending the
\* match_confirmed event ("emitting"), or calls end_session ("ending").
RequestPhases == {"idle", "read", "emitting", "ending"}

Request ==
    [op : AllOps \cup {None}, by : Members \cup {None}, phase : RequestPhases]

Idle == [op |-> None, by |-> None, phase |-> "idle"]

NoEnding == [phase |-> "none", reason |-> None]

Holders == Conns \cup Requests \cup {"handoff"}

----------------------------------------------------------------------------
LockFree == lock = None

Registered == {sockets[m] : m \in Members} \ {None}

Receivable(c) == c # None /\ conn[c].live

TotalSent == sent[AgentA] + sent[AgentB]

Earlier(a, b) == IF a < b THEN a ELSE b

\* One unit less to wait, unless the wait is over or there is none.
CountDown(t) == IF t > 0 THEN t - 1 ELSE t

CountUp(t, window) == Earlier(t + 1, window)

\* The handler of c returns or dies, and the server closes its websocket.
Finish(c) == [conn EXCEPT ![c] = Out]

InPhase(c, phase) == [conn EXCEPT ![c].phase = phase]

\* The handler of q goes on after its commit.
Continues(q, phase) == [req EXCEPT ![q].phase = phase]

\* The handler of q returns, or fails.
Answered(q) == [req EXCEPT ![q] = Idle]

ClosedRow(r, reason) ==
    [r EXCEPT !.status = "closed", !.close_reason = reason]

\* end_session marks the state closed, cancels both timer tasks and takes the
\* session out of the active_sessions gauge.
ClosedState ==
    [state EXCEPT !.closed = TRUE, !.counted = FALSE,
                  !.monitor = "none", !.handoff = Unset]

\* The server has just started and nothing was counted.
ServerIdle ==
    /\ state = NoState
    /\ sockets = [m \in Members |-> None]
    /\ buffers = [m \in Members |-> <<>>]
    /\ lock = None
    /\ ending = NoEnding
    /\ orphan = [t \in HandoffTasks |-> Unset]
    /\ conn = [c \in Conns |-> Out]
    /\ req = [q \in Requests |-> Idle]
    /\ gone = {}
    /\ sent = [m \in Members |-> 0]
    /\ rcvd = [m \in Members |-> <<>>]
    /\ assent = {}
    /\ restarts = 0
    /\ faults = 0

Init == row = NewRow /\ ServerIdle

----------------------------------------------------------------------------
\* Time passes: the deadline of the row, the budgets of the monitor while the
\* session runs, and the sleeps of the handoff tasks.
Tick ==
    /\ row' = [row EXCEPT !.expires_in = CountDown(@)]
    /\ state' =
         [state EXCEPT
            !.active_for = IF @ = Unset THEN Unset ELSE CountUp(@, ActiveWindow),
            !.idle_for = IF state.active_for = Unset THEN @
                         ELSE CountUp(@, InactivityWindow),
            !.handoff = CountDown(@)]
    /\ orphan' = [t \in HandoffTasks |-> CountDown(orphan[t])]
    /\ UNCHANGED <<sockets, buffers, lockVars, conn, req, history, environment>>

\* The process dies and comes back: all of SessionManager is lost, every
\* handler with it, and only the committed row is left.
ServerRestart ==
    /\ restarts < MaxRestarts
    /\ restarts' = restarts + 1
    /\ state' = NoState
    /\ sockets' = [m \in Members |-> None]
    /\ buffers' = [m \in Members |-> <<>>]
    /\ lock' = None
    /\ ending' = NoEnding
    /\ orphan' = [t \in HandoffTasks |-> Unset]
    /\ conn' = [c \in Conns |-> Out]
    /\ req' = [q \in Requests |-> Idle]
    /\ UNCHANGED <<row, history, gone, faults>>
=============================================================================
