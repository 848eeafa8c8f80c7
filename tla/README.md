# BabelTower in TLA+

BabelTower lets software agents find each other and talk: an agent registers a
public key under a GitHub account, publishes intents, asks another agent for a
connection, and when that is accepted the two exchange messages over websockets
relayed by the server, until they confirm a match, hit a limit, or end the
session. The server is one asyncio process (FastAPI, `src/src/babeltower/`) over
Postgres and Redis. These modules model the parts of it that keep state between
two requests and can interleave: the relay of a session with everything that
touches its row, registration, the making of connections, and the intents of an
agent with the bans that put them to sleep.

Paths below are relative to `src/src/babeltower/` unless they name a document.

## 1. Inventory

| Component | State | Operations | Talks to | What is hard, what makes it right |
|---|---|---|---|---|
| Websocket relay, `relay.py` | per session a `SessionState` in memory (sockets, buffers, count, monitor and handoff tasks, closed), an `asyncio.Lock`, a map of handoff tasks | hello, join, activation, ready, flush, frame, disconnect, monitor poll, handoff, `end_session` | writes the `sessions` row; called by match, session and block routes | tasks interleave at every `await`; sockets die at any point; restarts lose all of it. A frame is delivered at most once, none is stranded, a session starts once and is watched |
| Match routes, `routes/matches.py` | status, proposer, deadline of the `sessions` row | propose, accept, reject | relay: event to the sockets, handoff timer | row is read, later committed, never checked again. A confirmed match took both members |
| Session routes, `routes/sessions.py` | status of the row | end, (read only: list, get) | relay: `end_session` | commit and relay are two steps |
| Block routes, `routes/blocks.py` | `blocks` rows, status of `sessions` rows | block, unblock, (list) | relay: `end_session` | upserts that overlap; a session opened meanwhile |
| Connection routes, `routes/connections.py` | `connection_requests` rows, a new `sessions` row, agent counters | connect, accept, reject, cancel | blocks, intents, soft bans | limits are counted before the insert; answers race. A request opens one session |
| Account deletion, `routes/agents.py` | tombstone of the agent, its blocks, intents, sessions | delete | nobody: the relay is not told | single transaction against running sessions |
| Registration, `routes/register.py`, `github_oauth.py` | tokens in Redis, `agents` rows, an advisory lock per account | init, status poll, OAuth callback | GitHub, Redis, Postgres | two stores without a common transaction; concurrent callbacks. At most 3 agents per account; a key is bound once |
| Maintenance job, `jobs.py` | statuses and deadlines of requests, sessions, intents, soft bans | one pass a minute | nobody: the relay is not told | races with every handler; must make up for lost timers |
| Database models, `models.py` | the rows and their unique keys | - | all | unique constraints are the only check at commit |
| Metrics, `metrics.py` | `active_sessions` gauge, counters | - | relay | the gauge is a pair of inc and dec in two places |
| Intents, `routes/intents.py` | `intents` rows | create, delete, refresh, (read only: list, get) | embedder, moderation, maintenance | limits counted before an await of seconds; commits over a deleted or banned account. The limit of a day holds but for the creates in progress |
| Moderation, `moderation.py` | status and `soft_ban_lifts_at` of the agent, its active intents | check and apply | called by connect, create, block; maintenance lifts | decided on a status read at the start of the call. No block is missed; a ban ends |
| Inbox, `routes/inbox.py` | `last_seen_at` | poll | maintenance goes by it | decides which intents sleep; NULL until the first poll |
| Search, embeddings | none | ranking queries | pgvector, a model | reads only |
| Request authentication, `auth.py`, `crypto.py` | none of its own | signatures | all | pure functions |
| Application, configuration, rate limit, schemas, logging, meta | wiring | - | - | no protocol |
| Migrations, containers, web pages | - | - | - | not part of the running protocol |

`PROJECT.json` lists the same components with their status, and the hazards of
the code line by line.

## 2. Modules

```
Session            the row, the SessionState, time, restart
  Relay            relay.py: websocket handlers, timers, end_session
    SessionRoutes  matches, sessions, blocks, agents, jobs on a session
      SessionSystem   Next, fairness, properties    -- implements --> Channel,
                                                                      SessionLife
        SessionClaims (what documents say and the code does not keep)
        SessionTypeProofs -> SessionLockProofs -> SessionRowProofs
        SessionChannelProofs, with ChannelProofs
Registration       register.py                          -- implements --> Registry
  RegistrationClaims, RegistrationProofs
Connections        connections.py, blocks.py, jobs.py   -- implements --> Introduction
  ConnectionClaims, ConnectionProofs
Intents            intents.py, moderation.py and more   -- implements --> Standing
  IntentClaims, IntentProofs
MCSession MCDelivery MCClaims MCRegistration MCConnections MCIntents   for TLC
```

### Session, Relay, SessionRoutes, SessionSystem

One session of two members. `row` is the `sessions` row; `state`, `sockets` and
`buffers` are the relay's `SessionState`; `lock` and `ending` say who holds the
session's `asyncio.Lock` and how far an `end_session` under it is; `orphan` has
the handoff tasks that were scheduled when the relay had no state (`HandoffTasks`
bounds their number); `conn` has a handler for each websocket; `req` the REST
requests in progress, whose slots are used again and again; `gone` the deleted
accounts. `sent`, `rcvd`, `assent`, `restarts` and `faults` are history.

There can be several such handoff tasks: `_handoff_tasks` keeps one, which the
next cancels, but any handoff task of the session that ends removes the entry,
also that of another (relay.py:402), and a task without an entry is cancelled by
nobody. `ScheduleHandoffClose` replaces any of them or adds one.

Atomicity. The server is one event loop, so a step ends only at an `await`
that another task can overtake, and for code under the lock only where something
outside the lock can tell. Hence:

- Reading a row and committing it are two steps in every handler (`ReadRow`
  and the `Commit...` actions; `ReadForActivation`, `CommitActivation`). The
  engine runs READ COMMITTED, nothing is locked and there is no version column,
  and SQLAlchemy writes only the columns that were assigned, so `CommitReject`
  overwrites the status whatever it has become but not the deadline.
- `_persist_closed` reads and commits in one step: it assigns the columns it
  writes whatever it read, so a step between would change nothing.
- The row that `_authenticate_hello` loads gives `_join` its message count.
  `FreshState` reads it at the join instead: the column changes only through
  a loaded state, and where there is one `_join` does not use the snapshot.
  What the snapshot must not hide, that the row may be closed in between, is
  kept: `Join` has no guard on the row.
- A maintenance pass and an account deletion are single `UPDATE` statements.
- Sending on a websocket is one step with its outcome. A dead socket swallows
  the frame, or raises `WebSocketDisconnect` (the sender's handler then treats
  it as its own disconnect and leaves), or `RuntimeError` (it dies without
  `_disconnect`): `Forward`, `FlushNext`, `FailReady`.
- `end_session` called by the monitor or by `handoff_task` cancels its caller,
  which sees the `CancelledError` at the first await: `MonitorEnds` and
  `HandoffFires` close the state and nothing else.

- `ready` is sent before the socket to flush to is looked up: the connection may
  have been replaced by then, so `SendReady` asks nothing of its own socket.

Abstractions. Contents, signatures and error replies of frames are left out: a
refused hello or frame is no step, but for the frames that kill the handler
(binary, JSON that is no object, or an error reply that fails): `BadFrame`. A frame is its number among those of its
sender. Time is `Tick` with windows as constants; a window of 0 means "may
expire at any moment", which is how runs that are not about time get every order
of timers. `active_sessions` is `state.counted`, the gauge for one session.
Counters that only grow are left out, except `started`. A closed session stays
in `_states` until a restart, and in the model.

Each `Mutant of X` definition is the code with a plausible bug in it. It stands
beside `X` and is used by nothing: it is there to be put in the place of `X`, to
show that the property it breaks depends on that line of code.

### Channel

What the relay promises about frames and no more: each accepted frame is
delivered to the counterparty at most once, now or after waiting in a queue; it
may be lost; a live frame may overtake the queue (which the relay does: see 5).

### SessionLife

What the server promises of the status of a row. Because every handler decides on
a status it read and writes later, "closed is final" does not hold (section 5,
ClaimClosed), and SessionLife says what does: at most one task at a time has
decided to start a session, and none does so after it started; a propose, accept
or reject is decided upon a running session only; nobody decides anything on a
closed one. Hence `FinalOnceQuiet`: a closed row is closed for good once the tasks
that had decided before are gone. `Starting` and `Matching` are those tasks in
SessionSystem: the handlers between `ReadForActivation` and `CommitActivation`,
and the match requests between `ReadRow` and their commit.

### Registration and Registry

`tokens` are the Redis entries, `agents` the table, `callbacks` the OAuth
callbacks in progress, `userlock` the advisory lock of an account. `via` (which
token bound a key) and `returned` (agents back in service) are history. Redis and
Postgres are separate steps. Lock
and count are one step: the count runs under the lock and only its holder adds
agents of that account; agents that leave in between only make it stricter.
`active` stands for `soft_banned` too, which is counted the same. GitHub is
outside: it names any account or fails. The operator's hard ban and Redis'
expiry may come at any moment.

Neither a hard ban nor a deletion is final. `StaleBan` is what Intents shows in
detail (ClaimGone): a soft ban decided before writes its status over the row, and
its lifting makes the agent active, a hard-banned one with its account, a deleted
one without. Here it may happen at any moment after a withdrawal. Such an agent is
counted again, but its account may have registered others meanwhile, so the
limit is kept only by the agents that never left (`returned` has the others).

`Registry` is the promise: a key is bound once, to one account, in one atomic
step that finds room in that account, can be withdrawn, and can be restored for
the account it had, room or not. A hard-banned agent counts as withdrawn there
because the code does not count it. A withdrawn key is never free again: no code
removes a row of `agents` (section 5).

### Connections

The way to a session: every query of a handler is a step (checks and blocks, the
two counts, the insert; the read and the commit of an answer; the read and the
commit of a block). `requests` has the rows with their age in three classes (of
today, within the 72 hours, due), `sessions` one session per request with the
unique key of the table, `blocks` the pairs, `calls` the API calls in progress.
An agent may be connected to although it is deleted, for an intent of it may be
left (Intents), and whether an intent is active is not looked at. `SessionEnds` and `SessionReopens`
stand for SessionSystem: an open session may be closed any time, and a close may
be overwritten by an activation or a match step that read the row before. When
that can happen is SessionLife's concern; here it may always. Requests age one by one,
in any order, which includes the orders real clocks give. `BlockConflicts` and
`CommitBlock` both may follow when an old block's row was deleted meanwhile: if
its reason does not change there is no `UPDATE` that could fail.
The statuses rejected and cancelled are one, "refused": only the inbox, which
changes nothing, tells them apart. `sentTotal` is the one counter kept, for the
update that connects may lose.

Introduction is the promise: a session opens for a request between two different
agents whose parties never change, only while the one that was asked is willing
(between the read and the commit of an accept by the request's recipient),
and once for each request. It says nothing of the other answers, because they
promise nothing: a session may open although a cancel was answered (section 5).

### Intents

One agent: `agent` its row (status, when its ban lifts, when it was last seen),
`intents` its rows with their age in three classes, `blocked` the blocks of it by
others, `calls` the API calls in progress, its own and those that block it.
`lifted` and `swept` (the intents that a deletion found) are history. Every query of a handler that another can overtake is a
step: the two counts of a create, the embedder's answer with the insert, the
check for a ban, the commit.

Three facts about SQLAlchemy carry the module:

- A request has one session, whose identity map gives the object that was loaded
  first, and commits do not expire it. So `check_and_apply_soft_ban` tests the
  status that authentication (or `block_agent`, for its target) read: `seen`.
- An assignment that does not change the loaded value writes nothing. Hence
  `CommitRefresh` writes the status only if the intent slept when it was read,
  and `CommitClose` leaves alone what the agent had none of.
- A query flushes pending changes first. `block_agent` increments a counter in
  the agent's row before the check counts anything, so that row is locked until
  it commits (`RowFree`), and the checks of two blocks of one agent exclude each
  other although no code says so. A create and a connect commit before their
  check (`intents.py`, `connections.py:155`) and hold nothing: between their
  decision and its commit the agent may be deleted, banned or seen.

A deletion is one transaction at READ COMMITTED, whose statements see what was
committed before each of them. `CloseIntents` and `CloseBlocks` fix the rows that
two of them delete and that nobody else changes until `CommitClose` writes the
agent's row; what is created or blocked in between stays. (The third, on
`sessions`, is in SessionRoutes and Connections.) Authentication reads the status
before the commit, so a create may begin and end while a deletion is under way.

Abstractions: texts, embeddings and the ranking; the ratio of sent to accepted
requests, which may say anything of an agent that connects; `matched`, a status
that no code sets. `HardBan` is the operator. Ages and the two clocks
(`BanRunsOut`, `FallSilent`) move at any moment.

Standing is the promise about the agent's status. A call that took the agent for
active may ban it whatever it has become, so "deleted is final" does not hold
(ClaimGone). What holds is that a call begins to trust an agent only while the
agent is active, and that an operator's ban and a deletion are undone by such calls
alone: once none is left (`GoneOnceQuiet`) the account is gone for good.

## 3. Runs

| Run | Bounds | Checks |
|---|---|---|
| MCDelivery | 3 connections, 3 frames, cap 3, buffer 2, count saved every 2 | TypeOK, NoneStranded, LoopIsRegistered, ChannelSpec |
| MCMatch | 2 connections, any number of requests but 2 at a time, 1 handoff task without a state, 1 restart, join window 1, others 0 | MutualConsent, DeadlineFitsStatus, RunningIsWatched, LifeSpec |
| MCRestart | 2 connections, 7 frames, cap 4, saved every 2, 2 restarts, 1 database error, deletions | CapAcrossRestarts, StartedOnce, LockDiscipline, HolderIsAtWork, LockGoesBack, SavedCountGrows |
| MCClosing | a server started on a row that awaits its members or is active; 1 connection, 2 requests at a time, 2 handoff tasks without a state, windows 1, inactivity 0, no fairness but time and maintenance | RowEventuallyClosed |
| MCProgress | 2 connections, 1 end or block | LockEventuallyFree, HelloServed, EndReturns |
| MCRegister | 2 accounts, 2 keys, 2 tokens, 2 callbacks, limit 1, 1 failure, any number of bans, deletions and returns | TypeOK, AgentLimitHolds, CompleteIsEarned, BoundIsReported, RegistrySpec, CallbackReturns, BindingReported |
| MCConnect | 2 agents, 2 requests, 2 calls, limits 1 and 2 | TypeOK, SessionFitsRequest, PendingNearLimit, TodayNearLimit, OpenedOnce, AnswerStands, IntroSpec, SentNotOvercounted |
| MCIntents | 2 intents, 2 calls at a time of all kinds, 1 other agent, limits 1 active and 1 a day, every block a ban (none allowed), connects that may be one | TypeOK, CreatedNearLimit, LeftoversAreFew, StandingSpec |
| MCBans | 1 intent, 2 calls, 2 other agents, 1 block allowed | BlocksWithinLimit, BanEnds, SilentNotFound |
| ClaimEndReaches, ClaimBlock, ClaimGone | only the actors needed | one claim each, violated (see 5) |

`ClaimHandoff`, `ClaimClosed`, `ClaimBan`, `ClaimLimit`, `ClaimBanned` and
`ClaimActive` are configurations of the same sort, of MCClaims (the first two),
MCRegistration (the next two) and MCIntents. They are not among the runs of `PROJECT.json`; `tlc -config
ClaimBanned.cfg MCIntents` shows the behaviour in a second.

Why the bounds are enough. Every race over a session is between two members, so
two connections show most of them; the third of MCDelivery lets an agent
reconnect while its old handler is still leaving and the other agent sends. A
connection's id is used again once the server has forgotten it, so the number
of reconnects is not bounded. Two buffered frames
and a third live one are what it takes to flush in several rounds and refuse one.
Two requests at a time let an accept and a reject of one proposal, or a propose and
either, overlap, and since a request that was answered makes room for the next,
their number is not bounded: a proposal can be made, accepted and put back for
ever, which RowEventuallyClosed is about. Its row is that of a server that has
just started, which may find it activated by the process before: so the one
connection of that run need not be two that join. Saving every second frame of
four, with two restarts, loses counts twice, still meets a saved one, and lets a
count that was loaded from the row be saved over one that was saved before. Two
callbacks of one account with a limit of 1 are the least that exceed it; two
calls with limits of 1 and 2 do it for connects, and make the pending limit and the
daily limit bite separately. A create, a refresh or a poll beside the call that
bans or deletes takes two calls, as do two blocks that overlap; two intents are
one more than the daily limit of 1, so that concurrent creates do exceed it, and
of an account under deletion one is found and another created meanwhile; one
intent is enough for what MCBans says of each. Two blocks of which one is allowed
is the least that a missed block can exceed. Bounds that are only bounds (`MaxFrames`,
`MaxRestarts`, `MaxFaults`, the sizes of `Tokens`, `Callbacks`, `HandoffTasks`) are
named in the modules and switch an action off when they are reached. Between
them the passing runs take every action of every next-state relation.

Symmetry is declared in runs of safety and action properties only. The `VIEW`
of MCRestart hides the contents of buffers, whose frames were received, and how
the count splits between the senders: no step depends on them and no property
there mentions them. MCDelivery, which is about them, has none. The `VIEW` of
MCMatch, which has no frames, hides of the row how often it was started, the
reasons of its close but for the handoff's, and the proposer of a row whose
status is not `match_proposed`: no step reads them, a proposal writes its
proposer, and no property there mentions them.

Deadlock is checked in all runs of the session, which can always let time pass.
It is not in MCRegister, MCConnect and their claims: there the system really
stops, when all tokens are gone and all callbacks have returned, or when every
agent is deleted and every request is resolved. MCIntents and MCBans check it:
the maintenance job always runs again.

### Fairness

- `FairSpec` (session): weak fairness for each websocket handler, each
  request and `end_session`, because the event loop runs every task that is
  ready; strong fairness for the steps that wait for the lock, because
  `asyncio.Lock` serves its waiters in order. Clients, failures, timers and new
  requests owe nothing. A send is assumed to return.
- `DurableSpec` (session): only the clock and the maintenance job, which the
  server schedules every minute and again after a restart (`jobs.py`). Everything
  else may stop for ever at any point, and this stands for crashes without
  bounding them. Under it RowEventuallyClosed says two things: the row is closed
  for good in the end, unless the members' commits go on for ever (one that
  read the row before the close reopens it); and it is closed again and again
  in any case, unless accepts go on for ever (each renews the deadline). Neither
  exception can be left out: TLC finds the cycles of section 5.
- `FairSpec` (registration): GitHub answers within the client's timeout of 10
  seconds or the request fails; Postgres queues the waiters of an advisory
  lock, hence strong fairness for taking it.
- `FairSpec` (intents): a ban runs out (time passes), the maintenance job runs
  every minute and waits for the row's lock in Postgres' queue, hence strong
  fairness, and a call that holds the lock awaits nothing but the database
  before it commits. Agents owe nothing: nobody has to poll, and blocks may go
  on for ever.

## 4. Proofs

All proofs hold for every number of connections, requests, accounts, keys,
tokens, callbacks, agents, intents and calls and for all limits and windows, under
the `ASSUME`s of the modules: distinct members, distinct sorts of ids, natural
limits (positive where the code counts before it lets in), finitely many rows and
calls, a positive period of the write, and a handoff window no longer than the active window
(10 and 30 minutes in `relay.py`; needed by `DeadlineFitsStatus`, because a
reject may put a row that was given the handoff deadline back to active, and
by nothing else).

| Module | Theorems | Argument |
|---|---|---|
| SessionTypeProofs | TypeCorrect | TypeOK is inductive; it bounds the message count and the buffers |
| SessionLockProofs | LockCorrect | LockDiscipline is inductive given TypeOK |
| | HolderCorrect, LockReturns | HolderIsAtWork is inductive given those two; what is left to do under the lock is a number (WorkUnderLock) that each step taken under it lowers and no other raises |
| | RegisteredCorrect | from `_join` until it leaves, a live handler is the registered one (RegisteredInv), with LoadedInv: a handler past its join works on a state |
| | StrandedCorrect | StrandedInv: a registered socket belongs to its agent while its handler lives, and nothing waits for it once that handler receives frames or is on its way to the cap |
| | WatchedCorrect | WatchedInv: a state that has started without a monitor has its activation under the lock |
| SessionRowProofs | StartedCorrect | StartInv: a handler about to commit the activation found a session never started |
| | DeadlineCorrect | DeadlineInv: a propose, accept or reject in progress read an activated row |
| | ConsentCorrect | ConsentInv: the proposer of the row has assented, and an accept in progress carries the counterparty's assent it read to its commit |
| | CapCorrect | CapInv: the count in memory, and the saved one with what is still unsaved, account for all frames but those that restarts and failed writes forgot (Debt); it needs arithmetic on multiples (Division, Multiples, ModSucc) |
| | SavedCorrect | SavedInv: memory has every message that the row has; an end under the lock, which writes the count, finds its state loaded |
| | ImplementsLife, ClosedForGood | each step is one of SessionLife or stutters; LockDiscipline makes the one that reads `awaiting_join` the only one. FinalOnceQuiet then follows from SessionLife alone |
| ChannelProofs | DeliveredAtMostOnce | Sound: a waiting frame was never delivered |
| SessionChannelProofs | ImplementsChannel, RelayedAtMostOnce | each step of the relay is a step of Channel or stutters; FramesOnce follows by the proof for Channel |
| RegistrationProofs | TypeCorrect, LimitCorrect | LimitInv: who refuses or inserts holds its account's lock, and what it counted of the agents that never left stays true until it inserts: one that comes back does not add to them |
| | EarnedCorrect | EarnedInv: a callback that is to report bound its key by its token, and no key is bound twice |
| | LockWorked | LockIsWorked is inductive: callbacks give the lock back with the step that ends their transaction |
| | BoundCorrect | BoundInv: a token that bound a key, or that a callback works with, was issued, so no later `init` makes it pending again |
| | ImplementsRegistry | the insert is the one atomic checked binding, by LimitInv; deletions, bans and returns only move a key between the other standings |
| ConnectionProofs | TypeCorrect | TypeOK with PhaseFits: only connects are in a counting phase |
| | PendingCorrect, TodayCorrect | inductive as they stand, by counting: a step inserts a row for a call that goes (Exchanged), lets a call in that found room (Admitted), or neither count grows (Fewer) |
| | SentCorrect | CountInv: what a connect read of the counter is no more than the requests made either, and a made request stays its sender's |
| | FitsCorrect, OpenedCorrect | FitInv: what a block is to close had been opened, so no step of a call makes a session but an accept |
| | AnswerCorrect | nobody starts to answer a request that is not pending, and expiry leaves it alone (StandsStep) |
| | ImplementsIntroduction | IntroInv: an accept in progress is by the agent that was asked, and a row that was made keeps its parties (PartiesStep) |
| IntentProofs | TypeCorrect | TypeOK with ReadExists: calls delete and refresh rows that exist, and so does a deletion |
| | CreatedCorrect, BurstUnreached | by counting as above (CreateStep); the second needs only that the burst limit is past what the first allows |
| | BlocksCorrect | BlockInv: one call at a time holds the agent's row, a block that decided against a ban has room, and a block of an agent in service saw it in service |
| | LeftoversCorrect | by counting: of the intents that a deletion found, one comes to life only for a refresh that was in progress and goes; the deletion leaves none alive when it commits, and is itself a call that revives nothing (ReviveStep) |
| | ImplementsStanding, StaysGone | StandInv: a call that has decided for a ban saw an active agent, whatever committed since. GoneOnceQuiet then follows from Standing alone |

Only model-checked: liveness (the prover has no ENABLED), and the claims of
section 5, which TLC refutes. Of some liveness properties the half that is about
safety is proved, so that only the scheduling is left to TLC's small instances:

- LockEventuallyFree: whoever holds the lock of a session is at a step that waits
  for no lock (HolderCorrect), and takes two such steps at most (LockReturns);
- CallbackReturns: whoever holds the lock of an account is at a step that waits
  for no callback (LockWorked);
- BindingReported: a key that is bound is reported, or its callback is about to
  report it, unless something failed (BoundCorrect).

No invariant of any run is left without a theorem, nor is an action property or an
implemented specification. Two properties are proved and in no run of their own,
because a run that checks more would show nothing new: FramesOnce, which ChannelSpec
implies, and LockIsWorked, without which CallbackReturns fails.

## 5. What the code does not keep

Each of these is a configuration that TLC ends with a counterexample.

- **ClaimEndReaches** (a bug). `end_session` cancels `monitor_task` and
  `handoff_task`, also when it was called by one of them. The `CancelledError`
  surfaces in `_persist_closed`: after a time limit, an inactivity or a handoff
  timeout the state is closed, the row stays open until the maintenance job
  comes, and the members are never told and stay connected.
- **ClaimHandoff**. The monitor goes by the 30 minutes whatever the row says,
  so a match confirmed in the 29th minute gets one minute of its ten.
- **ClaimClosed**. The activation reads `awaiting_join` and commits `active`;
  a close in between is overwritten. The match routes do the same. That only
  tasks that were in progress can do so is ClosedForGood.
- **ClaimBan**. A hard-banned agent is not counted and there is no blocklist, so
  its GitHub account registers again.
- **ClaimBlock**. Accepting a request does not ask for blocks, and a block
  leaves pending requests alone, so a request made before the block opens a
  session after it.
- **ClaimLimit**. PROTOCOL.md 3.1 gives an account up to 3 agents. A banned agent
  is not counted, so another is registered, and then a stale soft ban, as in
  ClaimGone, brings the first back: the account has one too many in service.
  AgentLimitHolds says what is left: nobody else exceeds the limit.
- **ClaimBanned** (a bug). The maintenance job wakes the dormant intents of
  everybody who polled in the last five minutes, whatever the agent's status,
  and a soft-banned agent may poll. PROTOCOL.md 8.2 says its intents become
  dormant; they are found again within a minute.
- **ClaimGone** (a bug). A block or a create that read an active agent decides a
  soft ban and writes `soft_banned` over a status committed since, and the
  maintenance job makes the agent active a week later: a hard-banned agent is
  back, and the tombstone of a deleted one too. BanEnds holds nevertheless, and
  so does StaysGone: without such a call in progress nobody comes back.
- **ClaimActive**. Nothing but create counts active intents. An agent whose
  intents sleep creates 10 others, polls, and has 20.

Others were seen while modelling. They are behaviours of these modules, and where
a passing property says what holds instead it is named:

- a restart forgets the frames counted since the last write, so the two members
  can send more than 50 in all (CapAcrossRestarts says how many);
- the limits of 20 pending and 50 daily requests are exceeded by concurrent calls
  (PendingNearLimit, TodayNearLimit; concurrency is bounded by the connection pool
  of the server, 15 by SQLAlchemy's default);
- after a restart the monitor starts again at zero, although a comment on
  `active_at` in `models.py` says otherwise; the row's deadline still holds
  (DeadlineFitsStatus, RowEventuallyClosed);
- a reject that read the row before an accept committed puts a confirmed, and
  announced, match back to active;
- that reject keeps the deadline which the accept had renewed (matches.py:136 and
  174-177), so two members that propose, accept and reject in this way keep a
  session open for ever: the maintenance job never finds it expired, and the
  timers close the relay's state only (RowEventuallyClosed says what holds);
- PROTOCOL.md 11 has the tombstone of a deleted key purged after 90 days. Nothing
  purges it, and since `agents.pubkey` is unique the key is never free again;
  RegistrySpec and ImplementsRegistry rest on that;
- a handoff task that was scheduled without a state loses its entry in
  `_handoff_tasks` when another one of the session ends, and is then cancelled by
  no later accept;
- a binary frame, or one that is JSON but no object, ends the handler without
  `_disconnect`, so that the dead socket stays registered until its agent joins again or the
  session ends;
- a request can be answered twice, by two calls that both read it pending; once
  they are gone the answer stands (AnswerStands);
- a live frame can overtake the buffered ones during the flush;
- an end request may be answered while a hello accepted before it is still to
  join; the join makes a fresh state, and frames are relayed on a closed row.
  Account deletion never tells the relay, with the same effect;
- a join of a state that was closed but not yet left by its members increments
  `active_sessions` for good;
- a database error in the activation leaves the session without a monitor;
- a second callback with a completed token of an account at its limit turns its
  report into `failed`, although the key is bound;
- concurrent connects lose an increment of `connection_requests_sent_total`,
  which never counts too much (SentNotOvercounted);
- a refresh that read a dormant intent makes it active over a deletion or an
  expiry committed since; a create whose account is deleted, or banned, while it
  waits for the embedder posts its intent all the same, and search does not look
  at the status of the agent (LeftoversAreFew bounds the intents that come back);
- a deletion updates the intents first and commits later, and until then creates
  are let in: what they insert is not deleted, however many there are. Only the
  limits of create bound them, and an agent may connect to their deleted owner;
- the soft ban for more than 100 intents in a day, `intent_creation_burst`, cannot
  happen: the limit of 30 refuses them first, unless 70 creates wait for the
  embedder at once (BurstUnreached);
- an account that had not polled, or was not banned, when its deletion read it
  keeps `last_seen_at` and `soft_ban_lifts_at` of a poll or ban committed since;
- two agents who blocked each other have two block rows, on which
  `has_block_between` raises: `connect` answers 500 where 403 is documented.

## 6. Plan

Done: the session, registration, connections and intents, with their proofs.
What is left, in this order:

1. A composition of Connections with SessionLife for each of its requests, in
   place of `SessionEnds` and `SessionReopens`, so that a block and the handlers of
   a session are stated about the same row.
2. Intents as what connections are made between: `load_connection_intents` tests
   two statuses that Intents changes, and so far Connections lets a connect find
   whatever it likes, also an intent that a deleted agent left behind.
3. Several sessions of one agent: the maps `_states`, `_locks` and
   `_handoff_tasks`, and the gauge as a sum.

Not modelled, and why:

- signatures, canonical strings, timestamps and content filters
  (`crypto.py`, half of `auth.py` and of `moderation.py`): pure functions of one
  request, with no state that a second request could meet;
- the ranking of search and the cache of embeddings: one query and a cache whose
  hits and misses give the same answer;
- the ratio of requests sent to accepted: a comparison of two counts that the
  model of one agent does not hold; Intents lets it say anything;
- schemas, configuration, logging, `rate_limit.py` (a library's decorator), web
  pages, migrations and containers.
