------------------------------ MODULE Intents ------------------------------
(***************************************************************************)
(* The intents of one agent and the soft bans that put them to sleep:      *)
(* routes/intents.py, moderation.py, and what routes/inbox.py, search.py,  *)
(* blocks.py, connections.py, agents.py and jobs.py do to them.            *)
(*                                                                         *)
(* A handler works on the agent's row as its authentication read it, for   *)
(* SQLAlchemy gives that object again and commits do not expire it, and    *)
(* writes only the columns it changed.  Between two of its queries other   *)
(* handlers commit.                                                        *)
(***************************************************************************)
EXTENDS Integers, FiniteSets

CONSTANTS
    Intents,        \* rows of intents: bounds their number
    Calls,          \* API calls the server works on at a time
    Blockers,       \* the other agents
    None,
    ActiveLimit,    \* the 10 of create_intent
    DayLimit,       \* the 30 of create_intent
    BlockLimit,     \* the 5 of check_and_apply_soft_ban
    BurstLimit,     \* the 100 of check_and_apply_soft_ban
    Ops             \* operations the environment uses

ASSUME NoneAssumption == None \notin Intents \cup Blockers

AllOps ==
    {"create", "delete", "refresh", "poll", "connect", "block", "close", "hardban"}

ASSUME LimitAssumption ==
    /\ ActiveLimit \in Nat
    /\ DayLimit \in Nat \ {0}
    /\ BlockLimit \in Nat
    /\ BurstLimit \in Nat
    /\ Ops \subseteq AllOps

ASSUME FiniteAssumption ==
    IsFiniteSet(Intents) /\ IsFiniteSet(Calls) /\ IsFiniteSet(Blockers)

VARIABLES
    agent,      \* its row in agents
    intents,    \* its rows in intents
    blocked,    \* by other agent: the row in blocks, of the last 7 days or old
    calls,      \* API calls in progress
    lifted,     \* history: a soft ban was lifted
    swept       \* history: intents the deletion found, until the account is back

vars == <<agent, intents, blocked, calls, lifted, swept>>

----------------------------------------------------------------------------
Standings == {"active", "soft_banned", "hard_banned", "deleted"}

\* lifts: soft_ban_lifts_at; seen: last_seen_at, recent within 5 minutes.
Agent ==
    [status : Standings, lifts : {"none", "later", "due"},
     seen : {"never", "recent", "stale"}]

\* age: created within a day, before, or past expires_at.
Intent ==
    [status : {"absent", "active", "dormant", "expired", "deleted"},
     age : {"today", "earlier", "due"}]

NoIntent == [status |-> "absent", age |-> "today"]

\* What a call has read and decided: seen is the agent's status, asleep whether
\* the intent was dormant or the agent never polled, ban whether the call
\* applies a soft ban; rows and freed are the intents and the blocks by others
\* that its transaction has deleted and not committed.
Call ==
    [op : AllOps \cup {"none"},
     phase : {"idle", "checked", "counted", "embedding", "checking", "decided",
              "read", "erasing", "freeing"},
     intent : Intents \cup {None}, by : Blockers \cup {None},
     seen : Standings, asleep : BOOLEAN, ban : BOOLEAN,
     rows : SUBSET Intents, freed : SUBSET Blockers]

NoCall ==
    [op |-> "none", phase |-> "idle", intent |-> None, by |-> None,
     seen |-> "active", asleep |-> FALSE, ban |-> FALSE,
     rows |-> {}, freed |-> {}]

At(k, phase) == calls[k].phase = phase

Done(k) == [calls EXCEPT ![k] = NoCall]

WithStatus(s) == {i \in Intents : intents[i].status = s}

\* What search_intents may return to an agent that is not blocked.
Found == WithStatus("active")

Live == Found \cup WithStatus("dormant")

\* count_intents_created_since yesterday, whatever became of them.
CreatedToday ==
    {i \in Intents : intents[i].status # "absent" /\ intents[i].age = "today"}

Recent == {b \in Blockers : blocked[b] = "recent"}

Init ==
    /\ agent = [status |-> "active", lifts |-> "none", seen |-> "never"]
    /\ intents = [i \in Intents |-> NoIntent]
    /\ blocked = [b \in Blockers |-> "no"]
    /\ calls = [k \in Calls |-> NoCall]
    /\ lifted = FALSE
    /\ swept = {}

----------------------------------------------------------------------------
(* Authentication of the agent's own calls.                                *)

\* verify_signed_request.
Signed == agent.status \notin {"hard_banned", "deleted"}

\* Mutant of CanMutate: the status is not looked at again.
CanSign == Signed

\* require_agent_can_mutate.
CanMutate == Signed /\ agent.status # "soft_banned"

Begin(k, op, phase) ==
    /\ At(k, "idle")
    /\ op \in Ops
    /\ calls' = [calls EXCEPT ![k] = [NoCall EXCEPT !.op = op, !.phase = phase]]
    /\ UNCHANGED <<agent, intents, blocked, lifted, swept>>

\* A call is refused, or it fails and is rolled back: the embedder, after its
\* three attempts, a unique key, the database.
GiveUp(k) ==
    /\ ~At(k, "idle")
    /\ calls' = Done(k)
    /\ UNCHANGED <<agent, intents, blocked, lifted, swept>>

\* Mutant of RowFree: the counter is not flushed before the blocks are counted.
NeverLocked == TRUE

\* The row in agents has no uncommitted update.  block increments a counter in
\* it, which the next query flushes, and keeps it until it commits; whoever
\* writes the row waits.  The other calls write it in the step that commits:
\* connect has committed its counters before it looks for a ban.
RowFree == \A k \in Calls : At(k, "decided") => calls[k].op # "block"

----------------------------------------------------------------------------
(* POST /intents.  A text that is refused changes nothing.                 *)

CheckCreate(k) == CanMutate /\ Begin(k, "create", "checked")

BelowActiveLimit == Cardinality(Found) < ActiveLimit

CountActive(k) ==
    /\ At(k, "checked")
    /\ BelowActiveLimit
    /\ calls' = [calls EXCEPT ![k].phase = "counted"]
    /\ UNCHANGED <<agent, intents, blocked, lifted, swept>>

\* Mutant of BelowDayLimit: a deleted intent gives its place back.
FewLeftToday ==
    Cardinality({i \in CreatedToday : intents[i].status # "deleted"}) < DayLimit

BelowDayLimit == Cardinality(CreatedToday) < DayLimit

CountToday(k) ==
    /\ At(k, "counted")
    /\ BelowDayLimit
    /\ calls' = [calls EXCEPT ![k].phase = "embedding"]
    /\ UNCHANGED <<agent, intents, blocked, lifted, swept>>

\* The embedder has answered.  The insert is committed before the ban check,
\* and a counter of the agent with it.
PersistIntent(k) ==
    /\ At(k, "embedding")
    /\ RowFree
    /\ \E i \in WithStatus("absent") :
          intents' = [intents EXCEPT ![i] = [status |-> "active", age |-> "today"]]
    /\ calls' = [calls EXCEPT ![k].phase = "checking"]
    /\ UNCHANGED <<agent, blocked, lifted, swept>>

----------------------------------------------------------------------------
(* DELETE /intents/{id}, of which a second one writes nothing, and POST    *)
(* /intents/{id}/refresh.                                                  *)

ReadIntent(k, op, i) ==
    /\ CanMutate
    /\ At(k, "idle")
    /\ op \in Ops
    /\ intents[i].status # "absent"
    /\ op = "delete" => intents[i].status # "deleted"
    /\ op = "refresh" => i \in Live
    /\ calls' = [calls EXCEPT
                   ![k] = [NoCall EXCEPT !.op = op, !.phase = "read", !.intent = i,
                                         !.asleep = i \in WithStatus("dormant")]]
    /\ UNCHANGED <<agent, intents, blocked, lifted, swept>>

Ready(k, op) == At(k, "read") /\ calls[k].op = op

CommitDelete(k) ==
    /\ Ready(k, "delete")
    /\ intents' = [intents EXCEPT ![calls[k].intent].status = "deleted"]
    /\ calls' = Done(k)
    /\ UNCHANGED <<agent, blocked, lifted, swept>>

\* The status is written if it was dormant when it was read.
CommitRefresh(k) ==
    /\ Ready(k, "refresh")
    /\ intents' = [intents EXCEPT
                     ![calls[k].intent] =
                       [status |-> IF calls[k].asleep THEN "active" ELSE @.status,
                        age |-> IF @.age = "due" THEN "earlier" ELSE @.age]]
    /\ calls' = Done(k)
    /\ UNCHANGED <<agent, blocked, lifted, swept>>

----------------------------------------------------------------------------
(* Other calls of the agent, and calls about it.                           *)

\* GET /inbox; all else it does is reading.
StartPoll(k) == Signed /\ Begin(k, "poll", "read")

\* POST /connect, up to its check for a ban; the request and its counters are
\* committed by then.
StartConnect(k) == CanMutate /\ Begin(k, "connect", "checking")

\* POST /block by another agent, which has no block yet: only such a block
\* checks for a ban.  The target may be banned or deleted.
StartBlock(k, b) ==
    /\ At(k, "idle")
    /\ "block" \in Ops
    /\ blocked[b] = "no"
    /\ calls' = [calls EXCEPT
                   ![k] = [NoCall EXCEPT !.op = "block", !.phase = "checking",
                                         !.by = b, !.seen = agent.status]]
    /\ UNCHANGED <<agent, intents, blocked, lifted, swept>>

CommitPoll(k) ==
    /\ Ready(k, "poll")
    /\ RowFree
    /\ agent' = [agent EXCEPT !.seen = "recent"]
    /\ calls' = Done(k)
    /\ UNCHANGED <<intents, blocked, lifted, swept>>

----------------------------------------------------------------------------
(* check_and_apply_soft_ban, at the end of a create, connect or block.     *)

\* Mutant of MayBeBanned: a ban does not keep from the next.
AnyoneMayBeBanned(k) == TRUE

MayBeBanned(k) == calls[k].seen = "active"

\* The call's own block counts, it is flushed.
BlockedTooOften(k) ==
    Cardinality(Recent \cup ({calls[k].by} \ {None})) > BlockLimit

\* The ratio of the connection requests is not modelled: of an agent that
\* connects it may say anything.
Spams == IF "connect" \in Ops THEN BOOLEAN ELSE {FALSE}

DecideBan(k) ==
    /\ At(k, "checking")
    /\ calls[k].op = "block" => RowFree /\ blocked[calls[k].by] = "no"
    /\ \E spam \in Spams :
          calls' = [calls EXCEPT
                      ![k].phase = "decided",
                      ![k].ban = /\ MayBeBanned(k)
                                 /\ \/ BlockedTooOften(k)
                                    \/ spam
                                    \/ Cardinality(CreatedToday) > BurstLimit]
    /\ UNCHANGED <<agent, intents, blocked, lifted, swept>>

\* Mutant of PutToSleep: the intents get the status of the agent.
PutToBan ==
    [i \in Intents |->
       IF i \in Found THEN [intents[i] EXCEPT !.status = "soft_banned"]
       ELSE intents[i]]

PutToSleep ==
    [i \in Intents |-> IF i \in Found THEN [intents[i] EXCEPT !.status = "dormant"]
                       ELSE intents[i]]

\* apply_soft_ban, if it was decided, and the commit of the call.
CommitDecided(k) ==
    /\ At(k, "decided")
    /\ calls[k].op # "block" /\ calls[k].ban => RowFree
    /\ IF calls[k].ban
       THEN /\ agent' = [agent EXCEPT !.status = "soft_banned", !.lifts = "later"]
            /\ intents' = PutToSleep
            /\ swept' = {}
       ELSE UNCHANGED <<agent, intents, swept>>
    /\ blocked' = IF calls[k].op = "block"
                  THEN [blocked EXCEPT ![calls[k].by] = "recent"] ELSE blocked
    /\ calls' = Done(k)
    /\ UNCHANGED lifted

\* The row may be deleted already, by a deletion of the account under way.
Unblock(b) ==
    /\ blocked[b] # "no"
    /\ \A k \in Calls : b \notin calls[k].freed
    /\ blocked' = [blocked EXCEPT ![b] = "no"]
    /\ UNCHANGED <<agent, intents, calls, lifted, swept>>

----------------------------------------------------------------------------
(* DELETE /agent, allowed while soft-banned: two statements that other      *)
(* calls may commit between, and a commit that writes the agent's row.      *)

StartClose(k) ==
    /\ Signed
    /\ At(k, "idle")
    /\ "close" \in Ops
    /\ calls' = [calls EXCEPT
                   ![k] = [NoCall EXCEPT !.op = "close", !.phase = "read",
                                         !.seen = agent.status,
                                         !.asleep = agent.seen = "never"]]
    /\ UNCHANGED <<agent, intents, blocked, lifted, swept>>

\* The intents that are committed are deleted, and their rows kept: whatever
\* else writes one is done before or waits.  What is created later stays.
CloseIntents(k) ==
    /\ Ready(k, "close")
    /\ calls' = [calls EXCEPT ![k].phase = "erasing",
                              ![k].rows = Intents \ WithStatus("absent")]
    /\ UNCHANGED <<agent, intents, blocked, lifted, swept>>

\* So are the blocks.
CloseBlocks(k) ==
    /\ At(k, "erasing")
    /\ calls' = [calls EXCEPT ![k].phase = "freeing",
                              ![k].freed = {b \in Blockers : blocked[b] # "no"}]
    /\ UNCHANGED <<agent, intents, blocked, lifted, swept>>

\* Mutant of Erased: the intents that are asleep are forgotten.
ErasedFound(k) ==
    [i \in Intents |-> IF i \in calls[k].rows \cap Found
                       THEN [intents[i] EXCEPT !.status = "deleted"]
                       ELSE intents[i]]

Erased(k) ==
    [i \in Intents |-> IF i \in calls[k].rows
                       THEN [intents[i] EXCEPT !.status = "deleted"]
                       ELSE intents[i]]

\* What the agent had none of when it was read is not written.
CommitClose(k) ==
    /\ At(k, "freeing")
    /\ RowFree
    /\ agent' =
          [status |-> "deleted",
           lifts |-> IF calls[k].seen = "active" THEN agent.lifts ELSE "none",
           seen |-> IF calls[k].asleep THEN agent.seen ELSE "never"]
    /\ intents' = Erased(k)
    /\ blocked' = [b \in Blockers |-> IF b \in calls[k].freed THEN "no"
                                      ELSE blocked[b]]
    /\ calls' = Done(k)
    /\ swept' = calls[k].rows
    /\ UNCHANGED lifted

----------------------------------------------------------------------------
(* The operator, time and the maintenance job.                             *)

HardBan ==
    /\ "hardban" \in Ops
    /\ agent.status # "deleted"
    /\ RowFree
    /\ agent' = [agent EXCEPT !.status = "hard_banned"]
    /\ UNCHANGED <<intents, blocked, calls, lifted, swept>>

BanRunsOut ==
    /\ agent.lifts = "later"
    /\ agent' = [agent EXCEPT !.lifts = "due"]
    /\ UNCHANGED <<intents, blocked, calls, lifted, swept>>

FallSilent ==
    /\ agent.seen = "recent"
    /\ agent' = [agent EXCEPT !.seen = "stale"]
    /\ UNCHANGED <<intents, blocked, calls, lifted, swept>>

Age(i) ==
    /\ intents[i].status # "absent"
    /\ intents[i].age # "due"
    /\ intents' = [intents EXCEPT
                     ![i].age = IF @ = "today" THEN "earlier" ELSE "due"]
    /\ UNCHANGED <<agent, blocked, calls, lifted, swept>>

AgeBlock(b) ==
    /\ blocked[b] = "recent"
    /\ blocked' = [blocked EXCEPT ![b] = "old"]
    /\ UNCHANGED <<agent, intents, calls, lifted, swept>>

BanIsOver == agent.status = "soft_banned" /\ agent.lifts = "due"

\* Mutant of Silent: an agent that never polled has no last_seen_at to compare.
SilentSince == agent.seen = "stale"

Silent == agent.seen \in {"never", "stale"}

\* The three updates of intents, one after the other.
Maintained(row) ==
    IF row.status \notin {"active", "dormant"} THEN row.status
    ELSE IF row.age = "due" THEN "expired"
    ELSE IF Silent THEN "dormant"
    ELSE IF agent.seen = "recent" THEN "active"
    ELSE row.status

\* One transaction; it lifts the ban first.
RunMaintenance ==
    /\ BanIsOver => RowFree
    /\ agent' = IF BanIsOver
                THEN [agent EXCEPT !.status = "active", !.lifts = "none"]
                ELSE agent
    /\ lifted' = (lifted \/ BanIsOver)
    /\ intents' = [i \in Intents |->
                     [intents[i] EXCEPT !.status = Maintained(intents[i])]]
    /\ UNCHANGED <<blocked, calls, swept>>

----------------------------------------------------------------------------
NewCall(k) ==
    \/ CheckCreate(k)
    \/ StartPoll(k)
    \/ StartConnect(k)
    \/ StartClose(k)
    \/ \E op \in {"delete", "refresh"}, i \in Intents : ReadIntent(k, op, i)
    \/ \E b \in Blockers : StartBlock(k, b)

CallStep(k) ==
    \/ GiveUp(k)
    \/ CountActive(k)
    \/ CountToday(k)
    \/ PersistIntent(k)
    \/ CommitDelete(k)
    \/ CommitRefresh(k)
    \/ CommitPoll(k)
    \/ CloseIntents(k)
    \/ CloseBlocks(k)
    \/ CommitClose(k)
    \/ DecideBan(k)
    \/ CommitDecided(k)

Next ==
    \/ \E k \in Calls : NewCall(k) \/ CallStep(k)
    \/ \E i \in Intents : Age(i)
    \/ \E b \in Blockers : Unblock(b) \/ AgeBlock(b)
    \/ HardBan
    \/ BanRunsOut
    \/ FallSilent
    \/ RunMaintenance

Spec == Init /\ [][Next]_vars

\* Time passes, the job runs every minute and waits for the row in a queue, and
\* a call that keeps the row waits for the database only.
FairSpec ==
    /\ Spec
    /\ WF_vars(BanRunsOut)
    /\ SF_vars(RunMaintenance)
    /\ \A k \in Calls : WF_vars(CommitDecided(k))

----------------------------------------------------------------------------
(* Properties.                                                             *)

\* Every variable holds what the code's types allow, and a call has the intent
\* or the agent it works for.
TypeOK ==
    /\ agent \in Agent
    /\ intents \in [Intents -> Intent]
    /\ blocked \in [Blockers -> {"no", "recent", "old"}]
    /\ calls \in [Calls -> Call]
    /\ lifted \in BOOLEAN
    /\ swept \subseteq Intents
    /\ \A k \in Calls :
          /\ calls[k].op \in {"delete", "refresh"} => calls[k].intent \in Intents
          /\ calls[k].op = "block" => calls[k].by \in Blockers

\* Creates that wait for the embedder at the same time exceed the limit of a day
\* by less than the number of calls, and deleting intents or letting them sleep
\* makes no room (routes/intents.py, create_intent).
CreatedNearLimit ==
    Cardinality(CreatedToday) + Cardinality({k \in Calls : At(k, "embedding")})
    < DayLimit + Cardinality(Calls)

\* Until a ban has been served, an agent with more than the allowed number of
\* recent blocks is not in service, however the blocks overlap: none of them
\* misses the others, for each keeps the agent's row until it commits
\* (moderation.py, check_and_apply_soft_ban; routes/blocks.py, upsert_block).
BlocksWithinLimit ==
    agent.status = "active" /\ ~lifted => Cardinality(Recent) <= BlockLimit

\* Refreshes that wake their intent when they commit.
Refreshing == {k \in Calls : Ready(k, "refresh") /\ calls[k].asleep}

\* Of the intents that the deletion of an account found, active or asleep, none
\* lives on but those that the refreshes in progress when it committed wake
\* again; nothing else brings one back, and no refresh begins.  What was created
\* meanwhile is another matter (routes/agents.py, delete_agent_account;
\* routes/intents.py, refresh_owned_intent).
LeftoversAreFew ==
    agent.status = "deleted" =>
        Cardinality(Live \cap swept) + Cardinality(Refreshing)
        < Cardinality(Calls)

\* A soft ban ends, whatever was decided on it by calls that do not know of it,
\* and although others go on blocking the agent (jobs.py, run_maintenance).
BanEnds == agent.status = "soft_banned" ~> agent.status # "soft_banned"

\* Nobody finds an intent for good whose agent does not poll, even if it never
\* did (jobs.py, run_maintenance).
SilentNotFound ==
    \A i \in Intents :
        i \in Found ~> i \notin Found \/ agent.seen = "recent"

\* Calls that took the agent for active and may still apply a ban.
Trusting ==
    {k \in Calls : /\ calls[k].op \in {"create", "connect", "block"}
                   /\ calls[k].seen = "active"
                   /\ At(k, "decided") => calls[k].ban}

Stand ==
    INSTANCE Standing WITH standing <- agent.status, trusting <- Trusting

\* The agent's status moves as Standing promises: a ban comes only from a call
\* that began while the agent was active, so that a deleted or hard-banned
\* account comes back only because of calls in progress (moderation.py,
\* auth.py, jobs.py).
StandingSpec == Stand!Spec
=============================================================================
