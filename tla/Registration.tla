---------------------------- MODULE Registration ----------------------------
(***************************************************************************)
(* routes/register.py: an agent asks for a registration token, its owner   *)
(* authorizes at GitHub, and the callback binds the agent's public key to  *)
(* the GitHub account.                                                     *)
(*                                                                         *)
(* The token lives in Redis and expires there, the agents table is in      *)
(* Postgres, and a callback touches both without a common transaction.     *)
(* Callbacks of one account are serialized by pg_advisory_xact_lock, which *)
(* Postgres gives back when the transaction ends, however it ends.         *)
(***************************************************************************)
EXTENDS Integers, FiniteSets

CONSTANTS
    Users,          \* GitHub accounts
    Pubkeys,        \* public keys of agents
    Tokens,         \* registration tokens, each issued once: bounds their number
    Callbacks,      \* callback requests, each used once: bounds their number
    None,           \* "no account", "no key", "no token", "nobody"
    AgentLimit,     \* the 3 of "agent_count >= 3"
    MaxFaults       \* bound: failures of Redis and restarts of the server

ASSUME NoneAssumption == None \notin Users \cup Pubkeys \cup Tokens \cup Callbacks

ASSUME LimitAssumption == AgentLimit \in Nat /\ MaxFaults \in Nat

ASSUME FiniteAssumption == IsFiniteSet(Pubkeys)

VARIABLES
    agents,     \* the agents table, by pubkey
    tokens,     \* the regtok: keys of Redis, by token
    callbacks,  \* GET /register/oauth/callback requests
    userlock,   \* who holds the advisory lock of an account
    via,        \* history: the token by which a key was bound
    returned,   \* history: keys withdrawn from service and now back in it
    faults      \* history: failures so far

vars == <<agents, tokens, callbacks, userlock, via, returned, faults>>

----------------------------------------------------------------------------
\* An agents row; "active" stands for soft_banned too, which counts the same.
Agent ==
    [status : {"absent", "active", "hard_banned", "deleted"},
     user : Users \cup {None}]

NoAgent == [status |-> "absent", user |-> None]

\* A token is unissued, one of the three statuses of its Redis entry, or gone.
Token ==
    [status : {"unissued", "pending", "complete", "failed", "gone"},
     pubkey : Pubkeys \cup {None}]

\* A callback read its token ("github" waits for GitHub), waits for the lock of
\* the account, is to refuse or to insert under the lock, or is to report.
Callback ==
    [phase : {"idle", "github", "waiting", "refusing", "inserting", "reporting",
              "done", "failed"},
     token : Tokens \cup {None}, pubkey : Pubkeys \cup {None},
     user : Users \cup {None}]

NoCallback == [phase |-> "idle", token |-> None, pubkey |-> None, user |-> None]

Stored(t) == tokens[t].status \in {"pending", "complete", "failed"}

Counted(p, u) == agents[p].status = "active" /\ agents[p].user = u

\* count_active_agents_for_github.
ActiveAgents(u) == {p \in Pubkeys : Counted(p, u)}

InPhase(k, phase) == [callbacks EXCEPT ![k].phase = phase]

\* Mutant of Released: pg_advisory_lock, which outlives the transaction.
KeptBySession(k) == userlock

\* The transaction of k ends.
Released(k) == [userlock EXCEPT ![callbacks[k].user] = None]

Init ==
    /\ agents = [p \in Pubkeys |-> NoAgent]
    /\ tokens = [t \in Tokens |-> [status |-> "unissued", pubkey |-> None]]
    /\ callbacks = [k \in Callbacks |-> NoCallback]
    /\ userlock = [u \in Users |-> None]
    /\ via = [p \in Pubkeys |-> None]
    /\ returned = {}
    /\ faults = 0

----------------------------------------------------------------------------
(* Redis.                                                                  *)

\* Nothing asks whether the key is registered already.
InitRegistration(t, p) ==
    /\ tokens[t].status = "unissued"
    /\ tokens' = [tokens EXCEPT ![t] = [status |-> "pending", pubkey |-> p]]
    /\ UNCHANGED <<agents, callbacks, userlock, via, returned, faults>>

\* The 600 seconds since the last setex are over.
ExpireToken(t) ==
    /\ Stored(t)
    /\ tokens' = [tokens EXCEPT ![t].status = "gone"]
    /\ UNCHANGED <<agents, callbacks, userlock, via, returned, faults>>

----------------------------------------------------------------------------
(* The callback.                                                           *)

\* Mutant of StartCallback: no check that the token is still stored.
StartUnchecked(k, t) ==
    /\ callbacks[k].phase = "idle"
    /\ callbacks' = [callbacks EXCEPT
                       ![k] = [phase |-> "github", token |-> t,
                               pubkey |-> tokens[t].pubkey, user |-> None]]
    /\ UNCHANGED <<agents, tokens, userlock, via, returned, faults>>

\* Any stored token will do, whatever its status; without one the answer is 400.
StartCallback(k, t) ==
    /\ callbacks[k].phase = "idle"
    /\ Stored(t)
    /\ callbacks' = [callbacks EXCEPT
                       ![k] = [phase |-> "github", token |-> t,
                               pubkey |-> tokens[t].pubkey, user |-> None]]
    /\ UNCHANGED <<agents, tokens, userlock, via, returned, faults>>

\* exchange_code and get_user_id return the account, or fail.
HearGithub(k) ==
    /\ callbacks[k].phase = "github"
    /\ \/ \E u \in Users :
            callbacks' = [callbacks EXCEPT ![k].phase = "waiting", ![k].user = u]
       \/ callbacks' = InPhase(k, "failed")
    /\ UNCHANGED <<agents, tokens, userlock, via, returned, faults>>

\* Mutant of MayLock: no lock_github_user.
NeverWaits(u) == TRUE

MayLock(u) == userlock[u] = None

\* lock_github_user, and the count that runs under the lock.
LockAndCount(k) ==
    LET u == callbacks[k].user
    IN  /\ callbacks[k].phase = "waiting"
        /\ MayLock(u)
        /\ userlock' = [userlock EXCEPT ![u] = k]
        /\ callbacks' =
             InPhase(k, IF Cardinality(ActiveAgents(u)) >= AgentLimit
                        THEN "refusing" ELSE "inserting")
        /\ UNCHANGED <<agents, tokens, via, returned, faults>>

\* setex writes the whole entry, and starts its 600 seconds again.
Store(k, status) ==
    tokens' = [tokens EXCEPT
                 ![callbacks[k].token] = [status |-> status,
                                          pubkey |-> callbacks[k].pubkey]]

\* The account is at its limit.
Refuse(k) ==
    /\ callbacks[k].phase = "refusing"
    /\ Store(k, "failed")
    /\ callbacks' = InPhase(k, "done")
    /\ userlock' = Released(k)
    /\ UNCHANGED <<agents, via, returned, faults>>

\* Mutant of IsNew: only keys in service are taken.
IsUnused(p) == agents[p].status # "active"

\* agents.pubkey is unique, and no row is ever deleted.
IsNew(p) == agents[p].status = "absent"

InsertAgent(k) ==
    LET p == callbacks[k].pubkey
    IN  /\ callbacks[k].phase = "inserting"
        /\ IsNew(p)
        /\ agents' = [agents EXCEPT ![p] = [status |-> "active",
                                            user |-> callbacks[k].user]]
        /\ via' = [via EXCEPT ![p] = callbacks[k].token]
        /\ callbacks' = InPhase(k, "reporting")
        /\ userlock' = Released(k)
        /\ UNCHANGED <<tokens, returned, faults>>

\* Mutant of InsertConflicts: a key that is registered already is reported.
InsertIgnoresConflict(k) ==
    /\ callbacks[k].phase = "inserting"
    /\ ~IsNew(callbacks[k].pubkey)
    /\ callbacks' = InPhase(k, "reporting")
    /\ userlock' = Released(k)
    /\ UNCHANGED <<agents, tokens, via, returned, faults>>

\* The unique key is violated: the request fails and the token is left alone.
InsertConflicts(k) ==
    /\ callbacks[k].phase = "inserting"
    /\ ~IsNew(callbacks[k].pubkey)
    /\ callbacks' = InPhase(k, "failed")
    /\ userlock' = Released(k)
    /\ UNCHANGED <<agents, tokens, via, returned, faults>>

\* Mutant of Report: the owner gets the page, the agent no answer.
ReportToOwner(k) ==
    /\ callbacks[k].phase = "reporting"
    /\ callbacks' = InPhase(k, "done")
    /\ UNCHANGED <<agents, tokens, userlock, via, returned, faults>>

\* The binding is committed; an entry that expired meanwhile is there again.
Report(k) ==
    /\ callbacks[k].phase = "reporting"
    /\ Store(k, "complete")
    /\ callbacks' = InPhase(k, "done")
    /\ UNCHANGED <<agents, userlock, via, returned, faults>>

----------------------------------------------------------------------------
(* Failures, and the end of an agent.                                      *)

\* Redis refuses the setex: the request fails, and its transaction ends.
FailStore(k) ==
    /\ callbacks[k].phase \in {"refusing", "reporting"}
    /\ faults < MaxFaults
    /\ faults' = faults + 1
    /\ callbacks' = InPhase(k, "failed")
    /\ userlock' = IF callbacks[k].phase = "refusing" THEN Released(k)
                   ELSE userlock
    /\ UNCHANGED <<agents, tokens, via, returned>>

ServerRestart ==
    /\ faults < MaxFaults
    /\ faults' = faults + 1
    /\ callbacks' = [k \in Callbacks |->
                       IF callbacks[k].phase \in {"idle", "done"}
                       THEN callbacks[k]
                       ELSE [callbacks[k] EXCEPT !.phase = "failed"]]
    /\ userlock' = [u \in Users |-> None]
    /\ UNCHANGED <<agents, tokens, via, returned>>

\* DELETE /agent: the row stays as a tombstone without its account.  A request
\* that was authenticated before a hard ban deletes all the same.
DeleteAccount(p) ==
    /\ agents[p].status \in {"active", "hard_banned"}
    /\ agents' = [agents EXCEPT ![p] = [status |-> "deleted", user |-> None]]
    /\ returned' = returned \ {p}
    /\ UNCHANGED <<tokens, callbacks, userlock, via, faults>>

\* The operator's decision; the account stays in the row.
HardBan(p) ==
    /\ agents[p].status = "active"
    /\ agents' = [agents EXCEPT ![p].status = "hard_banned"]
    /\ returned' = returned \ {p}
    /\ UNCHANGED <<tokens, callbacks, userlock, via, faults>>

\* A soft ban that was decided while the agent was in service is written over
\* what the agent became meanwhile, and lifted as any other.  Only the status is
\* written: the row keeps the account of a banned agent, a tombstone has none.
StaleBan(p) ==
    /\ agents[p].status \in {"hard_banned", "deleted"}
    /\ agents' = [agents EXCEPT ![p].status = "active"]
    /\ returned' = returned \cup {p}
    /\ UNCHANGED <<tokens, callbacks, userlock, via, faults>>

----------------------------------------------------------------------------
CallbackStep(k) ==
    \/ HearGithub(k)
    \/ LockAndCount(k)
    \/ Refuse(k)
    \/ InsertAgent(k)
    \/ InsertConflicts(k)
    \/ Report(k)

Next ==
    \/ \E t \in Tokens :
          ExpireToken(t) \/ \E p \in Pubkeys : InitRegistration(t, p)
    \/ \E k \in Callbacks :
          CallbackStep(k) \/ FailStore(k) \/ \E t \in Tokens : StartCallback(k, t)
    \/ \E p \in Pubkeys : DeleteAccount(p) \/ HardBan(p) \/ StaleBan(p)
    \/ ServerRestart

Spec == Init /\ [][Next]_vars

\* GitHub answers within the timeout of 10 seconds or the request fails, and
\* Postgres queues the waiters of a lock.
Fairness ==
    \A k \in Callbacks : WF_vars(CallbackStep(k)) /\ SF_vars(LockAndCount(k))

FairSpec == Spec /\ Fairness

----------------------------------------------------------------------------
(* Properties.                                                             *)

Active(k) == callbacks[k].phase \notin {"idle", "done", "failed"}

\* Every variable holds what the code's types allow; only an agent in service is
\* back in service, and one that was never withdrawn has an account; a callback
\* that works has its token and key, and from GitHub's answer on its account.
TypeOK ==
    /\ agents \in [Pubkeys -> Agent]
    /\ tokens \in [Tokens -> Token]
    /\ callbacks \in [Callbacks -> Callback]
    /\ userlock \in [Users -> Callbacks \cup {None}]
    /\ via \in [Pubkeys -> Tokens \cup {None}]
    /\ faults \in Nat
    /\ returned \subseteq {p \in Pubkeys : agents[p].status = "active"}
    /\ \A p \in Pubkeys \ returned :
          agents[p].status = "active" => agents[p].user \in Users
    /\ \A t \in Tokens : Stored(t) => tokens[t].pubkey \in Pubkeys
    /\ \A k \in Callbacks :
          /\ Active(k) => callbacks[k].token \in Tokens
                          /\ callbacks[k].pubkey \in Pubkeys
          /\ Active(k) /\ callbacks[k].phase # "github" =>
                callbacks[k].user \in Users

\* An account never has more than AgentLimit agents in service, however many
\* callbacks count and insert at once, but for agents that a stale soft ban
\* brought back after they were banned or deleted, which no callback counts in
\* time (routes/register.py, oauth_callback).
AgentLimitHolds ==
    \A u \in Users : Cardinality(ActiveAgents(u) \ returned) <= AgentLimit

\* Of all the tokens issued for a key, only the one whose callback bound it
\* reports complete, whatever is retried, expires or fails between the commit
\* and the report (routes/register.py, registration_status).
CompleteIsEarned ==
    \A t \in Tokens :
        tokens[t].status = "complete" => via[tokens[t].pubkey] = t

\* The advisory lock of an account is held only by a callback whose transaction
\* is still to end, with a step to take that waits for no callback: the lock
\* never outlives its transaction (routes/register.py, lock_github_user).
LockIsWorked ==
    \A u \in Users :
        LET k == userlock[u]
        IN  k # None => /\ callbacks[k].phase \in {"refusing", "inserting"}
                        /\ callbacks[k].user = u

\* A token that bound its key is not pending but while its callback is yet to
\* report, unless Redis or the server failed: nothing else that happens to token,
\* key or account loses the report (routes/register.py, oauth_callback).
BoundIsReported ==
    \A p \in Pubkeys :
        LET t == via[p]
        IN  t # None /\ tokens[t].status = "pending" =>
               \/ \E k \in Callbacks : /\ callbacks[k].phase = "reporting"
                                       /\ callbacks[k].token = t
               \/ faults > 0

\* What Registry sees of a key.
Standing(p) ==
    CASE agents[p].status = "absent" -> "free"
      [] agents[p].status = "active" /\ p \notin returned -> "bound"
      [] agents[p].status = "active" /\ p \in returned -> "restored"
      [] OTHER -> "withdrawn"

Reg ==
    INSTANCE Registry WITH
        owner <- [p \in Pubkeys |-> agents[p].user],
        standing <- [p \in Pubkeys |-> Standing(p)]

\* Registration implements Registry: whatever is deleted, banned and brought back
\* in between, a key is bound at most once, to an account below its limit, and
\* never changes hands (routes/register.py; agents.py, moderation.py, jobs.py).
RegistrySpec == Reg!Spec

\* Every callback returns, however many wait for the same account
\* (routes/register.py, lock_github_user).
CallbackReturns ==
    \A k \in Callbacks : Active(k) ~> ~Active(k)

\* The agent that polls with the token that bound its key is not left with
\* "pending", unless Redis or the server failed (routes/register.py,
\* oauth_callback).
BindingReported ==
    \A t \in Tokens, p \in Pubkeys :
        via[p] = t ~> tokens[t].status # "pending" \/ faults > 0
=============================================================================
