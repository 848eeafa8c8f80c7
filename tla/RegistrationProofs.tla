-------------------------- MODULE RegistrationProofs --------------------------
(***************************************************************************)
(* Proofs about Registration, for any number of accounts, keys, tokens and *)
(* callbacks, and for any AgentLimit.                                      *)
(***************************************************************************)
EXTENDS Registration, FiniteSetTheorems, TLAPS

\* Every step keeps every variable in its type.
LEMMA TypeStep == TypeOK /\ [Next]_vars => TypeOK'
<1> SUFFICES ASSUME TypeOK, [Next]_vars PROVE TypeOK'
  OBVIOUS
<1>1. ASSUME NEW t \in Tokens, NEW p \in Pubkeys, InitRegistration(t, p)
      PROVE  TypeOK'
  BY <1>1 DEF TypeOK, InitRegistration, Token, Stored, Active
<1>2. ASSUME NEW t \in Tokens, ExpireToken(t) PROVE TypeOK'
  BY <1>2 DEF TypeOK, ExpireToken, Token, Stored, Active
<1>3. ASSUME NEW k \in Callbacks, NEW t \in Tokens, StartCallback(k, t)
      PROVE  TypeOK'
  BY <1>3 DEF TypeOK, StartCallback, Callback, Token, Stored, Active
<1>4. ASSUME NEW k \in Callbacks, HearGithub(k) PROVE TypeOK'
  <2>1. UNCHANGED <<agents, tokens, userlock, via, returned, faults>>
    BY <1>4 DEF HearGithub
  <2>2. callbacks' \in [Callbacks -> Callback]
    BY <1>4 DEF TypeOK, HearGithub, InPhase, Callback
  <2>3. \A j \in Callbacks :
          /\ Active(j)' => callbacks'[j].token \in Tokens
                           /\ callbacks'[j].pubkey \in Pubkeys
          /\ Active(j)' /\ callbacks'[j].phase # "github" =>
                callbacks'[j].user \in Users
    BY <1>4 DEF TypeOK, HearGithub, InPhase, Callback, Active
  <2> QED  BY <2>1, <2>2, <2>3 DEF TypeOK, Stored
<1>5. ASSUME NEW k \in Callbacks, LockAndCount(k) PROVE TypeOK'
  BY <1>5 DEF TypeOK, LockAndCount, InPhase, Callback, Stored, Active
<1>6. ASSUME NEW k \in Callbacks, Refuse(k) PROVE TypeOK'
  BY <1>6
  DEF TypeOK, Refuse, Store, Released, InPhase, Callback, Token, Stored,
      Active
<1>7. ASSUME NEW k \in Callbacks, InsertAgent(k) PROVE TypeOK'
  BY <1>7
  DEF TypeOK, InsertAgent, Released, InPhase, Callback, Agent, Stored, Active
<1>8. ASSUME NEW k \in Callbacks, InsertConflicts(k) PROVE TypeOK'
  BY <1>8
  DEF TypeOK, InsertConflicts, Released, InPhase, Callback, Stored, Active
<1>9. ASSUME NEW k \in Callbacks, Report(k) PROVE TypeOK'
  BY <1>9 DEF TypeOK, Report, Store, InPhase, Callback, Token, Stored, Active
<1>10. ASSUME NEW k \in Callbacks, FailStore(k) PROVE TypeOK'
  BY <1>10 DEF TypeOK, FailStore, Released, InPhase, Callback, Stored, Active
<1>11. CASE ServerRestart
  BY <1>11 DEF TypeOK, ServerRestart, Callback, Stored, Active
<1>12. ASSUME NEW p \in Pubkeys, DeleteAccount(p) PROVE TypeOK'
  BY <1>12 DEF TypeOK, DeleteAccount, Agent, Stored, Active
<1>13. ASSUME NEW p \in Pubkeys, HardBan(p) PROVE TypeOK'
  BY <1>13 DEF TypeOK, HardBan, Agent, Stored, Active
<1>14. ASSUME NEW p \in Pubkeys, StaleBan(p) PROVE TypeOK'
  BY <1>14 DEF TypeOK, StaleBan, Agent, Stored, Active
<1>15. CASE UNCHANGED vars
  BY <1>15 DEF TypeOK, vars, Stored, Active
<1> QED
  BY <1>1, <1>2, <1>3, <1>4, <1>5, <1>6, <1>7, <1>8, <1>9, <1>10, <1>11,
     <1>12, <1>13, <1>14, <1>15 DEF Next, CallbackStep

\* Registration keeps to its types (routes/register.py).
THEOREM TypeCorrect == Spec => []TypeOK
<1>1. Init => TypeOK
  BY LimitAssumption
  DEF Init, TypeOK, Agent, NoAgent, Token, Callback, NoCallback, Stored,
      Active
<1> QED
  BY <1>1, TypeStep, PTL DEF Spec

----------------------------------------------------------------------------
(* The limit.                                                              *)

\* The agents of an account that were in service ever since they were bound.
KeptAgents(u) == ActiveAgents(u) \ returned

\* A callback that refuses or inserts holds the lock of its account, so that
\* no two callbacks of an account do.
HoldsLock ==
    \A k \in Callbacks :
        callbacks[k].phase \in {"refusing", "inserting"} =>
            userlock[callbacks[k].user] = k

\* What a callback counted is still true when it inserts: an account gets an
\* agent only from the holder of its lock.
CountHolds ==
    \A k \in Callbacks, u \in Users :
        callbacks[k].phase = "inserting" /\ callbacks[k].user = u =>
            Cardinality(KeptAgents(u)) < AgentLimit

LimitInv == HoldsLock /\ CountHolds /\ AgentLimitHolds

\* Both can be counted, and there are no more of the former than of the latter.
LEMMA ActiveFinite ==
    ASSUME NEW u
    PROVE  /\ IsFiniteSet(ActiveAgents(u)) /\ Cardinality(ActiveAgents(u)) \in Nat
           /\ Cardinality(KeptAgents(u)) <= Cardinality(ActiveAgents(u))
BY FiniteAssumption, FS_Subset, FS_CardinalityType DEF KeptAgents, ActiveAgents

\* The agents kept in service can be counted.
LEMMA KeptFinite ==
    ASSUME NEW u
    PROVE  IsFiniteSet(KeptAgents(u)) /\ Cardinality(KeptAgents(u)) \in Nat
BY FiniteAssumption, FS_Subset, FS_CardinalityType DEF KeptAgents, ActiveAgents

\* An account that loses agents, or none, keeps within what it kept within.
LEMMA FewerAgents ==
    ASSUME NEW u, KeptAgents(u)' \subseteq KeptAgents(u)
    PROVE  Cardinality(KeptAgents(u)') <= Cardinality(KeptAgents(u))
BY KeptFinite, FS_Subset

\* A step that does not insert keeps the invariant if no callback is let in.
LEMMA LimitKept ==
    ASSUME TypeOK, TypeOK', LimitInv,
           \A u \in Users : KeptAgents(u)' \subseteq KeptAgents(u),
           HoldsLock',
           \A k \in Callbacks :
               callbacks'[k].phase = "inserting" =>
                   callbacks[k].phase = "inserting"
                   /\ callbacks'[k].user = callbacks[k].user
    PROVE  LimitInv'
<1>1. \A u \in Users :
        /\ Cardinality(KeptAgents(u)) \in Nat
        /\ Cardinality(KeptAgents(u)') \in Nat
        /\ Cardinality(KeptAgents(u)') <= Cardinality(KeptAgents(u))
  <2> TAKE u \in Users
  <2>1. Cardinality(KeptAgents(u)') \in Nat
    BY FiniteAssumption, FS_Subset, FS_CardinalityType DEF KeptAgents, ActiveAgents
  <2> QED  BY <2>1, KeptFinite, FewerAgents
<1>2. AgentLimitHolds'
  <2> SUFFICES ASSUME NEW u \in Users
               PROVE  Cardinality(KeptAgents(u)') <= AgentLimit
    BY DEF AgentLimitHolds, KeptAgents
  <2>1. Cardinality(KeptAgents(u)) <= AgentLimit
    BY DEF LimitInv, AgentLimitHolds, KeptAgents
  <2> QED  BY <1>1, <2>1, LimitAssumption
<1>3. CountHolds'
  <2> SUFFICES ASSUME NEW k \in Callbacks, NEW u \in Users,
                      callbacks'[k].phase = "inserting", callbacks'[k].user = u
               PROVE  Cardinality(KeptAgents(u)') < AgentLimit
    BY DEF CountHolds
  <2>1. Cardinality(KeptAgents(u)) < AgentLimit
    BY DEF LimitInv, CountHolds
  <2> QED  BY <2>1, <1>1, LimitAssumption
<1> QED  BY <1>2, <1>3 DEF LimitInv

\* The lock, the counts taken under it and the limit, step by step.
LEMMA LimitStep == TypeOK /\ TypeOK' /\ LimitInv /\ [Next]_vars => LimitInv'
<1> SUFFICES ASSUME TypeOK, TypeOK', LimitInv, [Next]_vars PROVE LimitInv'
  OBVIOUS
<1> DEFINE Fewer == \A u \in Users : KeptAgents(u)' \subseteq KeptAgents(u)
           NoneLetIn ==
               \A k \in Callbacks :
                   callbacks'[k].phase = "inserting" =>
                       callbacks[k].phase = "inserting"
                       /\ callbacks'[k].user = callbacks[k].user
<1>a. ASSUME agents' = agents, returned' = returned PROVE Fewer
  BY <1>a DEF KeptAgents, ActiveAgents, Counted
<1>1. ASSUME NEW t \in Tokens, NEW p \in Pubkeys, InitRegistration(t, p)
      PROVE  LimitInv'
  BY <1>1, <1>a, LimitKept DEF InitRegistration, LimitInv, HoldsLock
<1>2. ASSUME NEW t \in Tokens, ExpireToken(t) PROVE LimitInv'
  BY <1>2, <1>a, LimitKept DEF ExpireToken, LimitInv, HoldsLock
<1>3. ASSUME NEW k \in Callbacks, NEW t \in Tokens, StartCallback(k, t)
      PROVE  LimitInv'
  BY <1>3, <1>a, LimitKept
  DEF StartCallback, LimitInv, HoldsLock, TypeOK, Callback
<1>4. ASSUME NEW k \in Callbacks, HearGithub(k) PROVE LimitInv'
  BY <1>4, <1>a, LimitKept
  DEF HearGithub, InPhase, LimitInv, HoldsLock, TypeOK, Callback
<1>5. ASSUME NEW k \in Callbacks, LockAndCount(k) PROVE LimitInv'
  <2> DEFINE u == callbacks[k].user
  <2>1. u \in Users /\ userlock[u] = None /\ UNCHANGED <<agents, returned>>
    BY <1>5 DEF LockAndCount, MayLock, TypeOK, Active
  <2>2. HoldsLock'
    BY <1>5, <2>1, NoneAssumption
    DEF LockAndCount, InPhase, LimitInv, HoldsLock, TypeOK, Callback, Active
  <2>3. \A v : KeptAgents(v)' = KeptAgents(v)
    BY <2>1 DEF KeptAgents, ActiveAgents, Counted
  <2>4. ASSUME NEW j \in Callbacks, NEW v \in Users,
               callbacks'[j].phase = "inserting", callbacks'[j].user = v
        PROVE  Cardinality(KeptAgents(v)) < AgentLimit
    <3>1. CASE j = k
      BY <1>5, <2>4, <3>1, ActiveFinite, KeptFinite, LimitAssumption
      DEF LockAndCount, InPhase, TypeOK, Callback
    <3>2. CASE j # k
      BY <1>5, <2>4, <3>2
      DEF LockAndCount, InPhase, LimitInv, CountHolds, TypeOK
    <3> QED  BY <3>1, <3>2
  <2>5. CountHolds'
    BY <2>3, <2>4 DEF CountHolds
  <2>6. AgentLimitHolds'
    BY <2>3 DEF LimitInv, AgentLimitHolds, KeptAgents
  <2> QED  BY <2>2, <2>5, <2>6 DEF LimitInv
<1>6. ASSUME NEW k \in Callbacks, Refuse(k) PROVE LimitInv'
  BY <1>6, <1>a, LimitKept, NoneAssumption
  DEF Refuse, Released, InPhase, LimitInv, HoldsLock, TypeOK, Callback, Active
<1>7. ASSUME NEW k \in Callbacks, InsertAgent(k) PROVE LimitInv'
  <2>0. PICK u \in Users, p \in Pubkeys :
            u = callbacks[k].user /\ p = callbacks[k].pubkey
    BY <1>7 DEF InsertAgent, TypeOK, Active
  <2>1. /\ userlock[u] = k
        /\ agents[p].status = "absent"
        /\ agents' = [agents EXCEPT ![p] = [status |-> "active", user |-> u]]
        /\ callbacks' = InPhase(k, "reporting")
        /\ userlock' = [userlock EXCEPT ![u] = None]
        /\ returned' = returned /\ p \notin returned
    BY <1>7, <2>0 DEF InsertAgent, IsNew, Released, LimitInv, HoldsLock, TypeOK
  <2>2. KeptAgents(u)' = KeptAgents(u) \cup {p}
    BY <2>1 DEF KeptAgents, ActiveAgents, Counted, TypeOK, Agent
  <2>3. \A v \in Users \ {u} : KeptAgents(v)' = KeptAgents(v)
    BY <2>1 DEF KeptAgents, ActiveAgents, Counted, TypeOK, Agent
  <2>4. Cardinality(KeptAgents(u)') <= AgentLimit
    <3>1. Cardinality(KeptAgents(u)) < AgentLimit
      BY <1>7, <2>0 DEF InsertAgent, LimitInv, CountHolds
    <3>2. p \notin KeptAgents(u)
      BY <2>1 DEF KeptAgents, ActiveAgents, Counted
    <3>3. Cardinality(KeptAgents(u) \cup {p}) = Cardinality(KeptAgents(u)) + 1
      BY <3>2, KeptFinite, FS_AddElement
    <3> QED  BY <2>2, <3>1, <3>3, KeptFinite, LimitAssumption
  <2>5. AgentLimitHolds'
    <3> SUFFICES ASSUME NEW v \in Users
                 PROVE  Cardinality(KeptAgents(v)') <= AgentLimit
      BY DEF AgentLimitHolds, KeptAgents
    <3>1. CASE v = u
      BY <2>4, <3>1
    <3>2. CASE v # u
      <4>1. Cardinality(KeptAgents(v)) <= AgentLimit
        BY DEF LimitInv, AgentLimitHolds, KeptAgents
      <4> QED  BY <2>3, <3>2, <4>1
    <3> QED  BY <3>1, <3>2
  <2>6. \A j \in Callbacks \ {k} :
           callbacks[j].phase \in {"refusing", "inserting"} =>
               callbacks[j].user \in Users \ {u}
    BY <2>0, <2>1 DEF LimitInv, HoldsLock, TypeOK, Active
  <2>7. HoldsLock'
    BY <2>0, <2>1, <2>6 DEF InPhase, LimitInv, HoldsLock, TypeOK, Callback
  <2>8. CountHolds'
    <3> SUFFICES ASSUME NEW j \in Callbacks, NEW v \in Users,
                        callbacks'[j].phase = "inserting", callbacks'[j].user = v
                 PROVE  Cardinality(KeptAgents(v)') < AgentLimit
      BY DEF CountHolds
    <3>1. j # k /\ callbacks'[j] = callbacks[j]
      BY <2>1 DEF InPhase, TypeOK, Callback
    <3>2. Cardinality(KeptAgents(v)) < AgentLimit
      BY <3>1 DEF LimitInv, CountHolds
    <3>3. KeptAgents(v)' = KeptAgents(v)
      BY <2>3, <2>6, <3>1
    <3> QED  BY <3>2, <3>3
  <2> QED  BY <2>5, <2>7, <2>8 DEF LimitInv
<1>8. ASSUME NEW k \in Callbacks, InsertConflicts(k) PROVE LimitInv'
  BY <1>8, <1>a, LimitKept, NoneAssumption
  DEF InsertConflicts, Released, InPhase, LimitInv, HoldsLock, TypeOK,
      Callback, Active
<1>9. ASSUME NEW k \in Callbacks, Report(k) PROVE LimitInv'
  BY <1>9, <1>a, LimitKept
  DEF Report, InPhase, LimitInv, HoldsLock, TypeOK, Callback
<1>10. ASSUME NEW k \in Callbacks, FailStore(k) PROVE LimitInv'
  BY <1>10, <1>a, LimitKept, NoneAssumption
  DEF FailStore, Released, InPhase, LimitInv, HoldsLock, TypeOK, Callback,
      Active
<1>11. CASE ServerRestart
  BY <1>11, <1>a, LimitKept
  DEF ServerRestart, LimitInv, HoldsLock, TypeOK, Callback
<1>12. ASSUME NEW p \in Pubkeys, DeleteAccount(p) PROVE LimitInv'
  <2>1. Fewer
    BY <1>12, NoneAssumption
    DEF DeleteAccount, KeptAgents, ActiveAgents, Counted, TypeOK, Agent
  <2> QED  BY <1>12, <2>1, LimitKept DEF DeleteAccount, LimitInv, HoldsLock
<1>13. ASSUME NEW p \in Pubkeys, HardBan(p) PROVE LimitInv'
  <2>1. Fewer
    BY <1>13 DEF HardBan, KeptAgents, ActiveAgents, Counted, TypeOK, Agent
  <2> QED  BY <1>13, <2>1, LimitKept DEF HardBan, LimitInv, HoldsLock
<1>14. ASSUME NEW p \in Pubkeys, StaleBan(p) PROVE LimitInv'
  <2>1. Fewer
    BY <1>14 DEF StaleBan, KeptAgents, ActiveAgents, Counted, TypeOK, Agent
  <2> QED  BY <1>14, <2>1, LimitKept DEF StaleBan, LimitInv, HoldsLock
<1>15. CASE UNCHANGED vars
  BY <1>15, <1>a, LimitKept DEF vars, LimitInv, HoldsLock
<1> QED
  BY <1>1, <1>2, <1>3, <1>4, <1>5, <1>6, <1>7, <1>8, <1>9, <1>10, <1>11,
     <1>12, <1>13, <1>14, <1>15 DEF Next, CallbackStep

\* They hold when nobody has registered.
LEMMA LimitInit == Init => LimitInv
<1> SUFFICES ASSUME Init PROVE LimitInv
  OBVIOUS
<1>1. \A u \in Users : KeptAgents(u) = {}
  BY DEF Init, NoAgent, KeptAgents, ActiveAgents, Counted
<1>2. \A u \in Users : Cardinality(KeptAgents(u)) = 0
  BY <1>1, FS_EmptySet
<1> QED
  BY <1>2, LimitAssumption
  DEF Init, NoCallback, LimitInv, HoldsLock, CountHolds, AgentLimitHolds, KeptAgents

\* No account ever has more than AgentLimit agents in service, but for those
\* that a stale soft ban brought back (routes/register.py, oauth_callback under
\* lock_github_user; moderation.py, apply_soft_ban).
THEOREM LimitCorrect == Spec => []AgentLimitHolds
<1>1. LimitInv => AgentLimitHolds
  BY DEF LimitInv
<1> QED
  BY <1>1, LimitInit, LimitStep, TypeCorrect, PTL DEF Spec

----------------------------------------------------------------------------
(* What the tokens report.                                                 *)

\* A callback that is to report bound its key by its token; a key is bound by
\* a token only while it has a row, so it is never bound by another.
EarnedInv ==
    /\ CompleteIsEarned
    /\ \A k \in Callbacks :
          callbacks[k].phase = "reporting" =>
              via[callbacks[k].pubkey] = callbacks[k].token
    /\ \A p \in Pubkeys : via[p] # None => agents[p].status # "absent"

\* What the tokens report, step by step.
LEMMA EarnedStep == TypeOK /\ EarnedInv /\ [Next]_vars => EarnedInv'
<1> SUFFICES ASSUME TypeOK, EarnedInv, [Next]_vars PROVE EarnedInv'
  OBVIOUS
<1>1. ASSUME NEW t \in Tokens, NEW p \in Pubkeys, InitRegistration(t, p)
      PROVE  EarnedInv'
  BY <1>1 DEF InitRegistration, EarnedInv, CompleteIsEarned, TypeOK
<1>2. ASSUME NEW t \in Tokens, ExpireToken(t) PROVE EarnedInv'
  BY <1>2 DEF ExpireToken, EarnedInv, CompleteIsEarned, TypeOK, Token
<1>3. ASSUME NEW k \in Callbacks, NEW t \in Tokens, StartCallback(k, t)
      PROVE  EarnedInv'
  BY <1>3 DEF StartCallback, EarnedInv, CompleteIsEarned, TypeOK
<1>4. ASSUME NEW k \in Callbacks, HearGithub(k) PROVE EarnedInv'
  BY <1>4
  DEF HearGithub, InPhase, EarnedInv, CompleteIsEarned, TypeOK, Callback
<1>5. ASSUME NEW k \in Callbacks, LockAndCount(k) PROVE EarnedInv'
  BY <1>5
  DEF LockAndCount, InPhase, EarnedInv, CompleteIsEarned, TypeOK, Callback
<1>6. ASSUME NEW k \in Callbacks, Refuse(k) PROVE EarnedInv'
  BY <1>6
  DEF Refuse, Store, InPhase, EarnedInv, CompleteIsEarned, TypeOK, Callback,
      Token
<1>7. ASSUME NEW k \in Callbacks, InsertAgent(k) PROVE EarnedInv'
  <2>0. PICK p \in Pubkeys, t \in Tokens :
            p = callbacks[k].pubkey /\ t = callbacks[k].token
    BY <1>7 DEF InsertAgent, TypeOK, Active
  <2>1. /\ agents[p].status = "absent" /\ via[p] = None
        /\ agents' = [agents EXCEPT ![p] = [status |-> "active",
                                            user |-> callbacks[k].user]]
        /\ via' = [via EXCEPT ![p] = t]
        /\ callbacks' = [callbacks EXCEPT ![k].phase = "reporting"]
        /\ tokens' = tokens
    BY <1>7, <2>0 DEF InsertAgent, IsNew, InPhase, EarnedInv
  <2>2. CompleteIsEarned'
    BY <2>1, NoneAssumption DEF EarnedInv, CompleteIsEarned, TypeOK, Stored
  <2>3. \A j \in Callbacks :
           callbacks'[j].phase = "reporting" =>
               via'[callbacks'[j].pubkey] = callbacks'[j].token
    BY <2>0, <2>1, NoneAssumption DEF EarnedInv, TypeOK, Callback, Active
  <2>4. \A q \in Pubkeys : via'[q] # None => agents'[q].status # "absent"
    BY <2>1 DEF EarnedInv, TypeOK
  <2> QED  BY <2>2, <2>3, <2>4 DEF EarnedInv
<1>8. ASSUME NEW k \in Callbacks, InsertConflicts(k) PROVE EarnedInv'
  BY <1>8
  DEF InsertConflicts, InPhase, EarnedInv, CompleteIsEarned, TypeOK, Callback
<1>9. ASSUME NEW k \in Callbacks, Report(k) PROVE EarnedInv'
  BY <1>9
  DEF Report, Store, InPhase, EarnedInv, CompleteIsEarned, TypeOK, Callback,
      Token
<1>10. ASSUME NEW k \in Callbacks, FailStore(k) PROVE EarnedInv'
  BY <1>10
  DEF FailStore, InPhase, EarnedInv, CompleteIsEarned, TypeOK, Callback
<1>11. CASE ServerRestart
  BY <1>11 DEF ServerRestart, EarnedInv, CompleteIsEarned, TypeOK, Callback
<1>12. ASSUME NEW p \in Pubkeys, DeleteAccount(p) PROVE EarnedInv'
  BY <1>12 DEF DeleteAccount, EarnedInv, CompleteIsEarned, TypeOK
<1>13. ASSUME NEW p \in Pubkeys, HardBan(p) PROVE EarnedInv'
  BY <1>13 DEF HardBan, EarnedInv, CompleteIsEarned, TypeOK, Agent
<1>14. ASSUME NEW p \in Pubkeys, StaleBan(p) PROVE EarnedInv'
  BY <1>14 DEF StaleBan, EarnedInv, CompleteIsEarned, TypeOK, Agent
<1>15. CASE UNCHANGED vars
  BY <1>15 DEF vars, EarnedInv, CompleteIsEarned
<1> QED
  BY <1>1, <1>2, <1>3, <1>4, <1>5, <1>6, <1>7, <1>8, <1>9, <1>10, <1>11,
     <1>12, <1>13, <1>14, <1>15 DEF Next, CallbackStep

\* Only the token whose callback bound a key ever reports that its registration
\* is complete (routes/register.py, registration_status).
THEOREM EarnedCorrect == Spec => []CompleteIsEarned
<1>1. Init => EarnedInv
  BY DEF Init, NoCallback, EarnedInv, CompleteIsEarned
<1>2. EarnedInv => CompleteIsEarned
  BY DEF EarnedInv
<1> QED
  BY <1>1, <1>2, EarnedStep, TypeCorrect, PTL DEF Spec

----------------------------------------------------------------------------
(* The lock and the report of a binding.                                   *)

\* Whoever holds the lock of an account is at work under it, step by step.
LEMMA WorkedStep == TypeOK /\ LockIsWorked /\ [Next]_vars => LockIsWorked'
<1> SUFFICES ASSUME TypeOK, LockIsWorked, [Next]_vars PROVE LockIsWorked'
  OBVIOUS
<1> USE NoneAssumption
<1>1. ASSUME NEW t \in Tokens, NEW p \in Pubkeys, InitRegistration(t, p)
      PROVE  LockIsWorked'
  BY <1>1 DEF InitRegistration, LockIsWorked
<1>2. ASSUME NEW t \in Tokens, ExpireToken(t) PROVE LockIsWorked'
  BY <1>2 DEF ExpireToken, Stored, LockIsWorked
<1>3. ASSUME NEW k \in Callbacks, NEW t \in Tokens, StartCallback(k, t)
      PROVE  LockIsWorked'
  BY <1>3 DEF StartCallback, Stored, LockIsWorked
<1>4. ASSUME NEW k \in Callbacks, HearGithub(k) PROVE LockIsWorked'
  BY <1>4 DEF HearGithub, InPhase, LockIsWorked, TypeOK
<1>5. ASSUME NEW k \in Callbacks, LockAndCount(k) PROVE LockIsWorked'
  BY <1>5 DEF LockAndCount, InPhase, LockIsWorked, TypeOK
<1>6. ASSUME NEW k \in Callbacks, Refuse(k) PROVE LockIsWorked'
  BY <1>6 DEF Refuse, InPhase, Released, LockIsWorked, TypeOK
<1>7. ASSUME NEW k \in Callbacks, InsertAgent(k) PROVE LockIsWorked'
  BY <1>7 DEF InsertAgent, InPhase, Released, LockIsWorked, TypeOK
<1>8. ASSUME NEW k \in Callbacks, InsertConflicts(k) PROVE LockIsWorked'
  BY <1>8 DEF InsertConflicts, InPhase, Released, LockIsWorked, TypeOK
<1>9. ASSUME NEW k \in Callbacks, Report(k) PROVE LockIsWorked'
  BY <1>9 DEF Report, InPhase, LockIsWorked
<1>10. ASSUME NEW k \in Callbacks, FailStore(k) PROVE LockIsWorked'
  BY <1>10 DEF FailStore, InPhase, Released, LockIsWorked, TypeOK
<1>11. CASE ServerRestart
  BY <1>11 DEF ServerRestart, LockIsWorked
<1>12. ASSUME NEW p \in Pubkeys, DeleteAccount(p) PROVE LockIsWorked'
  BY <1>12 DEF DeleteAccount, LockIsWorked
<1>13. ASSUME NEW p \in Pubkeys, HardBan(p) PROVE LockIsWorked'
  BY <1>13 DEF HardBan, LockIsWorked
<1>14. ASSUME NEW p \in Pubkeys, StaleBan(p) PROVE LockIsWorked'
  BY <1>14 DEF StaleBan, LockIsWorked
<1>15. CASE UNCHANGED vars
  BY <1>15 DEF vars, LockIsWorked
<1> QED
  BY <1>1, <1>2, <1>3, <1>4, <1>5, <1>6, <1>7, <1>8, <1>9, <1>10, <1>11, <1>12,
     <1>13, <1>14, <1>15
  DEF Next, CallbackStep

\* The lock of an account never outlives the transaction that took it
\* (routes/register.py, lock_github_user).
THEOREM LockWorked == Spec => []LockIsWorked
<1>1. Init => LockIsWorked
  BY DEF Init, LockIsWorked
<1> QED
  BY <1>1, WorkedStep, TypeCorrect, PTL DEF Spec

\* A token that a callback works with, or that bound a key, was issued, so that
\* none becomes pending again.
BoundInv ==
    /\ BoundIsReported
    /\ \A p \in Pubkeys : via[p] # None => tokens[via[p]].status # "unissued"
    /\ \A k \in Callbacks :
          Active(k) => tokens[callbacks[k].token].status # "unissued"

\* The report of a binding, step by step.
LEMMA BoundStep == TypeOK /\ BoundInv /\ [Next]_vars => BoundInv'
<1> SUFFICES ASSUME TypeOK, BoundInv, [Next]_vars PROVE BoundInv'
  OBVIOUS
<1> USE NoneAssumption
<1>1. ASSUME NEW t \in Tokens, NEW p \in Pubkeys, InitRegistration(t, p)
      PROVE  BoundInv'
  BY <1>1 DEF InitRegistration, BoundInv, BoundIsReported, Active
<1>2. ASSUME NEW t \in Tokens, ExpireToken(t) PROVE BoundInv'
  BY <1>2 DEF ExpireToken, Stored, BoundInv, BoundIsReported, Active
<1>3. ASSUME NEW k \in Callbacks, NEW t \in Tokens, StartCallback(k, t)
      PROVE  BoundInv'
  BY <1>3 DEF StartCallback, Stored, BoundInv, BoundIsReported, Active
<1>4. ASSUME NEW k \in Callbacks, HearGithub(k) PROVE BoundInv'
  <2>1. UNCHANGED <<tokens, via, faults>>
    BY <1>4 DEF HearGithub
  <2>2. \A j \in Callbacks \ {k} : callbacks'[j] = callbacks[j]
    BY <1>4 DEF HearGithub, InPhase, TypeOK
  <2>3. /\ callbacks[k].phase = "github" /\ callbacks'[k].phase # "reporting"
        /\ callbacks'[k].token = callbacks[k].token
    BY <1>4 DEF HearGithub, InPhase, TypeOK, Callback
  <2>4. BoundIsReported'
    BY <2>1, <2>2, <2>3 DEF BoundInv, BoundIsReported
  <2> QED
    BY <2>1, <2>2, <2>3, <2>4 DEF BoundInv, Active
<1>5. ASSUME NEW k \in Callbacks, LockAndCount(k) PROVE BoundInv'
  BY <1>5 DEF LockAndCount, InPhase, BoundInv, BoundIsReported, Active
<1>6. ASSUME NEW k \in Callbacks, Refuse(k) PROVE BoundInv'
  BY <1>6 DEF Refuse, InPhase, Store, BoundInv, BoundIsReported, Active
<1>7. ASSUME NEW k \in Callbacks, InsertAgent(k) PROVE BoundInv'
  BY <1>7 DEF InsertAgent, InPhase, BoundInv, BoundIsReported, TypeOK, Active
<1>8. ASSUME NEW k \in Callbacks, InsertConflicts(k) PROVE BoundInv'
  BY <1>8 DEF InsertConflicts, InPhase, BoundInv, BoundIsReported, Active
<1>9. ASSUME NEW k \in Callbacks, Report(k) PROVE BoundInv'
  BY <1>9 DEF Report, InPhase, Store, BoundInv, BoundIsReported, TypeOK, Active
<1>10. ASSUME NEW k \in Callbacks, FailStore(k) PROVE BoundInv'
  BY <1>10 DEF FailStore, InPhase, BoundInv, BoundIsReported, TypeOK, Active
<1>11. CASE ServerRestart
  BY <1>11 DEF ServerRestart, BoundInv, BoundIsReported, TypeOK, Active
<1>12. ASSUME NEW p \in Pubkeys, DeleteAccount(p) PROVE BoundInv'
  BY <1>12 DEF DeleteAccount, BoundInv, BoundIsReported, Active
<1>13. ASSUME NEW p \in Pubkeys, HardBan(p) PROVE BoundInv'
  BY <1>13 DEF HardBan, BoundInv, BoundIsReported, Active
<1>14. ASSUME NEW p \in Pubkeys, StaleBan(p) PROVE BoundInv'
  BY <1>14 DEF StaleBan, BoundInv, BoundIsReported, Active
<1>15. CASE UNCHANGED vars
  BY <1>15 DEF vars, BoundInv, BoundIsReported, Active
<1> QED
  BY <1>1, <1>2, <1>3, <1>4, <1>5, <1>6, <1>7, <1>8, <1>9, <1>10, <1>11, <1>12,
     <1>13, <1>14, <1>15
  DEF Next, CallbackStep

\* A key that was bound is reported, by the callback that bound it or one still
\* to come, unless Redis or the server failed (routes/register.py,
\* oauth_callback).
THEOREM BoundCorrect == Spec => []BoundIsReported
<1>1. Init => BoundInv
  BY DEF Init, NoCallback, BoundInv, BoundIsReported, Active
<1>2. BoundInv => BoundIsReported
  BY DEF BoundInv
<1> QED
  BY <1>1, <1>2, BoundStep, TypeCorrect, PTL DEF Spec

----------------------------------------------------------------------------
(* The implementation of Registry.                                         *)

OwnerOf == [p \in Pubkeys |-> agents[p].user]

StandingOf == [p \in Pubkeys |-> Standing(p)]

\* What Standing is, one status at a time.
LEMMA StandingCases ==
    ASSUME TypeOK, NEW p \in Pubkeys
    PROVE  /\ Standing(p) = "free" <=> agents[p].status = "absent"
           /\ Standing(p) = "bound" <=>
                 agents[p].status = "active" /\ p \notin returned
           /\ Standing(p) = "restored" <=>
                 agents[p].status = "active" /\ p \in returned
           /\ Standing(p) = "withdrawn" <=>
                 agents[p].status \in {"hard_banned", "deleted"}
BY DEF TypeOK, Agent, Standing

\* Registry counts the agents that Registration keeps in service.
LEMMA RegAgents ==
    ASSUME TypeOK, NEW u \in Users
    PROVE  Reg!Agents(u) = KeptAgents(u)
BY StandingCases DEF Reg!Agents, KeptAgents, ActiveAgents, Counted

\* And counts them the same way.
LEMMA RegCardinality ==
    ASSUME NEW S
    PROVE  Reg!Cardinality(S) = Cardinality(S)
BY DEF Reg!Cardinality, Cardinality, Reg!IsFiniteSet, IsFiniteSet

\* A step that leaves agents alone is a stutter of Registry.
LEMMA RegStutters ==
    ASSUME agents' = agents, returned' = returned
    PROVE  UNCHANGED Reg!vars
BY DEF Reg!vars, Standing

\* Every step is a binding, a withdrawal or a return of a key, or none of
\* Registry.
LEMMA RegStep ==
    TypeOK /\ TypeOK' /\ LimitInv /\ [Next]_vars => [Reg!Next]_(Reg!vars)
<1> SUFFICES ASSUME TypeOK, TypeOK', LimitInv, [Next]_vars
             PROVE  [Reg!Next]_(Reg!vars)
  OBVIOUS
<1>0. ASSUME NEW p \in Pubkeys,
             \A q \in Pubkeys \ {p} : agents'[q] = agents[q],
             \A q \in Pubkeys \ {p} : q \in returned' <=> q \in returned
      PROVE  StandingOf' = [StandingOf EXCEPT ![p] = Standing(p)']
  <2>1. \A q \in Pubkeys \ {p} : Standing(q)' = Standing(q)
    BY <1>0 DEF Standing
  <2> QED  BY <2>1 DEF StandingOf
<1>1. ASSUME NEW k \in Callbacks, InsertAgent(k) PROVE Reg!Next
  <2>0. PICK u \in Users, p \in Pubkeys :
            u = callbacks[k].user /\ p = callbacks[k].pubkey
    BY <1>1 DEF InsertAgent, TypeOK, Active
  <2>1. /\ agents[p].status = "absent"
        /\ agents' = [agents EXCEPT ![p] = [status |-> "active", user |-> u]]
        /\ returned' = returned /\ p \notin returned
    BY <1>1, <2>0 DEF InsertAgent, IsNew, TypeOK
  <2>2. Cardinality(Reg!Agents(u)) < AgentLimit
    BY <1>1, <2>0, RegAgents DEF InsertAgent, LimitInv, CountHolds
  <2>3. OwnerOf' = [OwnerOf EXCEPT ![p] = u]
    BY <2>1 DEF OwnerOf, TypeOK
  <2>4. Standing(p) = "free" /\ Standing(p)' = "bound"
    BY <2>1 DEF Standing, TypeOK
  <2>5. StandingOf' = [StandingOf EXCEPT ![p] = "bound"]
    BY <1>0, <2>1, <2>4 DEF TypeOK
  <2>6. Reg!Bind(p, u)
    BY <2>2, <2>3, <2>4, <2>5, RegCardinality DEF Reg!Bind, OwnerOf, StandingOf
  <2> QED  BY <2>6 DEF Reg!Next
<1>2. ASSUME NEW p \in Pubkeys, DeleteAccount(p) \/ HardBan(p) PROVE Reg!Next
  <2>1. /\ \A q \in Pubkeys \ {p} : agents'[q] = agents[q]
        /\ returned' = returned \ {p}
        /\ agents[p].status # "absent"
        /\ agents'[p].status \in {"hard_banned", "deleted"}
    BY <1>2 DEF DeleteAccount, HardBan, TypeOK, Agent
  <2>2. Standing(p) # "free" /\ Standing(p)' = "withdrawn"
    BY <2>1 DEF Standing
  <2>3. StandingOf' = [StandingOf EXCEPT ![p] = "withdrawn"]
    BY <1>0, <2>1, <2>2
  <2>4. OwnerOf' = OwnerOf \/ OwnerOf' = [OwnerOf EXCEPT ![p] = None]
    <3>1. CASE DeleteAccount(p)
      BY <3>1 DEF DeleteAccount, OwnerOf, TypeOK
    <3>2. CASE HardBan(p)
      BY <3>2 DEF HardBan, OwnerOf, TypeOK, Agent
    <3> QED  BY <1>2, <3>1, <3>2
  <2>5. Reg!Withdraw(p)
    BY <2>2, <2>3, <2>4 DEF Reg!Withdraw, OwnerOf, StandingOf
  <2> QED  BY <2>5 DEF Reg!Next
<1>3. ASSUME NEW p \in Pubkeys, StaleBan(p) PROVE Reg!Next
  <2>1. /\ \A q \in Pubkeys \ {p} : agents'[q] = agents[q]
        /\ returned' = returned \cup {p}
        /\ agents[p].status \in {"hard_banned", "deleted"}
        /\ agents'[p].status = "active"
    BY <1>3 DEF StaleBan, TypeOK, Agent
  <2>2. Standing(p) = "withdrawn" /\ Standing(p)' = "restored"
    BY <2>1 DEF Standing
  <2>3. StandingOf' = [StandingOf EXCEPT ![p] = "restored"]
    BY <1>0, <2>1, <2>2
  <2>4. OwnerOf' = OwnerOf
    BY <1>3 DEF StaleBan, OwnerOf, TypeOK, Agent
  <2>5. Reg!Restore(p)
    BY <2>2, <2>3, <2>4 DEF Reg!Restore, OwnerOf, StandingOf
  <2> QED  BY <2>5 DEF Reg!Next
<1>4. CASE agents' = agents /\ returned' = returned
  BY <1>4, RegStutters
<1> QED
  BY <1>1, <1>2, <1>3, <1>4
  DEF Next, CallbackStep, InitRegistration, ExpireToken, StartCallback,
      HearGithub, LockAndCount, Refuse, InsertConflicts, Report, FailStore,
      ServerRestart, vars

\* Registration implements Registry: each binding is one atomic step that finds
\* the key free for the first and only time and the account below its limit, and
\* what is deleted, banned or brought back never moves a key to another account.
THEOREM ImplementsRegistry == Spec => RegistrySpec
<1>1. Init => Reg!Init
  BY DEF Init, NoAgent, Reg!Init, Standing
<1> QED
  BY <1>1, LimitInit, RegStep, LimitStep, TypeCorrect, PTL
  DEF Spec, RegistrySpec, Reg!Spec
=============================================================================
